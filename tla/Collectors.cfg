SPECIFICATION FairSpec
CONSTANTS
  Static = {}
  Removed = {}
  Scalars = {vo, aD}
  Lists = {dns}
  Group = aD
  GroupName = v1
  Stamped = {}
  Stamp = v1
  Values = {v1, v2}
  MaxList = 2
  Nil = Nil
  MaxEvents = 2
  MaxBox = 1
INVARIANTS TypeOK SteadyFieldsFollowed EventsOnce
PROPERTY EventsForwarded
