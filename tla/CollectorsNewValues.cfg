SPECIFICATION Spec
CONSTANTS
  Static = {t}
  Removed = {}
  Scalars = {vo, aD, v}
  Lists = {dns}
  Group = aD
  GroupName = v1
  Stamped = {v}
  Stamp = v1
  Values = {v1, v2}
  MaxList = 2
  Nil = Nil
  MaxEvents = 0
  MaxBox = 1
INVARIANT NewValuesAreSent
