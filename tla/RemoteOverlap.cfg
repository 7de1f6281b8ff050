SPECIFICATION Spec
CONSTANTS
  Keys = {1, 2}
  Queries = {q1, q2}
  Nobody = Nobody
  Collections = {events, dated}
  Scanned = events
  Prefixes <- WholeCollection
  Directions <- OnlyForward
  ServingAtStart <- AlreadyServing
  MaxDbox = 0
  Direct = Direct
  Dated = dated
  Limit = 1
  DisableReplay = FALSE
  RetryDays = 0
  Legacy = {1, 2}
  BadIds = {}
  MaxFaults = 2
  MaxCrashes = 0
SYMMETRY InterchangeableQueries
INVARIANTS Accounted DeliveredInOrder AtMostOneOvertaken
PROPERTY RemovedOnlyWhenSafe
