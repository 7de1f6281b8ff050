SPECIFICATION Spec
CONSTANTS
  Keys = {1, 2, 3}
  Queries = {q1}
  Nobody = Nobody
  Collections = {events, dated}
  Scanned = events
  Prefixes <- WholeCollection
  Directions <- OnlyForward
  ServingAtStart <- MayStartClosed
  MaxDbox = 0
  Direct = Direct
  Dated = dated
  Limit = 1
  DisableReplay = FALSE
  RetryDays = 1
  Legacy = {1, 2}
  BadIds = {1}
  MaxFaults = 1
  MaxCrashes = 1
INVARIANTS RemoteTypeOK Accounted
PROPERTY RemovedOnlyWhenSafe
