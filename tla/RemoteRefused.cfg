SPECIFICATION Spec
CONSTANTS
  Keys = {1}
  Queries = {q1}
  Nobody = Nobody
  Collections = {events, dated}
  Scanned = events
  Prefixes <- WholeCollection
  Directions <- OnlyForward
  ServingAtStart <- AlreadyServing
  MaxDbox = 0
  Direct = Direct
  Dated = dated
  Limit = 0
  DisableReplay = FALSE
  RetryDays = 0
  Legacy = {}
  BadIds = {}
  MaxFaults = 1
  MaxCrashes = 0
INVARIANT RefusedIsKept
