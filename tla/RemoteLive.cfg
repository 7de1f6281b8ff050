SPECIFICATION FairSpec
CONSTANTS
  Keys = {1, 2}
  Queries = {q1, q2}
  Nobody = Nobody
  Collections = {events, dated}
  Scanned = events
  Prefixes <- WholeCollection
  Directions <- OnlyForward
  ServingAtStart <- AlreadyServing
  MaxDbox = 0
  Direct = Direct
  Dated = dated
  Limit = 0
  DisableReplay = FALSE
  RetryDays = 0
  Legacy = {1}
  BadIds = {}
  MaxFaults = 0
  MaxCrashes = 0
PROPERTIES EventuallySettled Drained
