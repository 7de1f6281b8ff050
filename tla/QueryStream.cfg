SPECIFICATION StreamFairSpec
CONSTANTS
  Keys = {1, 2, 3}
  Queries = {q1}
  Nobody = Nobody
  Collections = {events}
  Scanned = events
  Prefixes <- AnyPrefix
  Directions <- BothWays
  ServingAtStart <- MayStartClosed
  MaxDbox = 1
INVARIANTS StreamTypeOK DeliveredInOrder AtMostOneOvertaken OneEntryInFlight
PROPERTIES ScanReleased QueryReturns ChildCollected
