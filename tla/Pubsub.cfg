SPECIFICATION FairSpec
CONSTANTS
  Collectors = {StatusActor, EventsActor}
  Clients = {m1, m2, m3}
  Nil = Nil
  MaxFaults = 2
INVARIANTS TypeOK NoSubscriberMissed
PROPERTY LetThrough
CHECK_DEADLOCK FALSE
