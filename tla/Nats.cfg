SPECIFICATION FairSpec
CONSTANTS
  Nil = Nil
  MaxFaults = 2
  Conns = {c1, c2, c3}
  MaxMessages = 2
  Attempts = 2
  MaxNotes = 1
INVARIANTS NatsTypeOK SentPrecedesLater CopiesBounded SentIsStored
PROPERTIES EventuallyConnected GroupLearned AppFreed
CHECK_DEADLOCK FALSE
