SPECIFICATION FairSpec
CONSTANTS
  Clients = {c1, c2, c3, c4, c5}
  Nil = Nil
  MaxFaults = 2
  MaxRestarts = 1
INVARIANTS TypeOK LeftBehindBounded
PROPERTIES EventuallyOpen LostIsLearned
