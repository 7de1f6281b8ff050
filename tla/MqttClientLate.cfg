SPECIFICATION Spec
CONSTANTS
  Clients = {c1, c2}
  Nil = Nil
  MaxFaults = 1
  MaxRestarts = 0
INVARIANT NotConnectedIsTrue
