SPECIFICATION FairSpec
CONSTANTS
  Ids = {i1, i2}
  Keys = {k1}
  Nobody = Nobody
  MaxFaults = 2
  MaxCrashes = 1
INVARIANTS TypeOK ServingMeansOpen NeverStranded
PROPERTIES ServiceSpec ComesToServe OpenAnswered
CHECK_DEADLOCK FALSE
