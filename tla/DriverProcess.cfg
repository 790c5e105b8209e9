CONSTANTS
  v1 = v1
  v2 = v2
  Requests = {"r1", "r2"}
  Workers = {"w1", "w2", "w3"}
SPECIFICATION PartsSpec
INVARIANTS CleanStopIsFinal 
PROPERTIES ShutdownReturns ListingsAreTrue VolumesGetTheirCache
