CONSTANTS
  Calls = {"c1", "c2", "c3", "c4"}
  MaxConcurrent = 2
  Stuck = {"c1", "c2"}
SPECIFICATION PartsSpec
INVARIANTS BoundedConcurrency
PROPERTIES OthersAreServed MountsAreSafe InUseIsRespectedInTime CacheFollowsTheLinks DeviceIsFound
