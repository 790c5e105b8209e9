CONSTANTS
  DiskTypes = {"pd-balanced", "hyperdisk-balanced", "hyperdisk-extreme", "hyperdisk-ml"}
  GiB = 2
  FirstSize = 4
  FirstPerf = {8, 2000, 3500}
  Requests = {9, 206}
  Classes = {2200, 4000}
  LateGuest = TRUE
  ModifyMayFail = FALSE
  MaxFaults = 2
SPECIFICATION PartsSpec
INVARIANTS AnsweredCapacityIsThere
PROPERTIES GrowthIsUsable PublishConvertsWhatIsWanted  SnapshotAnswersAreTrue
