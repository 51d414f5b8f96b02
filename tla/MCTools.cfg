SPECIFICATION ToolsSpec
CONSTANTS
  Signals = {"SIGINT", "SIGTERM"}
  FailureCode = 9
  Low <- MCLow
  High <- MCHigh
  GeneralDefaults <- MCGeneral
  ScientificDefaults <- MCScientific
  ScientificLimit = 5
  MaxTopics = 4
  MaxTopicParts = 8
  MaxPattern = 3
  UnitsPerGiB = 1
  Documents <- MCDocuments
  FreeSpace = {1, 4, 20}
  Texts <- MCTexts
  Stamps <- MCStamps
  Base = 2
  FractionDigits = 1
  UINT32_MAX = 2
  MaxLength = 4
  MaxSamples = 2
  Options <- MCOptions
  Messages <- MCMessages
  Listings <- MCListings
  Processes = {1, 2}
  MasterPid = 7
  MaxTimeout = 2
  MaxSources = 2
  MaxProbeTopics = 2
  MaxMessages = 2
  MaxVolumes = 3
  MaxFaults = 3
  Foreign <- MCForeign
INVARIANTS
  StatusTruthful TrustedAccepts RecordsAsAsked
  ClockWaitExact ProbeTruthful SnapshotExact
  NoBytesLost PinnedBeforeRenamed FinalizedIsExact
PROPERTIES StopEnds CommandsEnd NothingRewritten EventuallyFinalized
CHECK_DEADLOCK FALSE
