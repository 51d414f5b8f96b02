SPECIFICATION CommandsSpec
CONSTANTS
  Signals = {"SIGINT", "SIGTERM"}
  FailureCode = 9
  Low <- MCLow
  High <- MCHigh
  GeneralDefaults <- MCGeneral
  ScientificDefaults <- MCScientific
  ScientificLimit = 5
  MaxTopics = 4
  MaxTopicParts = 8
  MaxPattern = 3
  UnitsPerGiB = 1
  Documents <- MCOneDocument
  FreeSpace = {4}
  Texts <- MCOneText
  Stamps <- MCStamps
  Base = 2
  FractionDigits = 1
  UINT32_MAX = 2
  MaxLength = 4
  MaxSamples = 2
  Options <- MCOneOption
  Messages <- MCMessages
  Listings <- MCListings
  Processes = {1, 2}
  MasterPid = 7
  MaxTimeout = 2
  MaxSources = 2
  MaxProbeTopics = 2
  MaxMessages = 2
PROPERTIES TimeoutAndCancellationEnd
CHECK_DEADLOCK FALSE
