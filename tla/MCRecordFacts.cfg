SPECIFICATION Spec
CONSTANTS
  Inbound <- MCInbound
  Report <- MCReport
  Declarations <- MCDeclarations
  Values = {"a"}
  Reasons = {"lost"}
  QueueSize = 1
  PassLimit = 1
  MAX_EVENTS = 3
  MAX_TOTAL_BYTES = 2
  MaxInputs = 3
INVARIANTS
  SnapshotCurrent
  BlobsDurable
  ValiditySound
  SamplesShown
  CloseAccounts
CHECK_DEADLOCK FALSE
