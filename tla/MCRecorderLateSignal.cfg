SPECIFICATION Spec
CONSTANTS
  Signals = {"SIGINT", "SIGTERM"}
  FailureCode = 9
INVARIANTS FailureIsReported
CHECK_DEADLOCK FALSE
