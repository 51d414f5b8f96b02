SPECIFICATION Spec
CONSTANTS
  Signals = {"SIGINT", "SIGTERM"}
  FailureCode = 9
INVARIANTS EndsAfterChild
CHECK_DEADLOCK FALSE
