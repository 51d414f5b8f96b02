SPECIFICATION FairSpec
CONSTANTS
  c1 = c1
  None = None
  Calls <- MCCalls1
  Topics <- MCTopics
  Requests <- MCRequests
  Pids = {1, 2}
  Interrupts = {"cancelled"}
  MaxPublishers = 1
  UnavailableExitPolls = 2
INVARIANTS PatientMonitor
PROPERTIES ChangedMasterEnds
CHECK_DEADLOCK FALSE
