SPECIFICATION FairSpec
CONSTANTS
  c1 = c1
  None = None
  Calls <- MCCalls1
  Topics <- MCTopics
  Requests <- MCRequests
  Pids = {1}
  Interrupts = {}
  MaxPublishers = 1
  UnavailableExitPolls = 2
PROPERTIES LostMasterEnds
CHECK_DEADLOCK FALSE
