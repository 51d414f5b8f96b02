SPECIFICATION FairSpec
CONSTANTS
  c1 = c1
  c2 = c2
  None = None
  Calls <- MCCalls2
  Topics <- MCOneTopic
  Requests <- MCSharedRequests
  Pids <- MCOnePid
  Interrupts <- MCOneInterrupt
  MaxPublishers = 1
PROPERTIES CallsEnd
