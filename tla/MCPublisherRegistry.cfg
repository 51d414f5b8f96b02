SPECIFICATION Spec
CONSTANTS
  c1 = c1
  c2 = c2
  None = None
  Calls <- MCCalls2
  Topics <- MCTopics
  Requests <- MCRequests
  Pids <- MCPids
  Interrupts <- MCOneInterrupt
  MaxPublishers = 1
SYMMETRY Symmetry2
INVARIANTS LeaseAccounting CacheSound EntriesAgree InterruptStops
PROPERTIES EvictionIsSafe HonestOperation
