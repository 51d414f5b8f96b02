SPECIFICATION Spec
CONSTANTS
  c1 = c1
  c2 = c2
  None = None
  Calls <- MCCalls2
  Topics <- MCTopics
  Requests <- MCRequests
  Pids = {1}
  Interrupts = {"cancelled"}
  MaxPublishers = 1
  MasterUris <- MCMasterUris
  IpAddresses <- MCIpAddresses
  Labels <- MCLabels
  ScopeKeys <- MCScopeKeys
  MaxConfigurationBytes = 1
  MaxIdentityParts = 4
  Compiled <- MCCompiled
  Limits <- MCLimits
  Environments <- MCEnvironments
  InitialSpecs <- MCInitialSpecs
  Specs <- MCSpecs
  ContractLists <- MCContractLists
  Grants <- MCGrants
  WorkContexts <- MCWorkContexts
  Inputs <- MCInputs
SYMMETRY Symmetry2
INVARIANTS ServesItsContext
PROPERTIES HonestReply
CHECK_DEADLOCK FALSE
