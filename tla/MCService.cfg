SPECIFICATION ServiceSpec
CONSTANTS
  c1 = c1
  c2 = c2
  Calls <- MCCalls2
  Interrupts <- MCInterrupts
  MaxInFlight = 1
  UInt32Modulus = 8
  kMaximumServiceNameBytes = 3
  kServiceMd5Bytes = 2
  kMaximumServicePayloadBytes = 4
  kMaximumServiceWaitMilliseconds = 5
  kMaximumRosNameBytes = 3
  kMaximumWaitMilliseconds = 5
  IdModulus = 2
  ServiceRequests <- MCServiceRequests
  ResponseSizes = {0, 1, 4, 5, 8, 9}
  Base = 3
  LongBits = 4
  SecondBits = 3
  NanosPerSecond = 3
  maximum_depth = 2
  maximum_array_elements = 2
  decodeNested <- decodeValue
  encodeNested <- encodeValue
  emptyNested <- emptyMessage
  Inputs <- MCInputs
  WireMessages <- MCWireMessages
INVARIANTS
  HelpersBounded FenceHolds NoOrphan
  FramesExact IntegersExact RoundTrip BadPayloadIsPermanent
PROPERTIES HonestOperation InterruptFence CallsEnd
CHECK_DEADLOCK FALSE
