------------------------ MODULE ServiceHelperProtocol ------------------------
(***************************************************************************)
(* The frames between ServiceInvoker and its one-shot helper               *)
(* (service_helper_protocol.hpp).  Magic, version and the reserved bytes   *)
(* are constants of both ends, so that they always agree and are left out. *)
(***************************************************************************)
EXTENDS Integers

CONSTANTS
  UInt32Modulus,                     \* 2^32
  kMaximumServiceNameBytes, kServiceMd5Bytes, kMaximumServicePayloadBytes,
  kMaximumServiceWaitMilliseconds

\* What the values of the header give.
ASSUME ProtocolAssumption ==
  /\ UInt32Modulus \in Nat /\ kServiceMd5Bytes \in Nat
  /\ kMaximumServiceNameBytes \in Nat /\ kMaximumServicePayloadBytes \in Nat
  /\ kMaximumServiceWaitMilliseconds \in Nat
  /\ kMaximumServiceNameBytes < UInt32Modulus
  /\ kMaximumServicePayloadBytes < UInt32Modulus
  /\ kServiceMd5Bytes < UInt32Modulus

ReadyStatus == {"kReady", "kServiceUnavailable", "kProtocolError"}
ResponseStatus == {"kCompleted", "kCallFailed", "kResponseTooLarge", "kProtocolError"}

\* static_cast<std::uint32_t> of a size.
UInt32(n) == n % UInt32Modulus

Frame(kind, id, status, name, md5, payload, wait) ==
  [kind |-> kind, request_id |-> id, status |-> status,
   service_name_bytes |-> name, service_md5_bytes |-> md5,
   payload_bytes |-> payload, wait_for_service_ms |-> wait]

makeServiceHelperRequest(id, name, md5, payload, wait) ==
  Frame("kRequest", id, "0", UInt32(name), UInt32(md5), UInt32(payload), wait)
makeServiceHelperReady(id, status) == Frame("kReady", id, status, 0, 0, 0, 0)
makeServiceHelperCommit(id) == Frame("kCommit", id, "0", 0, 0, 0, 0)
makeServiceHelperResponse(id, status, payload) ==
  Frame("kResponse", id, status, 0, 0, UInt32(payload), 0)

validServiceHelperFrameBase(frame) == frame.request_id # 0

validateServiceHelperRequest(frame) ==
  /\ validServiceHelperFrameBase(frame)
  /\ frame.kind = "kRequest" /\ frame.status = "0"
  /\ frame.service_name_bytes > 0
  /\ frame.service_name_bytes <= kMaximumServiceNameBytes
  /\ frame.service_md5_bytes = kServiceMd5Bytes
  /\ frame.payload_bytes <= kMaximumServicePayloadBytes
  /\ frame.wait_for_service_ms <= kMaximumServiceWaitMilliseconds

validateServiceHelperReady(frame, id) ==
  /\ validServiceHelperFrameBase(frame) /\ frame.request_id = id
  /\ frame.kind = "kReady"
  /\ frame.service_name_bytes = 0 /\ frame.service_md5_bytes = 0
  /\ frame.payload_bytes = 0 /\ frame.wait_for_service_ms = 0
  /\ frame.status \in ReadyStatus

validateServiceHelperCommit(frame, id) ==
  /\ validServiceHelperFrameBase(frame) /\ frame.request_id = id
  /\ frame.kind = "kCommit" /\ frame.status = "0"
  /\ frame.service_name_bytes = 0 /\ frame.service_md5_bytes = 0
  /\ frame.payload_bytes = 0 /\ frame.wait_for_service_ms = 0

validateServiceHelperResponse(frame, id) ==
  /\ validServiceHelperFrameBase(frame) /\ frame.request_id = id
  /\ frame.kind = "kResponse"
  /\ frame.service_name_bytes = 0 /\ frame.service_md5_bytes = 0
  /\ frame.wait_for_service_ms = 0
  /\ frame.payload_bytes <= kMaximumServicePayloadBytes
  /\ frame.status \in ResponseStatus
  /\ frame.status # "kCompleted" => frame.payload_bytes = 0
==============================================================================
