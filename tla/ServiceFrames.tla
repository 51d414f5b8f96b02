---------------------------- MODULE ServiceFrames ----------------------------
(***************************************************************************)
(* What one ROS1 service call puts on the socket between ServiceInvoker    *)
(* and its helper, and what each end takes from it: sizes, limits and      *)
(* frames.  The interleavings of a call with its helper, with cancellation *)
(* and with other calls are in ServiceCall; here both ends keep going.     *)
(***************************************************************************)
EXTENDS ServiceHelperProtocol, Sequences

CONSTANTS
  kMaximumRosNameBytes, kMaximumWaitMilliseconds,  \* of tools_adapter.cpp
  IdModulus,                \* 2^64, of the counter of request ids
  ServiceRequests,          \* the requests that may be made
  ResponseSizes             \* the sizes of what a ROS server may return

\* The limit is written twice: the handler's may not exceed the helper's.
ASSUME WaitLimitsAgree ==
  /\ kMaximumWaitMilliseconds \in Nat /\ kMaximumRosNameBytes \in Nat
  /\ kMaximumWaitMilliseconds <= kMaximumServiceWaitMilliseconds
ASSUME SizesAssumption ==
  /\ IdModulus \in Nat /\ IdModulus > 1
  /\ ResponseSizes \subseteq Nat
  /\ ServiceRequests \subseteq
       [service : Nat, valid : BOOLEAN, md5 : Nat, hex : BOOLEAN, payload : Nat, wait : Int]

VARIABLES
  step,         \* where the call is
  call,         \* its request: the sizes in bytes, the wait in milliseconds
  next_id,      \* the static counter of nextRequestId
  request_id,
  sent,         \* the last frame of the invoker
  contents,     \* the sizes of name, md5 and payload that follow it
  taken,        \* the sizes the helper reads after it
  reply,        \* the last frame of the helper
  returned,     \* the size of what the ROS server returned
  received,     \* the size the invoker takes it to have
  ending,       \* "none", or the class of the result
  refused       \* observation: an end refused a frame of the other

frame_vars == <<step, call, next_id, request_id, sent, contents, taken, reply,
                returned, received, ending, refused>>

NoFrame == Frame("none", 0, "0", 0, 0, 0, 0)
Nothing == <<0, 0, 0>>

FramesInit ==
  /\ step = "parse"
  /\ call \in ServiceRequests
  /\ next_id \in 0..IdModulus - 1    \* whatever number of calls came before
  /\ request_id = 0
  /\ sent = NoFrame /\ contents = Nothing /\ taken = Nothing
  /\ reply = NoFrame /\ returned = 0 /\ received = 0
  /\ ending = "none"
  /\ refused = FALSE

\* The end of the call.
End(class) == step' = "done" /\ ending' = class

-----------------------------------------------------------------------------
\* Mutant: the handler takes any wait that fits the field.
ParseAnyWait ==
  /\ step = "parse"
  /\ IF call.service \in 1..kMaximumRosNameBytes /\ call.valid /\ call.wait >= 0
     THEN step' = "prepare" /\ ending' = ending
     ELSE End("permanent")
  /\ UNCHANGED <<call, next_id, request_id, sent, contents, taken, reply, returned,
                 received, refused>>

\* CallService: the fields of the operation's input.
Parse ==
  /\ step = "parse"
  /\ IF /\ call.service \in 1..kMaximumRosNameBytes /\ call.valid
        /\ call.wait \in 0..kMaximumWaitMilliseconds
     THEN step' = "prepare" /\ ending' = ending
     ELSE End("permanent")
  /\ UNCHANGED <<call, next_id, request_id, sent, contents, taken, reply, returned,
                 received, refused>>

\* The type is not found, or the codec refuses the request.
RefusePayload ==
  /\ step = "prepare"
  /\ End("permanent") \/ End("transient")
  /\ UNCHANGED <<call, next_id, request_id, sent, contents, taken, reply, returned,
                 received, refused>>

\* serializeServiceRequest and the checks of the description and of the name.
Prepare ==
  /\ step = "prepare"
  /\ IF /\ call.payload <= kMaximumServicePayloadBytes /\ call.payload < UInt32Modulus
        /\ call.md5 = kServiceMd5Bytes /\ call.hex
        /\ call.service \in 1..kMaximumServiceNameBytes
     THEN step' = "send" /\ ending' = ending
     ELSE End("permanent")
  /\ UNCHANGED <<call, next_id, request_id, sent, contents, taken, reply, returned,
                 received, refused>>

\* The counter wraps and zero is skipped.
nextRequestId(next) == IF next # 0 THEN next ELSE 1

WriteRequest ==
  /\ step = "send"
  /\ step' = "read"
  /\ request_id' = nextRequestId(next_id)
  /\ next_id' = (nextRequestId(next_id) + 1) % IdModulus
  /\ sent' = makeServiceHelperRequest(nextRequestId(next_id), call.service, call.md5,
                                      call.payload, call.wait)
  /\ contents' = <<call.service, call.md5, call.payload>>
  /\ UNCHANGED <<call, taken, reply, returned, received, ending, refused>>

\* runHelper reads the request; a frame it refuses ends it without an answer,
\* which the invoker reports as a transient failure.
HelperReads ==
  /\ step = "read"
  /\ IF validateServiceHelperRequest(sent)
     THEN /\ step' = "ready" /\ ending' = ending /\ refused' = refused
          /\ taken' = <<sent.service_name_bytes, sent.service_md5_bytes,
                        sent.payload_bytes>>
     ELSE End("transient") /\ refused' = TRUE /\ taken' = taken
  /\ UNCHANGED <<call, next_id, request_id, sent, contents, reply, returned, received>>

\* It looks at the texts it read, for the service, and for a client of it.
HelperAnswers ==
  /\ step = "ready"
  /\ step' = "fence"
  /\ \E status \in ReadyStatus :
       /\ ~(call.valid /\ call.hex) => status = "kProtocolError"
       /\ reply' = makeServiceHelperReady(sent.request_id, status)
  /\ refused' = (refused \/ ~(call.valid /\ call.hex))
  /\ UNCHANGED <<call, next_id, request_id, sent, contents, taken, returned, received, ending>>

\* The invoker reads the answer and commits.
WriteCommit ==
  /\ step = "fence"
  /\ LET understood == validateServiceHelperReady(reply, request_id) IN
     /\ refused' = (refused \/ ~understood)
     /\ IF understood /\ reply.status = "kReady"
        THEN /\ step' = "commit" /\ ending' = ending
             /\ sent' = makeServiceHelperCommit(request_id) /\ contents' = Nothing
        ELSE End("transient") /\ sent' = sent /\ contents' = contents
  /\ UNCHANGED <<call, next_id, request_id, taken, reply, returned, received>>

\* The helper's own id is that of the request it read, reply.request_id.
\* The call fails, or returns as many bytes as the server likes.
HelperCalls ==
  /\ step = "commit"
  /\ IF validateServiceHelperCommit(sent, reply.request_id)
     THEN /\ step' = "response" /\ ending' = ending /\ refused' = refused
          /\ \/ \E status \in {"kCallFailed", "kProtocolError"} :
                  reply' = makeServiceHelperResponse(reply.request_id, status, 0)
                  /\ returned' = returned
             \/ \E size \in ResponseSizes :
                  /\ returned' = size
                  /\ reply' = IF size > kMaximumServicePayloadBytes
                              THEN makeServiceHelperResponse(reply.request_id,
                                                             "kResponseTooLarge", 0)
                              ELSE makeServiceHelperResponse(reply.request_id,
                                                             "kCompleted", size)
     ELSE End("uncertain") /\ refused' = TRUE /\ UNCHANGED <<reply, returned>>
  /\ UNCHANGED <<call, next_id, request_id, sent, contents, taken, received>>

\* The invoker reads the response and as much payload as it announces.
TakeResponse ==
  /\ step = "response"
  /\ LET understood == validateServiceHelperResponse(reply, request_id) IN
     /\ refused' = (refused \/ ~understood)
     /\ IF understood /\ reply.status = "kCompleted"
        THEN step' = "result" /\ ending' = ending /\ received' = reply.payload_bytes
        ELSE End("uncertain") /\ received' = received
  /\ UNCHANGED <<call, next_id, request_id, sent, contents, taken, reply, returned>>

\* The payload becomes a message and the message JSON, or one of them fails.
Finish ==
  /\ step = "result"
  /\ End("succeeded") \/ End("uncertain")
  /\ UNCHANGED <<call, next_id, request_id, sent, contents, taken, reply, returned,
                 received, refused>>

FramesNext == Parse \/ RefusePayload \/ Prepare \/ WriteRequest \/ HelperReads
              \/ HelperAnswers \/ WriteCommit \/ HelperCalls \/ TakeResponse \/ Finish

FramesSpec == FramesInit /\ [][FramesNext]_frame_vars

-----------------------------------------------------------------------------
\* The two ends of the private socket stay in step: neither refuses a frame of
\* the other, the helper reads exactly as many bytes of name, digest and payload
\* as the invoker wrote, and a call goes on to its result only with exactly the
\* bytes that the ROS server returned.
FramesExact ==
  /\ ~refused
  /\ step \in {"ready", "fence"} => taken = contents
  /\ step = "result" => received = returned
==============================================================================
