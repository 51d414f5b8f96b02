----------------------------- MODULE ServiceData -----------------------------
(***************************************************************************)
(* The data of one ROS1 service call from end to end: the JSON request is  *)
(* decoded into a message of the resolved type (TypeRegistry, JsonCodec),  *)
(* serialized, framed and read by the helper (ServiceFrames); the message  *)
(* the ROS server returns is encoded as the JSON response.  The number of  *)
(* bytes of a message is not computed from it: call.payload is any size.   *)
(***************************************************************************)
EXTENDS ServiceFrames, JsonCodec

CONSTANTS
  Inputs,            \* the pairs of request and document that may be given
  WireMessages(_)    \* the messages of a type that a ROS server may send

-----------------------------------------------------------------------------
(* What a type, a JSON value and a message are.                            *)

\* The integers of an integer type.
RangeOf(type) ==
  IF type.type = "UInt" THEN 0..Power2[type.bits] - 1
  ELSE -Power2[type.bits - 1]..Power2[type.bits - 1] - 1

IsPrimitive(type) ==
  /\ type.type \in {"Bool", "UInt", "Int", "Float32", "Float64", "String", "Time", "Duration"}
  /\ type.type \in {"UInt", "Int"} => type.bits \in 1..LongBits

\* What decoding reaches without a further level: primitives and arrays of them.
IsFlat(type) ==
  \/ IsPrimitive(type)
  \/ type.type = "Array" /\ IsPrimitive(type.element) /\ type.length \in Nat \cup {-1}
IsNested(type) ==
  type.type = "Compound" \/ (type.type = "Array" /\ type.element.type = "Compound")

\* Requests and responses are compounds, whose fields have names of their own.
IsMessageType(type) ==
  /\ type.type = "Compound"
  /\ Len(type.fields) \in Nat /\ DOMAIN type.fields = 1..Len(type.fields)
  /\ \A i \in DOMAIN type.fields : IsFlat(type.fields[i].of) \/ IsNested(type.fields[i].of)
  /\ \A i, j \in DOMAIN type.fields : type.fields[i].name = type.fields[j].name => i = j

\* JSON values, as deep as the flat fields of a message are read.
IsScalar(value) ==
  /\ value.json = "string" => value.text \in Seq(Int)
  /\ value.json = "integral" => value.number \in Int
  /\ value.json = "real" => value.class \in {"float", "double", "inf"}
IsJson(Part(_), value) ==
  /\ IsScalar(value)
  /\ value.json = "object" => \A n \in DOMAIN value.members : Part(value.members[n])
  /\ value.json = "array" => /\ Len(value.items) \in Nat
                             /\ DOMAIN value.items = 1..Len(value.items)
                             /\ \A i \in DOMAIN value.items : Part(value.items[i])
IsItem(value) == IsJson(IsScalar, value)
IsMember(value) == IsJson(IsItem, value)

IsStamp(m, integers) == m = <<m[1], m[2]>> /\ {m[1], m[2]} \subseteq integers
IsValue(m, type) ==
  /\ type.type \in {"UInt", "Int"} => m \in RangeOf(type)
  /\ type.type = "Float32" => m \in {"float", "inf"}
  /\ type.type = "Float64" => m \in {"float", "double", "inf"}
  /\ type.type = "Time" => IsStamp(m, 0..Power2[SecondBits] - 1)
  /\ type.type = "Duration" =>
       IsStamp(m, -Power2[SecondBits - 1]..Power2[SecondBits - 1] - 1)
IsField(m, type) ==
  /\ IsPrimitive(type) => IsValue(m, type)
  /\ IsFlat(type) /\ type.type = "Array" =>
       /\ Len(m) \in Nat /\ m = [i \in 1..Len(m) |-> m[i]]
       /\ type.length >= 0 => Len(m) = type.length
       /\ \A i \in DOMAIN m : IsValue(m[i], type.element)

\* The inputs are of such types, and a server's messages are of the type asked.
ASSUME InputsAssumption ==
  \A input \in Inputs :
    LET document == input.document
        value == document.value
    IN /\ IsMessageType(document.type)
       /\ IsJson(IsMember, value)
       /\ \A m \in WireMessages(document.type) :
            /\ m = [i \in DOMAIN document.type.fields |-> m[i]]
            /\ \A i \in DOMAIN m : IsField(m[i], document.type.fields[i].of)

-----------------------------------------------------------------------------
VARIABLES
  document,          \* [known, type, value]: the type as resolved, the JSON request
  decoded, message,  \* the request message, once decoded
  response, result,  \* the response message and its JSON
  codec_error        \* observation: the error that ended decode

data_vars == <<document, decoded, message, response, result, codec_error>>
all_vars == <<frame_vars, data_vars>>

DataInit ==
  /\ \E input \in Inputs : call = input.call /\ document = input.document
  /\ FramesInit
  /\ decoded = FALSE /\ message = <<>>
  /\ response = <<>> /\ result = <<>>
  /\ codec_error = "none"

\* ToolsAdapter::failure: an exception that is not a Ros1ToolsError is transient.
failure(error) == IF error = "runtime_error" THEN "transient" ELSE "permanent"

\* resolveService, createServiceRequest and decode.
DecodeRequest ==
  /\ step = "prepare" /\ ~decoded
  /\ LET parsed == decode(document.value, document.type) IN
     IF document.known /\ Accepted(parsed)
     THEN /\ decoded' = TRUE /\ message' = parsed.value
          /\ UNCHANGED <<frame_vars, codec_error>>
     ELSE /\ RefusePayload
          /\ ending' = IF document.known THEN failure(parsed.error) ELSE "permanent"
          /\ codec_error' = IF document.known THEN parsed.error ELSE "none"
          /\ UNCHANGED <<decoded, message>>
  /\ UNCHANGED <<document, response, result>>

\* createMessageFromTemplate, encode and ToolsAdapter::success.  The bytes may
\* not be those of the type, and the JSON may be too long to be returned.
EncodeResponse ==
  /\ Finish
  /\ \/ \E m \in WireMessages(document.type) :
          LET encoded == encode(m, document.type) IN
          /\ response' = m /\ result' = encoded.value
          /\ ending' = IF Accepted(encoded) THEN "succeeded" ELSE "uncertain"
     \/ ending' = "uncertain" /\ UNCHANGED <<response, result>>
  /\ UNCHANGED <<document, decoded, message, codec_error>>

DataNext ==
  \/ DecodeRequest
  \/ EncodeResponse
  \/ /\ Parse \/ (decoded /\ Prepare) \/ WriteRequest \/ HelperReads \/ HelperAnswers
        \/ WriteCommit \/ HelperCalls \/ TakeResponse
     /\ UNCHANGED data_vars

DataSpec == DataInit /\ [][DataNext]_all_vars

-----------------------------------------------------------------------------
(* Properties.                                                             *)

Fields == document.type.fields
Given(i) ==
  document.value.json = "object" /\ Fields[i].name \in DOMAIN document.value.members
Member(i) == document.value.members[Fields[i].name]

\* When a JSON value stands for an integer.
Denotes(value, n) ==
  \/ value.json = "integral" /\ value.number = n
  \/ value.json = "string" /\ value.text = to_string(n)

\* An integer field is accepted exactly when its JSON is the number or the one
\* canonical decimal text of an integer of its ROS type, and it then holds that
\* integer: nothing is truncated, wrapped or read in a second spelling.  (What it
\* is refused for is seen where it is the only thing that can be.)
IntegersExact ==
  \A i \in DOMAIN Fields :
    (Fields[i].of.type \in {"UInt", "Int"} /\ Given(i)) =>
      LET denoted == {n \in RangeOf(Fields[i].of) : Denotes(Member(i), n)}
          alone == Len(Fields) = 1 /\ DOMAIN document.value.members = {Fields[i].name}
      IN /\ decoded => denoted = {message[i]}
         /\ (codec_error # "none" /\ alone) => denoted = {}

\* The times and durations that roscpp itself makes.
NormalValue(m, type) ==
  type.type \in {"Time", "Duration"} => m[2] \in 0..NanosPerSecond - 1
NormalField(m, type) ==
  /\ IsPrimitive(type) => NormalValue(m, type)
  /\ IsFlat(type) /\ type.type = "Array" => \A i \in DOMAIN m : NormalValue(m[i], type.element)
Normalized(m, type) == \A i \in DOMAIN type.fields : NormalField(m[i], type.fields[i].of)

Survives(m, type) ==
  Accepted(encode(m, type)) => decode(encode(m, type).value, type) = Ok(m)

\* What encode writes, decode reads back as the same message: the request that
\* was decoded, and every response that a caller is given unless it carries a
\* time that roscpp would not make.
RoundTrip ==
  /\ decoded => Survives(message, document.type)
  /\ ending = "succeeded" /\ Normalized(response, document.type) =>
       Survives(response, document.type)

\* A request that the codec refuses is refused before anything is sent, and as
\* permanent, so that nobody retries it; except for a duration, in a field or
\* within one, that its negative nanoseconds take below the range of its seconds.
BadPayloadIsPermanent ==
  codec_error # "none" =>
    /\ sent = NoFrame
    /\ \/ ending = "permanent"
       \/ \E i \in DOMAIN Fields :
            LET stamp == signedStamp(Member(i)) IN
            /\ Fields[i].of.type = "Duration" /\ Given(i) /\ Accepted(stamp)
            /\ stamp.value[1] = -Power2[SecondBits - 1] /\ stamp.value[2] < 0
       \/ \E i \in DOMAIN Fields :
            /\ HasParts(Fields[i].of) /\ Given(i)
            /\ decodeField(Member(i), Fields[i].of, Empty(document.type)[i], 1).error
                 = "runtime_error"
==============================================================================
