--------------------------- MODULE JsonPrimitives ---------------------------
(***************************************************************************)
(* The primitive types of json_codec.cpp: how one JSON value becomes a     *)
(* value of a ROS type that has no parts, and back.                        *)
(*                                                                         *)
(* A primitive ROS type is a record: [type |-> "Bool"], "String",          *)
(* "Float32", "Float64", "Time", "Duration"; [type |-> "UInt", bits] and   *)
(* [type |-> "Int", bits] for the eight integer types.                     *)
(* A message is the value itself: a time or a duration is <<sec, nsec>>,   *)
(* a floating point number is its class ("float", "double" when it is      *)
(* outside of float32, "inf").                                             *)
(* A JSON value is a record with its sort in "json".  A text is a sequence *)
(* of characters: 0..Base-1 are the digits, Minus and Other.               *)
(***************************************************************************)
EXTENDS Integers, Sequences

CONSTANTS
  Base,                    \* of the texts of integers (ten)
  LongBits,                \* of long long, Int64 and UInt64
  SecondBits,              \* of the fields of ros::Time and ros::Duration
  NanosPerSecond

Power2[n \in Nat] == IF n = 0 THEN 1 ELSE 2 * Power2[n - 1]

ASSUME PrimitivesAssumption ==
  /\ Base \in Nat \ {0, 1}
  /\ {LongBits, SecondBits, NanosPerSecond} \subseteq Nat \ {0}
  /\ SecondBits <= LongBits /\ NanosPerSecond <= Power2[SecondBits - 1]

Minus == -1
Other == Base

Ok(m) == [error |-> "none", value |-> m]
Error(e) == [error |-> e, value |-> <<>>]
codecError == Error("invalid_message_payload")
Accepted(result) == result.error = "none"

\* The values of a sequence of results, or the first error among them.
Collect(results) ==
  LET bad == {i \in DOMAIN results : ~Accepted(results[i])} IN
  IF bad # {} THEN results[CHOOSE i \in bad : \A j \in bad : i <= j]
  ELSE Ok([i \in DOMAIN results |-> results[i].value])

-----------------------------------------------------------------------------
(* Integers.                                                               *)

\* The digits of a number.
decimal[n \in Nat] ==
  IF n < Base THEN <<n>> ELSE Append(decimal[n \div Base], n % Base)

\* std::to_string.
to_string(n) == IF n < 0 THEN <<Minus>> \o decimal[-n] ELSE decimal[n]

\* The number that each of the first digits of a text spell.
numberAfter(digits) ==
  LET number[n \in 0..Len(digits)] ==
        IF n = 0 THEN 0 ELSE number[n - 1] * Base + digits[n]
  IN number
Magnitude(digits) == numberAfter(digits)[Len(digits)]

\* What std::stoll and std::stoull read from a canonical text.
Number(text) ==
  IF Head(text) = Minus THEN -Magnitude(Tail(text)) ELSE Magnitude(text)

\* Digits without a leading zero.
Canonical(digits) ==
  /\ digits # <<>>
  /\ \A i \in DOMAIN digits : digits[i] \in 0..Base - 1
  /\ digits[1] = 0 => Len(digits) = 1

\* A text in the one syntax that is taken for an integer.
Spells(text) ==
  /\ text # <<>>
  /\ Canonical(IF Head(text) = Minus THEN Tail(text) ELSE text)
  /\ text # <<Minus, 0>>

\* integerText: the text of the integer, or the empty one when it is refused.
integerText(value) ==
  CASE value.json = "string" ->
         IF Spells(value.text) THEN value.text ELSE <<>>
    [] value.json = "integral" -> to_string(value.number)
    [] OTHER -> <<>>

\* Mutant: the range of the field is not looked at, its low bits are kept.
signedIntegerTruncates(value, bits) ==
  LET text == integerText(value) IN
  IF text = <<>> THEN codecError
  ELSE Ok(((Number(text) + Power2[bits - 1]) % Power2[bits]) - Power2[bits - 1])

signedInteger(value, bits) ==
  LET text == integerText(value) IN
  IF \/ text = <<>>
     \/ Number(text) \notin -(Power2[LongBits - 1])..Power2[LongBits - 1] - 1
     \/ Number(text) \notin -(Power2[bits - 1])..Power2[bits - 1] - 1
  THEN codecError ELSE Ok(Number(text))

unsignedInteger(value, bits) ==
  LET text == integerText(value) IN
  IF \/ text = <<>>
     \/ Head(text) = Minus
     \/ Number(text) > Power2[LongBits] - 1
     \/ Number(text) > Power2[bits] - 1
  THEN codecError ELSE Ok(Number(text))

-----------------------------------------------------------------------------
(* The other primitive types.                                              *)

\* floatingPoint and the float32 range.
floatingPoint(value, type) ==
  LET class == IF value.json = "integral" THEN "float"
               ELSE IF value.json = "real" THEN value.class ELSE "none"
  IN IF class \in {"none", "inf"} \/ (class = "double" /\ type = "Float32")
     THEN codecError ELSE Ok(class)

booleanValue(value) == IF value.json = "bool" THEN Ok(value.bool) ELSE codecError
stringValue(value) == IF value.json = "string" THEN Ok(value.text) ELSE codecError

\* The two members that a time and a duration must have, and what is read there.
hasStamp(value) == value.json = "object" /\ DOMAIN value.members = {"secs", "nsecs"}

unsignedStamp(value) ==
  IF hasStamp(value)
  THEN Collect(<<unsignedInteger(value.members["secs"], SecondBits),
                 unsignedInteger(value.members["nsecs"], SecondBits)>>)
  ELSE codecError

signedStamp(value) ==
  IF hasStamp(value)
  THEN Collect(<<signedInteger(value.members["secs"], SecondBits),
                 signedInteger(value.members["nsecs"], SecondBits)>>)
  ELSE codecError

timeValue(value) ==
  LET stamp == unsignedStamp(value) IN
  IF Accepted(stamp) /\ stamp.value[2] >= NanosPerSecond THEN codecError ELSE stamp

\* The constructor of ros::Duration moves whole seconds out of nsec, makes it
\* non-negative, and throws std::runtime_error when sec leaves 32 bits.
rosDuration(sec, nsec) ==
  LET whole == sec + nsec \div NanosPerSecond IN
  IF whole \in -(Power2[SecondBits - 1])..Power2[SecondBits - 1] - 1
  THEN Ok(<<whole, nsec % NanosPerSecond>>)
  ELSE Error("runtime_error")

\* Mutant: the nanoseconds may be any 32-bit integer.
durationValueAnyNanos(value) ==
  LET stamp == signedStamp(value) IN
  IF Accepted(stamp) THEN rosDuration(stamp.value[1], stamp.value[2]) ELSE stamp

durationValue(value) ==
  LET stamp == signedStamp(value) IN
  IF ~Accepted(stamp) THEN stamp
  ELSE IF stamp.value[2] \notin 1 - NanosPerSecond..NanosPerSecond - 1 THEN codecError
  ELSE rosDuration(stamp.value[1], stamp.value[2])

\* Mutant: 64-bit integers are JSON numbers, which a reader keeps as doubles of
\* LongBits - 1 significant bits.
encodeIntegerAsNumber(number, bits) ==
  [json |-> "integral",
   number |-> IF bits = LongBits THEN number - (number % 2) ELSE number]

\* 64-bit integers are texts, the shorter ones JSON numbers.
encodeInteger(number, bits) ==
  IF bits = LongBits THEN [json |-> "string", text |-> to_string(number)]
  ELSE [json |-> "integral", number |-> number]

\* encodeTime and encodeDuration.
encodeStamp(stamp) ==
  [json |-> "object",
   members |-> [secs |-> [json |-> "integral", number |-> stamp[1]],
                nsecs |-> [json |-> "integral", number |-> stamp[2]]]]

\* The cases of decodeValue, of encodeValue and of an empty message that have no
\* parts.
decodePrimitive(value, type) ==
  CASE type.type = "Bool" -> booleanValue(value)
    [] type.type = "UInt" -> unsignedInteger(value, type.bits)
    [] type.type = "Int" -> signedInteger(value, type.bits)
    [] type.type \in {"Float32", "Float64"} -> floatingPoint(value, type.type)
    [] type.type = "String" -> stringValue(value)
    [] type.type = "Time" -> timeValue(value)
    [] type.type = "Duration" -> durationValue(value)

encodePrimitive(message, type) ==
  CASE type.type = "Bool" -> Ok([json |-> "bool", bool |-> message])
    [] type.type \in {"UInt", "Int"} -> Ok(encodeInteger(message, type.bits))
    [] type.type \in {"Float32", "Float64"} ->
         IF message = "inf" THEN codecError ELSE Ok([json |-> "real", class |-> message])
    [] type.type = "String" -> Ok([json |-> "string", text |-> message])
    [] type.type \in {"Time", "Duration"} -> Ok(encodeStamp(message))

emptyPrimitive(type) ==
  CASE type.type = "Bool" -> FALSE
    [] type.type \in {"UInt", "Int"} -> 0
    [] type.type \in {"Float32", "Float64"} -> "float"
    [] type.type = "String" -> <<>>
    [] type.type \in {"Time", "Duration"} -> <<0, 0>>
=============================================================================
