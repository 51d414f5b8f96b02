------------------------------ MODULE JsonCodec ------------------------------
(***************************************************************************)
(* JsonCodec (json_codec.cpp): decoding a JSON value into a dynamic ROS1   *)
(* message and encoding a message as JSON.                                 *)
(*                                                                         *)
(* A type with parts is [type |-> "Compound", fields |-> <<[name, of],     *)
(* ...>>] or [type |-> "Array", element, length], with length -1 when      *)
(* dynamic; its messages are sequences.  decodeValue, encodeValue and the  *)
(* making of an empty message call themselves on the parts.  Each is given *)
(* here as one level: inner holds the results of its calls of itself, by   *)
(* the index of the part.  JsonNesting closes the recursion, and the       *)
(* constants stand for it below the fields of the message that is decoded  *)
(* or encoded.                                                             *)
(***************************************************************************)
EXTENDS JsonPrimitives

CONSTANTS
  maximum_depth, maximum_array_elements,
  decodeNested(_, _, _, _), encodeNested(_, _, _), emptyNested(_)

ASSUME CodecAssumption == {maximum_depth, maximum_array_elements} \subseteq Nat \ {0}

HasParts(type) == type.type \in {"Compound", "Array"}
Names(fields) == {fields[i].name : i \in DOMAIN fields}

\* The type of the part i of a message.
PartType(type, i) == IF type.type = "Compound" THEN type.fields[i].of ELSE type.element

\* A message as createEmptyMessageFromTemplate makes it.
emptyCalls(type) ==
  CASE type.type = "Compound" -> DOMAIN type.fields
    [] type.type = "Array" /\ HasParts(type.element) -> 1..type.length
    [] OTHER -> {}

emptyLevel(inner, type) ==
  CASE ~HasParts(type) -> emptyPrimitive(type)
    [] type.type = "Compound" -> inner
    [] type.type = "Array" ->
         [i \in 1..type.length |-> IF HasParts(type.element) THEN inner[i]
                                   ELSE emptyPrimitive(type.element)]

emptyField(type) == emptyLevel([i \in emptyCalls(type) |-> emptyNested(PartType(type, i))], type)
Empty(type) == emptyLevel([i \in emptyCalls(type) |-> emptyField(PartType(type, i))], type)

-----------------------------------------------------------------------------
(* Decoding.                                                               *)

validateArrayInput(value, type, message) ==
  /\ value.json = "array"
  /\ Len(value.items) <= maximum_array_elements
  /\ IF type.length >= 0 THEN Len(value.items) = type.length ELSE message = <<>>

\* The parts that are decoded: the members that are given, the items that are
\* compounds.
decodeCalls(value, type) ==
  CASE type.type = "Compound" ->
         {i \in DOMAIN type.fields : type.fields[i].name \in DOMAIN value.members}
    [] type.type = "Array" /\ type.element.type = "Compound" -> DOMAIN value.items
    [] OTHER -> {}

\* What the call for the part i is given: its value and the message it fills.
PartValue(value, type, i) ==
  IF type.type = "Compound" THEN value.members[type.fields[i].name] ELSE value.items[i]
PartMessage(message, type, i) ==
  IF type.type = "Compound" \/ type.length >= 0 THEN message[i] ELSE emptyNested(type.element)

\* The field by field loop: a member that is not given leaves its field alone.
decodeCompound(inner, value, type, message) ==
  LET fields == type.fields
      Field(i) == IF fields[i].name \in DOMAIN value.members THEN inner[i] ELSE Ok(message[i])
  IN IF value.json = "object" /\ DOMAIN value.members \subseteq Names(fields)
     THEN Collect([i \in DOMAIN fields |-> Field(i)])
     ELSE codecError

\* decodePrimitiveArray, and the loop over an array of compounds, which alone
\* goes one level down.
decodeArray(inner, value, type, message) ==
  LET Item(i) == IF type.element.type = "Compound" THEN inner[i]
                 ELSE decodePrimitive(value.items[i], type.element)
  IN IF validateArrayInput(value, type, message)
     THEN Collect([i \in DOMAIN value.items |-> Item(i)])
     ELSE codecError

decodeLevel(inner, value, type, message, depth) ==
  CASE depth > maximum_depth -> codecError
    [] depth <= maximum_depth /\ ~HasParts(type) -> decodePrimitive(value, type)
    [] depth <= maximum_depth /\ type.type = "Compound" ->
         decodeCompound(inner, value, type, message)
    [] depth <= maximum_depth /\ type.type = "Array" ->
         decodeArray(inner, value, type, message)

\* A field with what is below it, and a whole message.
decodeField(value, type, message, depth) ==
  decodeLevel([i \in decodeCalls(value, type) |->
                 decodeNested(PartValue(value, type, i), PartType(type, i),
                              PartMessage(message, type, i), depth + 1)],
              value, type, message, depth)

decode(value, type) ==
  decodeLevel([i \in decodeCalls(value, type) |->
                 decodeField(PartValue(value, type, i), PartType(type, i),
                             PartMessage(Empty(type), type, i), 1)],
              value, type, Empty(type), 0)

-----------------------------------------------------------------------------
(* Encoding.                                                               *)

encodeCalls(message, type) ==
  CASE type.type = "Compound" -> DOMAIN type.fields
    [] type.type = "Array" /\ type.element.type = "Compound" -> DOMAIN message
    [] OTHER -> {}

encodeCompound(inner, type) ==
  LET fields == type.fields
      values == Collect(inner)
      Value(name) == values.value[CHOOSE i \in DOMAIN fields : fields[i].name = name]
  IN IF Accepted(values)
     THEN Ok([json |-> "object", members |-> [n \in Names(fields) |-> Value(n)]])
     ELSE values

encodeArray(inner, message, type) ==
  LET Item(i) == IF type.element.type = "Compound" THEN inner[i]
                 ELSE encodePrimitive(message[i], type.element)
      items == Collect([i \in DOMAIN message |-> Item(i)])
  IN CASE Len(message) > maximum_array_elements -> codecError
       [] Len(message) <= maximum_array_elements /\ ~Accepted(items) -> items
       [] Len(message) <= maximum_array_elements /\ Accepted(items) ->
            Ok([json |-> "array", items |-> items.value])

encodeLevel(inner, message, type, depth) ==
  CASE depth > maximum_depth -> codecError
    [] depth <= maximum_depth /\ ~HasParts(type) -> encodePrimitive(message, type)
    [] depth <= maximum_depth /\ type.type = "Compound" -> encodeCompound(inner, type)
    [] depth <= maximum_depth /\ type.type = "Array" -> encodeArray(inner, message, type)

\* A field with what is below it, and a whole message.
encodeField(message, type, depth) ==
  encodeLevel([i \in encodeCalls(message, type) |->
                 encodeNested(message[i], PartType(type, i), depth + 1)],
              message, type, depth)

encode(message, type) ==
  encodeLevel([i \in encodeCalls(message, type) |->
                 encodeField(message[i], PartType(type, i), 1)],
              message, type, 0)
=============================================================================
