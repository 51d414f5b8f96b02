----------------------------- MODULE JsonNesting -----------------------------
(***************************************************************************)
(* The recursion of json_codec.cpp over nested messages: each level calls  *)
(* itself on its parts.                                                    *)
(***************************************************************************)
EXTENDS JsonCodec

RECURSIVE emptyMessage(_)
emptyMessage(type) ==
  emptyLevel([i \in emptyCalls(type) |-> emptyMessage(PartType(type, i))], type)

RECURSIVE decodeValue(_, _, _, _)
decodeValue(value, type, message, depth) ==
  decodeLevel([i \in decodeCalls(value, type) |->
                 decodeValue(PartValue(value, type, i), PartType(type, i),
                             PartMessage(message, type, i), depth + 1)],
              value, type, message, depth)

RECURSIVE encodeValue(_, _, _)
encodeValue(message, type, depth) ==
  encodeLevel([i \in encodeCalls(message, type) |->
                 encodeValue(message[i], PartType(type, i), depth + 1)],
              message, type, depth)
=============================================================================
