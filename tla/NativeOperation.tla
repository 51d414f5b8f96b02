--------------------------- MODULE NativeOperation ---------------------------
(***************************************************************************)
(* What the adapter promises the Adapter Runtime about an operation that   *)
(* must not be repeated blindly: the class of its result tells how much of *)
(* its native effect may have happened (error.hpp and the callers of its   *)
(* permanentError, transientError, ... uncertainError).                    *)
(*                                                                         *)
(*   - "ok": the native effect happened in full, and is over;              *)
(*   - "uncertain": any part of it may have happened;                      *)
(*   - every other class: none of it happened, and none of it will.        *)
(*                                                                         *)
(* The topic-publish and the service-call capability both implement this.  *)
(***************************************************************************)
EXTENDS Integers

CONSTANTS
  Calls,      \* the invocations
  Failures    \* the error classes other than "uncertain"

VARIABLES
  result,   \* per call: "none" while it runs, then the class of its result
  effects,  \* per call: how many of its native effects happened
  quota     \* per call: how many native effects the request asks for

vars == <<result, effects, quota>>

Init ==
  /\ result = [c \in Calls |-> "none"]
  /\ effects = [c \in Calls |-> 0]
  /\ quota \in [Calls -> Nat \ {0}]

\* One native effect happens while the call runs, or after it gave up.
Effect(c) ==
  /\ result[c] \in {"none", "uncertain"}
  /\ effects[c] < quota[c]
  /\ effects' = [effects EXCEPT ![c] = @ + 1]
  /\ UNCHANGED <<result, quota>>

Succeed(c) ==
  /\ result[c] = "none"
  /\ effects[c] = quota[c]
  /\ result' = [result EXCEPT ![c] = "ok"]
  /\ UNCHANGED <<effects, quota>>

\* A failure that the Runtime may retry or report as "nothing happened".
Refuse(c) ==
  /\ result[c] = "none"
  /\ effects[c] = 0
  /\ \E class \in Failures : result' = [result EXCEPT ![c] = class]
  /\ UNCHANGED <<effects, quota>>

\* The call gives up without knowing, possibly in the very step that fails.
GiveUp(c) ==
  /\ result[c] = "none"
  /\ result' = [result EXCEPT ![c] = "uncertain"]
  /\ \/ UNCHANGED effects
     \/ /\ effects[c] < quota[c]
        /\ effects' = [effects EXCEPT ![c] = @ + 1]
  /\ UNCHANGED quota

Next == \E c \in Calls : Effect(c) \/ Succeed(c) \/ Refuse(c) \/ GiveUp(c)

Spec == Init /\ [][Next]_vars
=============================================================================
