----------------------------- MODULE CrashProofs -----------------------------
(***************************************************************************)
(* Proofs about the two protocols whose processes may die between any two  *)
(* steps.  Of ServiceCall, for any number of calls and permits: the commit *)
(* fence, the parent-death fence, what an interruption prevents, and that  *)
(* a call implements NativeOperation.  Of ArchiveFinalization, for any     *)
(* number of volumes and faults: no volume is lost, and a finalized record *)
(* is exact.                                                               *)
(***************************************************************************)
EXTENDS ServiceCall, ArchiveFinalization, FiniteSetTheorems, WellFoundedInduction, TLAPS

-----------------------------------------------------------------------------
(* The service call.                                                       *)

\* The variables are functions on the calls; what their values are matters
\* below only one call at a time.
PerCall(f) == f = [c \in Calls |-> f[c]]

Typed ==
  /\ PerCall(pc) /\ PerCall(outcome) /\ PerCall(interrupt)
  /\ PerCall(socket) /\ PerCall(to_helper) /\ PerCall(to_parent)
  /\ PerCall(helper) /\ PerCall(wire) /\ PerCall(executed)

-----------------------------------------------------------------------------
(* What is known of one call.                                              *)

\* The frames that the helper writes only with the server's answer.
Answers == (ResponseFrames \ {"call-failed"}) \cup {"completed"}

\* The invoker: no outcome before the way out, and the commit frame lies
\* behind it exactly when it may not deny the execution any more.
InvokerInv(c) ==
  /\ interrupt[c] \in {"none", "cancelled", "deadline"}
  /\ pc[c] \in BeforePermit \cup PreCommit \cup PostCommit \cup {"convert"} =>
       outcome[c] = "none"
  /\ to_helper[c] = "commit" =>
       /\ pc[c] \in PostCommit \cup Unwinding \cup {"done"}
       /\ outcome[c] \in {"none", "ok", "uncertain"}
  /\ \/ pc[c] \in PostCommit \cup {"convert"}
     \/ pc[c] \in {"close", "reap"} /\ outcome[c] = "none"
     => to_helper[c] = "commit"
  /\ outcome[c] = "ok" =>
       pc[c] \in {"release", "done"} /\ to_parent[c] \in {"completed", "empty"}

\* The helper: it lives between its start and its reaping, contacts the
\* server only behind the fence, and at most once.
HelperInv(c) ==
  /\ pc[c] \in BeforePermit \cup {"start"} => helper[c] = "none"
  /\ helper[c] \notin {"none", "reaped"} =>
       pc[c] \in (PreCommit \ {"start"}) \cup PostCommit \cup {"close", "reap"}
  /\ helper[c] \in {"call", "calling", "payload"} \/ wire[c] # "none" =>
       to_helper[c] = "commit"
  /\ helper[c] \in Starting \cup {"none", "request", "available", "fence", "call"} =>
       wire[c] = "none"
  /\ to_parent[c] \in Answers \/ helper[c] = "payload" => wire[c] = "answered"
  /\ executed[c] = IF wire[c] = "answered" THEN 1 ELSE 0

CallInv == \A c \in Calls : InvokerInv(c) /\ HelperInv(c)

-----------------------------------------------------------------------------
(* Types.                                                                  *)

\* The variables of every call stay functions on the calls.
THEOREM TypesKept == Spec => []Typed
<1> USE DEF Typed, PerCall
<1>1. Init => Typed
  BY Zenon DEF Init
<1>2. Typed /\ [Next]_vars => Typed'
  <2> SUFFICES ASSUME Typed, [Next]_vars PROVE Typed'
    BY Zenon
  <2> USE DEF Goto, Leave, Fail, Interrupted, Allowed, Reply,
          readExact, invokerVars, socketVars, serverVars
  <2>1. ASSUME NEW c \in Calls, Invoke(c),
               Begin(c) \/ Decode(c) \/ Acquire(c) \/ StartHelper(c) PROVE Typed'
    BY <2>1, Zenon DEF Invoke, Begin, Decode, Acquire, StartHelper
  <2>2. ASSUME NEW c \in Calls, Invoke(c),
               SendRequest(c) \/ ReadReady(c) \/ CheckCommit(c) \/ SendCommit(c)
        PROVE  Typed'
    BY <2>2, Zenon DEF Invoke, SendRequest, ReadReady, CheckCommit, SendCommit
  <2>3. ASSUME NEW c \in Calls, Invoke(c),
               ReadResponse(c) \/ ReadPayload(c) \/ CallTimeout(c) \/ TransportFails(c)
        PROVE  Typed'
    BY <2>3, Zenon DEF Invoke, ReadResponse, ReadPayload, CallTimeout, TransportFails
  <2>4. ASSUME NEW c \in Calls, Invoke(c),
               CloseSocket(c) \/ KillAndReap(c) \/ Convert(c) \/ ReleasePermit(c)
        PROVE  Typed'
    BY <2>4, Zenon DEF Invoke, CloseSocket, KillAndReap, Convert, ReleasePermit
  <2>5. ASSUME NEW c \in Calls, Help(c),
               CheckParent(c) \/ ArmDeathSignal(c) \/ RecheckParent(c)
                 \/ ReadRequest(c) \/ ReadCommit(c) \/ HelperDies(c)
        PROVE  Typed'
    BY <2>5, Zenon DEF Help, CheckParent, ArmDeathSignal, RecheckParent,
                          ReadRequest, ReadCommit, HelperDies
  <2>6. ASSUME NEW c \in Calls, Help(c),
               ReplyReady(c) \/ CallServer(c) \/ CallFails(c) \/ CallReturns(c)
                 \/ WritePayload(c)
        PROVE  Typed'
    BY <2>6, Zenon DEF Help, ReplyReady, CallServer, CallFails, CallReturns,
                          WritePayload
  <2>7. ASSUME NEW c \in Calls, ServerExecutes(c) \/ Interrupt(c) PROVE Typed'
    BY <2>7, Zenon DEF ServerExecutes, Interrupt
  <2>8. CASE AdapterDies
    BY <2>8, Zenon DEF AdapterDies
  <2>9. CASE UNCHANGED vars
    BY <2>9, Zenon DEF vars
  <2> HIDE DEF Typed
  <2> QED
    BY <2>1, <2>2, <2>3, <2>4, <2>5, <2>6, <2>7, <2>8, <2>9, ZenonT(30)
    DEF Next, Invoke, InvokerStep, Help, HelperStep
<1> QED
  BY <1>1, <1>2, PTL DEF Spec

-----------------------------------------------------------------------------
(* The commit fence.                                                       *)

\* What is known of each call holds throughout, whatever the adapter, the
\* helper, the server and the Runtime do in whatever order.
THEOREM CallStructure == Spec => []CallInv
<1> USE DEF BeforePermit, PreCommit, PostCommit, Unwinding, Starting, Fenced, Live,
            ReadyFrames, ResponseFrames, Answers
<1>1. Init => CallInv
  BY DEF Init, CallInv, InvokerInv, HelperInv
<1>2. Typed /\ CallInv /\ [Next]_vars => CallInv'
  <2> SUFFICES ASSUME Typed, CallInv, [Next]_vars, NEW d \in Calls
               PROVE  InvokerInv(d)' /\ HelperInv(d)'
    BY Zenon DEF CallInv
  <2>0. InvokerInv(d) /\ HelperInv(d)
    BY Zenon DEF CallInv
  <2> USE <2>0 DEF Typed, PerCall, InvokerInv, HelperInv,
          Goto, Leave, Fail, Interrupted, Allowed, Reply,
          readExact, invokerVars, socketVars, serverVars
  <2>1. ASSUME NEW c \in Calls, Invoke(c), Begin(c) \/ Decode(c)
        PROVE  InvokerInv(d)' /\ HelperInv(d)'
    BY <2>1, SMTT(60) DEF Invoke, Begin, Decode
  <2>2. ASSUME NEW c \in Calls, Invoke(c), Acquire(c)
        PROVE  InvokerInv(d)' /\ HelperInv(d)'
    BY <2>2, SMTT(60) DEF Invoke, Acquire
  <2>3. ASSUME NEW c \in Calls, Invoke(c), StartHelper(c)
        PROVE  InvokerInv(d)' /\ HelperInv(d)'
    BY <2>3, SMTT(60) DEF Invoke, StartHelper
  <2>4. ASSUME NEW c \in Calls, Invoke(c), SendRequest(c)
        PROVE  InvokerInv(d)' /\ HelperInv(d)'
    BY <2>4, SMTT(60) DEF Invoke, SendRequest
  <2>5. ASSUME NEW c \in Calls, Invoke(c), ReadReady(c) \/ CheckCommit(c)
        PROVE  InvokerInv(d)' /\ HelperInv(d)'
    BY <2>5, SMTT(60) DEF Invoke, ReadReady, CheckCommit
  <2>6. ASSUME NEW c \in Calls, Invoke(c), SendCommit(c)
        PROVE  InvokerInv(d)' /\ HelperInv(d)'
    BY <2>6, SMTT(60) DEF Invoke, SendCommit
  <2>7. ASSUME NEW c \in Calls, Invoke(c), ReadResponse(c) \/ ReadPayload(c)
        PROVE  InvokerInv(d)' /\ HelperInv(d)'
    BY <2>7, SMTT(60) DEF Invoke, ReadResponse, ReadPayload
  <2>8. ASSUME NEW c \in Calls, Invoke(c), CallTimeout(c) \/ TransportFails(c)
        PROVE  InvokerInv(d)' /\ HelperInv(d)'
    BY <2>8, SMTT(60) DEF Invoke, CallTimeout, TransportFails
  <2>9. ASSUME NEW c \in Calls, Invoke(c), CloseSocket(c) \/ KillAndReap(c)
        PROVE  InvokerInv(d)' /\ HelperInv(d)'
    BY <2>9, SMTT(60) DEF Invoke, CloseSocket, KillAndReap
  <2>10. ASSUME NEW c \in Calls, Invoke(c), Convert(c) \/ ReleasePermit(c)
        PROVE  InvokerInv(d)' /\ HelperInv(d)'
    BY <2>10, SMTT(60) DEF Invoke, Convert, ReleasePermit
  <2>11. ASSUME NEW c \in Calls, Help(c), CheckParent(c) \/ ArmDeathSignal(c) \/ RecheckParent(c)
        PROVE  InvokerInv(d)' /\ HelperInv(d)'
    BY <2>11, SMTT(60) DEF Help, CheckParent, ArmDeathSignal, RecheckParent
  <2>12. ASSUME NEW c \in Calls, Help(c), ReadRequest(c) \/ ReadCommit(c) \/ HelperDies(c)
        PROVE  InvokerInv(d)' /\ HelperInv(d)'
    BY <2>12, SMTT(60) DEF Help, ReadRequest, ReadCommit, HelperDies
  <2>13. ASSUME NEW c \in Calls, Help(c), ReplyReady(c)
        PROVE  InvokerInv(d)' /\ HelperInv(d)'
    BY <2>13, SMTT(60) DEF Help, ReplyReady
  <2>14. ASSUME NEW c \in Calls, Help(c), CallServer(c) \/ CallFails(c)
        PROVE  InvokerInv(d)' /\ HelperInv(d)'
    BY <2>14, SMTT(60) DEF Help, CallServer, CallFails
  <2>15. ASSUME NEW c \in Calls, Help(c), CallReturns(c) \/ WritePayload(c)
        PROVE  InvokerInv(d)' /\ HelperInv(d)'
    BY <2>15, SMTT(60) DEF Help, CallReturns, WritePayload
  <2>16. ASSUME NEW c \in Calls, ServerExecutes(c) \/ Interrupt(c)
        PROVE  InvokerInv(d)' /\ HelperInv(d)'
    BY <2>16, InterruptsAssumption, SMTT(60) DEF ServerExecutes, Interrupt
  <2>17. CASE AdapterDies
    BY <2>17, SMTT(60) DEF AdapterDies
  <2>18. CASE UNCHANGED vars
    BY <2>18 DEF vars
  <2> HIDE DEF InvokerInv, HelperInv
  <2> QED
    BY <2>1, <2>2, <2>3, <2>4, <2>5, <2>6, <2>7, <2>8, <2>9, <2>10, <2>11, <2>12, <2>13,
       <2>14, <2>15, <2>16, <2>17, <2>18, ZenonT(30)
    DEF Next, Invoke, InvokerStep, Help, HelperStep
<1> QED
  BY <1>1, <1>2, TypesKept, PTL DEF Spec

\* The server is contacted only behind the whole commit frame, at most once, and
\* a call that contacted it never ends with a class that denies the execution.
THEOREM Fence == Spec => []FenceHolds
<1>1. CallInv => FenceHolds
  BY DEF CallInv, InvokerInv, HelperInv, FenceHolds, Answers, ResponseFrames
<1> QED
  BY <1>1, CallStructure, PTL

-----------------------------------------------------------------------------
(* The parent-death fence.                                                 *)

\* No helper is behind the fence once the adapter is gone: the death signal
\* takes the ones that armed it, the second comparison stops the others.
THEOREM ParentDeathFence == Spec => []NoOrphan
<1> USE DEF Starting, Fenced, Live
<1>1. Init => NoOrphan
  BY Zenon DEF Init, NoOrphan
<1>2. Typed /\ NoOrphan /\ [Next]_vars => NoOrphan'
  <2> SUFFICES ASSUME Typed, NoOrphan, [Next]_vars PROVE NoOrphan'
    BY Zenon
  <2> USE DEF NoOrphan, Typed, PerCall, Reply, readExact
  <2>1. ASSUME NEW c \in Calls, Invoke(c) PROVE NoOrphan'
    BY <2>1, Zenon DEF Invoke
  <2>2. ASSUME NEW c \in Calls, Help(c),
               CheckParent(c) \/ ArmDeathSignal(c) \/ RecheckParent(c) \/ HelperDies(c)
        PROVE  NoOrphan'
    BY <2>2, Zenon DEF Help, CheckParent, ArmDeathSignal, RecheckParent, HelperDies
  <2>3. ASSUME NEW c \in Calls, Help(c),
               ReadRequest(c) \/ ReplyReady(c) \/ ReadCommit(c) \/ CallServer(c)
                 \/ CallFails(c) \/ CallReturns(c) \/ WritePayload(c)
        PROVE  NoOrphan'
    BY <2>3, Zenon DEF Help, ReadRequest, ReplyReady, ReadCommit, CallServer,
                          CallFails, CallReturns, WritePayload
  <2>4. ASSUME NEW c \in Calls, ServerExecutes(c) \/ Interrupt(c) PROVE NoOrphan'
    BY <2>4, Zenon DEF ServerExecutes, Interrupt
  <2>5. CASE AdapterDies
    BY <2>5, Zenon DEF AdapterDies
  <2>6. CASE UNCHANGED vars
    BY <2>6, Zenon DEF vars
  <2> HIDE DEF NoOrphan
  <2> QED
    BY <2>1, <2>2, <2>3, <2>4, <2>5, <2>6, ZenonT(30) DEF Next, Help, HelperStep
<1> QED
  BY <1>1, <1>2, TypesKept, PTL DEF Spec

-----------------------------------------------------------------------------
(* What an interruption prevents.                                          *)

\* The call was told to give up, and will not get past the check before the
\* commit any more.
Stopped(c) ==
  /\ interrupt[c] # "none"
  /\ to_helper[c] # "commit"
  /\ pc[c] \notin BeforePermit \cup {"send-commit"}

\* A call that is stopped stays so.
LEMMA StoppedForGood ==
  ASSUME NEW d \in Calls, Typed, InvokerInv(d), [Next]_vars, Stopped(d)
  PROVE  Stopped(d)'
<1> USE DEF BeforePermit, PreCommit, PostCommit, Unwinding, InvokerInv, Stopped,
            Typed, PerCall, Goto, Leave, Fail, Interrupted, Allowed,
            invokerVars, socketVars, serverVars
<1>1. ASSUME NEW c \in Calls, Invoke(c),
             Begin(c) \/ Decode(c) \/ Acquire(c) \/ StartHelper(c) \/ SendRequest(c)
      PROVE  Stopped(d)'
  BY <1>1, Zenon DEF Invoke, Begin, Decode, Acquire, StartHelper, SendRequest
<1>2. ASSUME NEW c \in Calls, Invoke(c), ReadReady(c) \/ CheckCommit(c) \/ SendCommit(c)
      PROVE  Stopped(d)'
  BY <1>2, Zenon DEF Invoke, ReadReady, CheckCommit, SendCommit
<1>3. ASSUME NEW c \in Calls, Invoke(c),
             ReadResponse(c) \/ ReadPayload(c) \/ CallTimeout(c) \/ TransportFails(c)
      PROVE  Stopped(d)'
  BY <1>3, Zenon DEF Invoke, ReadResponse, ReadPayload, CallTimeout, TransportFails
<1>4. ASSUME NEW c \in Calls, Invoke(c),
             CloseSocket(c) \/ KillAndReap(c) \/ Convert(c) \/ ReleasePermit(c)
      PROVE  Stopped(d)'
  BY <1>4, Zenon DEF Invoke, CloseSocket, KillAndReap, Convert, ReleasePermit
<1>5. ASSUME NEW c \in Calls, Help(c) PROVE Stopped(d)'
  <2>1. UNCHANGED to_helper
    BY <1>5, Zenon DEF Help, HelperStep, HelperDies, CheckParent, ArmDeathSignal,
       RecheckParent, ReadRequest, ReplyReady, ReadCommit, CallServer, CallFails,
       CallReturns, WritePayload
  <2> QED
    BY <1>5, <2>1, Zenon DEF Help
<1>6. ASSUME NEW c \in Calls, ServerExecutes(c) \/ Interrupt(c) PROVE Stopped(d)'
  BY <1>6, Zenon DEF ServerExecutes, Interrupt
<1>7. CASE AdapterDies
  BY <1>7, Zenon DEF AdapterDies
<1>8. CASE UNCHANGED vars
  BY <1>8, Zenon DEF vars
<1> HIDE DEF Stopped
<1> QED
  BY <1>1, <1>2, <1>3, <1>4, <1>5, <1>6, <1>7, <1>8, ZenonT(30)
  DEF Next, Invoke, InvokerStep

\* An interruption before the last check of the commit keeps the call from the
\* server for ever.
THEOREM InterruptsPrevent == Spec => InterruptFence
<1> SUFFICES ASSUME NEW c \in Calls
             PROVE  Spec => [](interrupt[c] # "none" /\ HoldsPermit(c)
                                 /\ to_helper[c] # "commit" /\ pc[c] # "send-commit"
                               => [](executed[c] = 0))
  BY Zenon DEF InterruptFence
<1>1. interrupt[c] # "none" /\ HoldsPermit(c) /\ to_helper[c] # "commit"
        /\ pc[c] # "send-commit" => Stopped(c)
  BY Zenon DEF HoldsPermit, Stopped, BeforePermit, PreCommit, PostCommit, Unwinding
<1>2. Typed /\ CallInv /\ [Next]_vars /\ Stopped(c) => Stopped(c)'
  BY StoppedForGood, Zenon DEF CallInv
<1>3. CallInv /\ Stopped(c) => executed[c] = 0
  BY Zenon DEF CallInv, HelperInv, Stopped
<1> QED
  BY <1>1, <1>2, <1>3, TypesKept, CallStructure, PTL DEF Spec

-----------------------------------------------------------------------------
(* Permits and helper processes.                                           *)

PermitHolders == {c \in Calls : HoldsPermit(c)}

PermitInv == in_flight = Cardinality(PermitHolders) /\ in_flight <= MaxInFlight

\* There are finitely many calls, so the holders of a permit can be counted.
LEMMA HoldersFinite == IsFiniteSet(PermitHolders) /\ Cardinality(PermitHolders) \in Nat
<1>1. PermitHolders \subseteq Calls
  BY Zenon DEF PermitHolders
<1> QED
  BY <1>1, CallsAssumption, FS_Subset, FS_CardinalityType, Zenon

\* A step that gives and takes no permit.
LEMMA PermitFrame ==
  ASSUME PermitInv, UNCHANGED in_flight, \A d \in Calls : HoldsPermit(d)' <=> HoldsPermit(d)
  PROVE  PermitInv'
<1>1. PermitHolders' = PermitHolders
  BY Zenon DEF PermitHolders
<1> QED
  BY <1>1, Zenon DEF PermitInv

\* acquireInFlight counts the new holder, if there is room for one.
LEMMA AcquireCounts ==
  ASSUME Typed, PermitInv, NEW c \in Calls, Acquire(c) PROVE PermitInv'
<1> USE DEF Typed, PerCall, HoldsPermit, PreCommit, PostCommit, Unwinding,
            Goto, Leave, Allowed
<1>1. CASE UNCHANGED in_flight /\ pc' = [pc EXCEPT ![c] = "done"]
  BY <1>1, PermitFrame, Zenon DEF Acquire
<1>2. CASE PermitFree /\ in_flight' = in_flight + 1 /\ pc' = [pc EXCEPT ![c] = "start"]
  <2>1. PermitHolders' = PermitHolders \cup {c} /\ c \notin PermitHolders
    BY <1>2, Zenon DEF Acquire, PermitHolders
  <2>2. Cardinality(PermitHolders') = Cardinality(PermitHolders) + 1
    BY <2>1, HoldersFinite, FS_AddElement, Zenon
  <2> QED
    BY <1>2, <2>2, HoldersFinite, MaxInFlightAssumption DEF PermitInv, PermitFree
<1> QED
  BY <1>1, <1>2, Zenon DEF Acquire

\* The destructor of the permit takes exactly its holder out of the count.
LEMMA ReleaseCounts ==
  ASSUME Typed, PermitInv, NEW c \in Calls, ReleasePermit(c) PROVE PermitInv'
<1> USE DEF Typed, PerCall, HoldsPermit, PreCommit, PostCommit, Unwinding, Goto
<1>1. PermitHolders' = PermitHolders \ {c} /\ c \in PermitHolders
  BY Zenon DEF ReleasePermit, PermitHolders
<1>2. Cardinality(PermitHolders') = Cardinality(PermitHolders) - 1
  BY <1>1, HoldersFinite, FS_RemoveElement, Zenon
<1> QED
  BY <1>2, HoldersFinite, MaxInFlightAssumption DEF PermitInv, ReleasePermit

\* The counter is the number of calls that hold a permit, within its limit.
THEOREM PermitStructure == Spec => []PermitInv
<1> USE DEF BeforePermit, PreCommit, PostCommit, Unwinding
<1>1. Init => PermitInv
  <2> SUFFICES ASSUME Init PROVE PermitInv
    BY Zenon
  <2>1. PermitHolders = {}
    BY Zenon DEF Init, PermitHolders, HoldsPermit
  <2> QED
    BY <2>1, FS_EmptySet, MaxInFlightAssumption DEF Init, PermitInv
<1>2. Typed /\ PermitInv /\ [Next]_vars => PermitInv'
  <2> SUFFICES ASSUME Typed, PermitInv, [Next]_vars PROVE PermitInv'
    BY Zenon
  <2> USE DEF Typed, PerCall, HoldsPermit, Goto, Leave, Fail, Interrupted, invokerVars
  <2>1. ASSUME NEW c \in Calls, Acquire(c) \/ ReleasePermit(c) PROVE PermitInv'
    BY <2>1, AcquireCounts, ReleaseCounts, Zenon
  <2>2. ASSUME NEW c \in Calls,
               Begin(c) \/ Decode(c) \/ StartHelper(c) \/ SendRequest(c) \/ ReadReady(c)
        PROVE  PermitInv'
    BY <2>2, PermitFrame, Zenon
    DEF Begin, Decode, StartHelper, SendRequest, ReadReady
  <2>3. ASSUME NEW c \in Calls,
               CheckCommit(c) \/ SendCommit(c) \/ ReadResponse(c) \/ ReadPayload(c)
        PROVE  PermitInv'
    BY <2>3, PermitFrame, Zenon DEF CheckCommit, SendCommit, ReadResponse, ReadPayload
  <2>4. ASSUME NEW c \in Calls,
               CallTimeout(c) \/ TransportFails(c) \/ CloseSocket(c) \/ KillAndReap(c)
                 \/ Convert(c)
        PROVE  PermitInv'
    BY <2>4, PermitFrame, Zenon
    DEF CallTimeout, TransportFails, CloseSocket, KillAndReap, Convert
  <2>5. ASSUME \/ \E c \in Calls : Help(c) \/ ServerExecutes(c) \/ Interrupt(c)
               \/ AdapterDies \/ UNCHANGED vars
        PROVE  PermitInv'
    <3>1. UNCHANGED <<in_flight, pc>>
      BY <2>5, Zenon DEF Help, ServerExecutes, Interrupt, AdapterDies, vars
    <3> QED
      BY <3>1, PermitFrame, Zenon
  <2> QED
    BY <2>1, <2>2, <2>3, <2>4, <2>5, ZenonT(30) DEF Next, Invoke, InvokerStep
<1> QED
  BY <1>1, <1>2, TypesKept, PTL DEF Spec

\* There are never more helper processes than permits: a helper lives and is
\* reaped within the time its call holds one.
THEOREM HelperLimit == Spec => []HelpersBounded
<1>1. CallInv /\ PermitInv => HelpersBounded
  <2> SUFFICES ASSUME CallInv, PermitInv PROVE HelpersBounded
    BY Zenon
  <2> DEFINE Processes == {c \in Calls : helper[c] \in Live \cup {"exited"}}
  <2>1. \A c \in Calls : helper[c] \notin {"none", "reaped"} => HoldsPermit(c)
    BY Zenon DEF CallInv, HelperInv, HoldsPermit, PreCommit, PostCommit, Unwinding
  <2>2. Processes \subseteq PermitHolders
    BY <2>1, Zenon DEF PermitHolders, Live, Starting, Fenced
  <2>3. Cardinality(Processes) <= Cardinality(PermitHolders) /\ Cardinality(Processes) \in Nat
    BY <2>2, HoldersFinite, FS_Subset, FS_CardinalityType, Zenon
  <2>4. Cardinality(Processes) <= MaxInFlight
    BY <2>3, HoldersFinite, MaxInFlightAssumption DEF PermitInv
  <2>5. \A c \in Calls : pc[c] \in BeforePermit \cup {"done"} => ~HoldsPermit(c)
    BY Zenon DEF HoldsPermit, BeforePermit, PreCommit, PostCommit, Unwinding
  <2> QED
    BY <2>1, <2>4, <2>5, Zenon DEF HelpersBounded, PermitInv, PermitHolders
<1> QED
  BY <1>1, CallStructure, PermitStructure, PTL

-----------------------------------------------------------------------------
(* The refinement of NativeOperation.                                      *)

Classes == Outcomes \ {"none", "ok", "uncertain"}

-----------------------------------------------------------------------------
(* The steps of a call, as NativeOperation sees them.                      *)

\* A step that changes no outcome and executes nothing is none of the operation.
LEMMA StutterStep ==
  ASSUME UNCHANGED <<outcome, executed>>
  PROVE  UNCHANGED Abstract!vars
BY Zenon DEF Abstract!vars

\* A call that fails before the commit frame refuses, with a class that denies
\* the execution.
LEMMA RefuseStep ==
  ASSUME NEW c \in Calls, NEW class \in Classes,
         outcome[c] = "none", executed[c] = 0,
         outcome' = [outcome EXCEPT ![c] = class], UNCHANGED executed
  PROVE  Abstract!Next
BY Zenon DEF Abstract!Next, Abstract!Refuse, Classes

\* A call that fails behind the commit frame gives up, as uncertain.
LEMMA GiveUpStep ==
  ASSUME NEW c \in Calls, outcome[c] = "none",
         outcome' = [outcome EXCEPT ![c] = "uncertain"], UNCHANGED executed
  PROVE  Abstract!Next
BY Zenon DEF Abstract!Next, Abstract!GiveUp

\* A call that returns a response succeeds, because the server answered.
LEMMA SucceedStep ==
  ASSUME NEW c \in Calls, outcome[c] = "none", executed[c] = 1,
         outcome' = [outcome EXCEPT ![c] = "ok"], UNCHANGED executed
  PROVE  Abstract!Next
BY Zenon DEF Abstract!Next, Abstract!Succeed

\* The server executes the request of a call once.
LEMMA EffectStep ==
  ASSUME NEW c \in Calls, outcome[c] \in {"none", "uncertain"}, executed[c] = 0,
         executed' = [executed EXCEPT ![c] = @ + 1], UNCHANGED outcome
  PROVE  Abstract!Next
<1>1. executed[c] < [d \in Calls |-> 1][c]
  OBVIOUS
<1>2. Abstract!Effect(c)
  BY <1>1, Zenon DEF Abstract!Effect
<1> QED
  BY <1>2, Zenon DEF Abstract!Next

-----------------------------------------------------------------------------
\* A call that has not sent the whole commit frame refuses, at most.
LEMMA BeforeCommit ==
  ASSUME NEW c \in Calls, CallInv, pc[c] \in BeforePermit \cup PreCommit,
         UNCHANGED executed,
         \/ UNCHANGED outcome
         \/ \E class \in Classes : outcome' = [outcome EXCEPT ![c] = class]
  PROVE  [Abstract!Next]_(Abstract!vars)
<1>1. outcome[c] = "none" /\ executed[c] = 0
  BY Zenon DEF CallInv, InvokerInv, HelperInv, BeforePermit, PreCommit, PostCommit, Unwinding
<1> QED
  BY <1>1, StutterStep, RefuseStep, Zenon

\* Every behaviour of the service call is one of NativeOperation: the server's
\* execution is its one native effect, which a refusal excludes for good and a
\* success presupposes.
THEOREM ServiceImplements == Spec => HonestOperation
<1>1. Init => Abstract!Init
  BY DEF Init, Abstract!Init
<1>2. CallInv /\ [Next]_vars => [Abstract!Next]_(Abstract!vars)
  <2> SUFFICES ASSUME CallInv, [Next]_vars
               PROVE  [Abstract!Next]_(Abstract!vars)
    BY Zenon
  <2>a. \A c \in Calls : ~Allowed(c) => interrupt[c] \in Classes
    BY Zenon DEF CallInv, InvokerInv, Allowed, Classes, Outcomes
  <2>b. {"permanent", "transient", "resource-exhausted"} \subseteq Classes
    BY Zenon DEF Classes, Outcomes
  <2> USE DEF Goto, Leave, Fail, Interrupted, serverVars
  <2>1. ASSUME NEW c \in Calls,
               Begin(c) \/ Decode(c) \/ Acquire(c) \/ StartHelper(c) \/ SendRequest(c)
        PROVE  [Abstract!Next]_(Abstract!vars)
    <3>1. pc[c] \in BeforePermit \cup PreCommit /\ UNCHANGED executed
      BY <2>1, Zenon
         DEF Begin, Decode, Acquire, StartHelper, SendRequest, BeforePermit, PreCommit
    <3>2. \/ UNCHANGED outcome
          \/ \E class \in Classes : outcome' = [outcome EXCEPT ![c] = class]
      BY <2>1, <2>a, <2>b, Zenon DEF Begin, Decode, Acquire, StartHelper, SendRequest
    <3> QED
      BY <3>1, <3>2, BeforeCommit, Zenon
  <2>2. ASSUME NEW c \in Calls, ReadReady(c) \/ CheckCommit(c) \/ SendCommit(c)
        PROVE  [Abstract!Next]_(Abstract!vars)
    <3>1. pc[c] \in BeforePermit \cup PreCommit /\ UNCHANGED executed
      BY <2>2, Zenon DEF ReadReady, CheckCommit, SendCommit, PreCommit
    <3>2. \/ UNCHANGED outcome
          \/ \E class \in Classes : outcome' = [outcome EXCEPT ![c] = class]
      BY <2>2, <2>a, <2>b, Zenon DEF ReadReady, CheckCommit, SendCommit
    <3> QED
      BY <3>1, <3>2, BeforeCommit, Zenon
  <2>3. ASSUME NEW c \in Calls,
               ReadResponse(c) \/ ReadPayload(c) \/ CallTimeout(c)
        PROVE  [Abstract!Next]_(Abstract!vars)
    <3>1. pc[c] \in PostCommit /\ UNCHANGED executed
      BY <2>3, Zenon DEF ReadResponse, ReadPayload, CallTimeout, PostCommit
    <3>2. outcome[c] = "none"
      BY <3>1, Zenon DEF CallInv, InvokerInv
    <3>3. UNCHANGED outcome \/ outcome' = [outcome EXCEPT ![c] = "uncertain"]
      BY <2>3, Zenon DEF ReadResponse, ReadPayload, CallTimeout
    <3> QED
      BY <3>1, <3>2, <3>3, StutterStep, GiveUpStep, Zenon
  <2>4. ASSUME NEW c \in Calls, TransportFails(c)
        PROVE  [Abstract!Next]_(Abstract!vars)
    <3>1. CASE pc[c] \in PostCommit /\ outcome' = [outcome EXCEPT ![c] = "uncertain"]
      <4>1. outcome[c] = "none"
        BY <3>1, Zenon DEF CallInv, InvokerInv
      <4> QED
        BY <2>4, <3>1, <4>1, GiveUpStep, Zenon DEF TransportFails
    <3>2. CASE /\ pc[c] \in {"send", "ready", "send-commit"}
               /\ outcome' = [outcome EXCEPT ![c] = "transient"]
      BY <2>4, <2>b, <3>2, BeforeCommit, Zenon DEF TransportFails, PreCommit
    <3> QED
      BY <2>4, <3>1, <3>2, Zenon DEF TransportFails
  <2>5. ASSUME NEW c \in Calls, Convert(c) PROVE Abstract!Next
    <3>1. outcome[c] = "none" /\ UNCHANGED executed
      BY <2>5, Zenon DEF Convert, CallInv, InvokerInv
    <3>2. to_parent[c] \in {"completed", "empty"} => executed[c] = 1
      BY Zenon DEF CallInv, HelperInv, Answers, ResponseFrames
    <3> QED
      BY <2>5, <3>1, <3>2, GiveUpStep, SucceedStep, Zenon DEF Convert
  <2>6. ASSUME NEW c \in Calls, ServerExecutes(c) PROVE Abstract!Next
    <3>1. outcome[c] \in {"none", "uncertain"} /\ executed[c] = 0
      BY <2>6, Zenon DEF ServerExecutes, CallInv, InvokerInv, HelperInv, Answers, ResponseFrames
    <3> QED
      BY <2>6, <3>1, EffectStep, Zenon DEF ServerExecutes, invokerVars
  <2>7. ASSUME \/ \E c \in Calls : CloseSocket(c) \/ KillAndReap(c) \/ ReleasePermit(c)
               \/ \E c \in Calls : Help(c) \/ Interrupt(c)
               \/ AdapterDies \/ UNCHANGED vars
        PROVE  UNCHANGED Abstract!vars
    <3>1. UNCHANGED <<outcome, executed>>
      BY <2>7, Zenon DEF CloseSocket, KillAndReap, ReleasePermit, Help, HelperStep, HelperDies,
         CheckParent, ArmDeathSignal, RecheckParent, ReadRequest, ReplyReady, ReadCommit,
         CallServer, CallFails, CallReturns, WritePayload, Interrupt, AdapterDies,
         vars, invokerVars
    <3> QED
      BY <3>1, StutterStep, Zenon
  <2> QED
    BY <2>1, <2>2, <2>3, <2>4, <2>5, <2>6, <2>7, ZenonT(30) DEF Next, Invoke, InvokerStep
<1> QED
  BY <1>1, <1>2, CallStructure, PTL DEF Spec, HonestOperation, Abstract!Spec

-----------------------------------------------------------------------------
(* The archive.                                                            *)

\* The directory and its image on disk are functions on the names.
Shaped ==
  /\ dir = [n \in Names |-> dir[n]]
  /\ disk = [dir |-> disk.dir, manifest |-> disk.manifest]
  /\ disk.dir = [n \in Names |-> disk.dir[n]]
  /\ wrote \in 0 .. MaxVolumes
  /\ inventoried \in 0 .. MaxVolumes

\* Every closed volume has a name that the next power loss cannot take: one
\* that is the same in the directory and on disk.
Durable ==
  \A i \in 0 .. wrote - 1 :
    \E n \in Names \ {Active} : dir[n] = Bag(i) /\ disk.dir[n] = Bag(i)

\* A native name holds its own volume or none.
NativeOwn ==
  \A i, j \in Indexes :
    dir[Native(i)] = Bag(j) \/ disk.dir[Native(i)] = Bag(j) => i = j

\* Between link and unlink a volume under the old name has the new one too,
\* and that is on disk before the old one goes.
Linked ==
  stage \in {"sync-link", "unlink"} /\ Source \in Names /\ dir[Source] \in Bags =>
    /\ dir[Destination] = dir[Source]
    /\ stage = "unlink" => disk.dir[Destination] = dir[Source]

LossInv == Shaped /\ Durable /\ NativeOwn /\ Linked

\* Names of different kinds differ.
LEMMA NamesDiffer ==
  /\ \A i \in Indexes : Native(i) \in Names /\ Part(i) \in Names /\ Native(i) # Active
  /\ Single \in Names /\ Active \in Names
  /\ \A i, j : Native(i) = Native(j) => i = j
  /\ \A i, j : Native(i) # Part(j) /\ Native(i) # Single /\ Part(j) # Active
  /\ Single # Active
BY Zenon DEF Names, NativeNames, ReadableNames, Native, Part, Single, Active

\* The two names of the segment at hand differ, and os.link gives it no native
\* name and not that of the file being recorded.
LEMMA TwoNames ==
  /\ \A i : Source # Part(i) /\ Source # Single /\ Destination # Native(i)
  /\ Source # Destination
  /\ Source \in Names => Destination \in Names \ {Active}
<1>1. Source \in Names => Segment.index \in Indexes
  BY Zenon DEF Source, Names, NativeNames, ReadableNames, Native, Part, Single, Active
<1> QED
  BY <1>1, NamesDiffer, Zenon DEF Source, Destination, IssuedName

\* A closed volume is a file of its own: not the partial one, nobody else's, and
\* not another volume.
LEMMA InodesDiffer ==
  /\ \A i : Bag(i) # None /\ Bag(i) # Partial /\ Bag(i) \notin Foreign
  /\ \A i, j : Bag(i) = Bag(j) => i = j
BY ForeignAssumption, Zenon DEF Bag, None, Partial

\* A step that leaves the directories and the closed volumes alone.
LEMMA LossFrame ==
  ASSUME LossInv, UNCHANGED <<dir, disk, wrote>>, inventoried' \in {inventoried, wrote},
         stage' \notin {"sync-link", "unlink"}
  PROVE  LossInv'
BY Zenon DEF LossInv, Shaped, Durable, NativeOwn, Linked

\* The directory gets an entry that does not replace a durable one.
LEMMA NewEntry ==
  ASSUME LossInv, NEW n, NEW file, UNCHANGED <<disk, wrote, inventoried>>,
         dir' = [dir EXCEPT ![n] = file],
         n = Active \/ dir[n] \in {None, file},
         \A i \in Indexes : n = Native(i) => file \notin Bags
  PROVE  Shaped' /\ Durable' /\ NativeOwn'
<1> USE NamesDiffer, InodesDiffer DEF LossInv
<1>1. Shaped'
  BY Zenon DEF Shaped
<1>2. Durable'
  BY Zenon DEF Durable, Shaped
<1>3. NativeOwn'
  BY Zenon DEF NativeOwn, Shaped, Bags
<1> QED
  BY <1>1, <1>2, <1>3, Zenon

-----------------------------------------------------------------------------
(* The manifest.                                                           *)

\* The segments of the volumes closed before the inventory.
Volumes == {[index |-> i, inode |-> Bag(i)] : i \in 0 .. inventoried - 1}

\* What a manifest says is right: it lists nothing, or these volumes of a
\* recording that its wrapper has ended.
Sound(m) ==
  /\ m = [status |-> m.status, state |-> m.state, pinned |-> m.pinned,
          segments |-> m.segments, files |-> m.files]
  /\ m.pinned \in BOOLEAN
  /\ m.pinned => m.status = "ended" /\ m.segments = Volumes
  /\ ~m.pinned => m.segments = {}
  /\ m.state = "finalized" => m.pinned /\ m.files = Issued(Volumes)

Running == stage \notin {"dead", "done"}
Moving == {"sync-link", "unlink", "sync-unlink", "verify"}
Loop == Moving \cup {"segment"}

\* An inventory on disk is in the manifest, and one in the manifest is known to
\* the process; it is on disk before the loop begins.  A finalized manifest is
\* the last thing a process writes.
ManifestInv ==
  /\ Sound(manifest_file) /\ Sound(disk.manifest) /\ (Running => Sound(archive))
  /\ disk.manifest.pinned => manifest_file.pinned
  /\ Running /\ manifest_file.pinned => archive.pinned
  /\ stage = "recording" => archive.status = "recording"
  /\ Running /\ stage # "recording" => archive.status = "ended"
  /\ stage = "sync-pin" => manifest_file.pinned /\ left = Volumes
  /\ stage \in Loop \cup {"sync-final"} => disk.manifest.pinned
  /\ stage \in Loop => left \subseteq Volumes
  /\ stage \in Moving => left # {}
  /\ Running /\ stage # "sync-final" =>
       archive.state # "finalized" /\ manifest_file.state # "finalized"
  /\ disk.manifest.state = "finalized" => manifest_file = disk.manifest /\ ~Running

\* An inventory has been made, and a process or a restart knows it.
InventoryMade == manifest_file.pinned \/ (Running /\ archive.pinned)

\* The native recorder runs on behind the end of the recording, and closes
\* volumes behind the inventory, only if the loop had left it behind.
NativeInv ==
  /\ inventoried <= wrote
  /\ ~orphaned =>
       /\ Running /\ stage # "recording" => ~native_runs
       /\ manifest_file.status = "ended" => ~native_runs
       /\ InventoryMade => inventoried = wrote

\* Before the inventory is on disk every volume has its native name and no
\* other; behind that it may have its issued name, and one that was closed
\* behind the inventory has none.  The name of the next volume is free.
OwnNames(d) ==
  /\ d[Active] \in {None, Partial}
  /\ \A i \in Indexes :
       /\ i < wrote /\ (disk.manifest.pinned => inventoried <= i) => d[Native(i)] = Bag(i)
       /\ ~(i < wrote) /\ (disk.manifest.pinned => native_runs) => d[Native(i)] = None
  /\ \A n \in ReadableNames : d[n] \in Bags =>
       /\ disk.manifest.pinned
       /\ \E i \in 0 .. inventoried - 1 : d[n] = Bag(i) /\ n = IssuedName(i, inventoried)

\* The volume has its issued name for good.
Settled(s) ==
  /\ dir[IssuedName(s.index, inventoried)] = s.inode
  /\ disk.dir[IssuedName(s.index, inventoried)] = s.inode

DirectoryInv ==
  /\ OwnNames(dir) /\ OwnNames(disk.dir)
  /\ stage \in {"sync-link", "unlink"} => dir[Source] = Segment.inode
  /\ stage \in {"sync-unlink", "verify"} => dir[Source] \notin Bags
  /\ stage \in Loop => \A s \in Volumes \ left : Settled(s)
  /\ manifest_file.state = "finalized" => \A s \in Volumes : Settled(s)

\* A set of naturals has a smallest member: the next segment of the loop exists.
LEMMA Smallest ==
  ASSUME NEW S, S \subseteq Nat, S # {} PROVE \E m \in S : \A n \in S : m <= n
<1>1. PICK m \in S : \A n \in S : <<n, m>> \notin OpToRel(<, Nat)
  BY NatLessThanWellFounded, WFMin, Zenon
<1>2. \A n \in S : ~(n < m)
  BY <1>1, Zenon DEF OpToRel
<1> QED
  BY <1>2

\* The loop takes a volume that is left.
LEMMA SegmentChosen ==
  ASSUME inventoried \in Nat, left \subseteq Volumes, left # {}
  PROVE  Segment \in left
<1> DEFINE S == {s.index : s \in left}
<1>1. S \subseteq Nat /\ S # {}
  BY DEF Volumes
<1>2. PICK m \in S : \A n \in S : m <= n
  BY <1>1, Smallest, Zenon
<1>3. \E s \in left : \A t \in left : s.index <= t.index
  BY <1>2, Zenon
<1> QED
  BY <1>3, Zenon DEF Segment

\* As many segments, and as many issued names, as volumes in the inventory.
LEMMA VolumeCount ==
  ASSUME inventoried \in Nat
  PROVE  Cardinality(Volumes) = inventoried
<1>1. IsFiniteSet(0 .. inventoried - 1) /\ Cardinality(0 .. inventoried - 1) = inventoried
  BY FS_Interval
<1> DEFINE f == [i \in 0 .. inventoried - 1 |-> [index |-> i, inode |-> Bag(i)]]
<1>2. f \in Bijection(0 .. inventoried - 1, Volumes)
  <2>1. f \in Injection(0 .. inventoried - 1, Volumes)
    BY Zenon DEF Injection, IsInjective, Volumes
  <2>2. f \in Surjection(0 .. inventoried - 1, Volumes)
    BY Zenon DEF Surjection, Volumes
  <2> QED
    BY <2>1, <2>2, Zenon DEF Bijection
<1> QED
  BY <1>1, <1>2, FS_Bijection DEF ExistsBijection

\* issued_bag_name gives different volumes different names.
LEMMA IssuedCount ==
  ASSUME inventoried \in Nat
  PROVE  Cardinality(Issued(Volumes)) = inventoried
<1>1. IsFiniteSet(0 .. inventoried - 1) /\ Cardinality(0 .. inventoried - 1) = inventoried
  BY FS_Interval
<1> DEFINE f == [i \in 0 .. inventoried - 1 |-> IssuedName(i, inventoried)]
<1>2. Issued(Volumes) = {IssuedName(i, inventoried) : i \in 0 .. inventoried - 1}
  <2>1. Issued(Volumes) = {IssuedName(s.index, inventoried) : s \in Volumes}
    BY VolumeCount, Zenon DEF Issued
  <2>2. \A s \in Volumes : s.index \in 0 .. inventoried - 1
    BY DEF Volumes
  <2>3. ASSUME NEW i \in 0 .. inventoried - 1 PROVE \E s \in Volumes : s.index = i
    <3>1. [index |-> i, inode |-> Bag(i)] \in Volumes
      BY Zenon DEF Volumes
    <3> QED
      BY <3>1, Zenon
  <2> QED
    BY <2>1, <2>2, <2>3, Zenon
<1>3. f \in Bijection(0 .. inventoried - 1, Issued(Volumes))
  <2>1. \A i, j \in 0 .. inventoried - 1 : f[i] = f[j] => i = j
    BY Zenon DEF IssuedName, Part, Single
  <2>2. f \in Injection(0 .. inventoried - 1, Issued(Volumes))
    BY <1>2, <2>1, Zenon DEF Injection, IsInjective
  <2>3. f \in Surjection(0 .. inventoried - 1, Issued(Volumes))
    BY <1>2, Zenon DEF Surjection
  <2> QED
    BY <2>2, <2>3, Zenon DEF Bijection
<1> QED
  BY <1>1, <1>3, FS_Bijection DEF ExistsBijection

\* The inventory, as long as none is on disk, is the closed volumes.
LEMMA InventoryComplete ==
  ASSUME LossInv, DirectoryInv, ~disk.manifest.pinned
  PROVE  Inventory = {[index |-> i, inode |-> Bag(i)] : i \in 0 .. wrote - 1}
<1>1. wrote \in Nat /\ wrote <= MaxVolumes
  BY MaxVolumesAssumption DEF LossInv, Shaped
<1>2. \A i \in Indexes : dir[Native(i)] = IF i < wrote THEN Bag(i) ELSE None
  BY Zenon DEF DirectoryInv, OwnNames
<1>3. {j \in Indexes : dir[Native(j)] # None} = 0 .. wrote - 1
  BY <1>1, <1>2, InodesDiffer, MaxVolumesAssumption DEF Indexes
<1>4. \A i \in 0 .. wrote - 1 : dir[Native(i)] = Bag(i)
  BY <1>1, <1>2, MaxVolumesAssumption DEF Indexes
<1> QED
  BY <1>3, <1>4, Zenon DEF Inventory

\* Until the wrapper has left its loop there is no inventory anywhere.
LEMMA NotPinnedYet ==
  ASSUME ManifestInv, stage = "recording" \/ (stage = "dead" /\ manifest_file.status # "ended")
  PROVE  ~disk.manifest.pinned /\ ~manifest_file.pinned /\ (Running => ~archive.pinned)
BY Zenon DEF ManifestInv, Sound, Running

\* Every step keeps what is known of the manifest, in memory and on disk.
LEMMA ManifestStep ==
  ASSUME LossInv, ManifestInv, DirectoryInv, [ArchiveNext]_archive_vars PROVE ManifestInv'
<1> USE DEF Running, Moving, Loop
<1>0. UNCHANGED inventoried => Volumes' = Volumes /\ Issued(Volumes)' = Issued(Volumes)
  BY Zenon DEF Volumes, Issued
<1>1. CASE Launch
  <2>1. ~disk.manifest.pinned /\ ~manifest_file.pinned
    BY <1>1, NotPinnedYet, Zenon DEF Launch
  <2>2. /\ manifest_file' = [status |-> "recording", state |-> "none", pinned |-> FALSE,
                        segments |-> {}, files |-> {}]
        /\ archive' = manifest_file' /\ disk'.manifest = manifest_file' /\ stage' = "recording"
    BY <1>1, Zenon DEF Launch, NoManifest
  <2> QED
    BY <2>2 DEF ManifestInv, Sound
<1>2. CASE CloseVolume
  <2>1. UNCHANGED <<manifest_file, stage, archive, left, inventoried>>
        /\ disk'.manifest = disk.manifest
    BY <1>2, Zenon DEF CloseVolume, LossInv, Shaped
  <2> QED
    BY <1>0, <2>1, ZenonT(30) DEF ManifestInv, Sound
<1>3. CASE RecordingEnds \/ RecordingFails
  <2>1. ~disk.manifest.pinned /\ ~manifest_file.pinned /\ ~archive.pinned
    BY <1>3, NotPinnedYet, Zenon DEF RecordingEnds, RecordingFails, EndRecording
  <2>2. /\ UNCHANGED <<manifest_file, disk, inventoried>>
        /\ stage = "recording" /\ stage' = "begin"
        /\ archive' = [archive EXCEPT !.status = "ended"]
    BY <1>3, Zenon DEF RecordingEnds, RecordingFails, EndRecording
  <2> QED
    BY <1>0, <2>1, <2>2, Zenon DEF ManifestInv, Sound
<1>4. CASE Resume
  BY <1>0, <1>4, Zenon DEF Resume, ManifestInv, Sound
<1>5. CASE BeginFinalization
  <2>1. /\ manifest_file' = [archive EXCEPT !.state = "pending", !.files = {}]
        /\ archive' = manifest_file' /\ UNCHANGED <<disk, inventoried>>
        /\ stage = "begin" /\ stage' = "sync-begin"
    BY <1>5, Zenon DEF BeginFinalization, WriteManifest
  <2> QED
    BY <1>0, <2>1, Zenon DEF ManifestInv, Sound
<1>6. CASE Pin
  <2>1. /\ archive' = manifest_file' /\ UNCHANGED disk /\ left' = manifest_file'.segments
        /\ stage = "pin" /\ stage' = "sync-pin"
    BY <1>6, Zenon DEF Pin, WriteManifest
  <2>2. CASE archive.pinned
    <3>1. manifest_file' = archive /\ UNCHANGED inventoried
      BY <1>6, <2>2, Zenon DEF Pin, WriteManifest
    <3> QED
      BY <1>0, <2>1, <2>2, <3>1, Zenon DEF ManifestInv, Sound
  <2>3. CASE ~archive.pinned
    <3>1. /\ manifest_file' = [archive EXCEPT !.pinned = TRUE, !.segments = Inventory]
          /\ inventoried' = wrote /\ ~disk.manifest.pinned
      BY <1>6, <2>1, <2>3, Zenon DEF Pin, WriteManifest, ManifestInv
    <3>2. Inventory = Volumes'
      BY <3>1, InventoryComplete, Zenon DEF Volumes
    <3> QED
      BY <2>1, <3>1, <3>2, Zenon DEF ManifestInv, Sound
  <2> QED
    BY <2>2, <2>3, Zenon
<1>7. CASE Sync
  <2>1. /\ UNCHANGED <<manifest_file, archive, left, inventoried>> /\ disk'.manifest = manifest_file
        /\ \/ stage = "sync-begin" /\ stage' = "pin"
           \/ stage = "sync-pin" /\ stage' = "segment"
           \/ stage = "sync-link" /\ stage' = "unlink"
           \/ stage = "sync-unlink" /\ stage' = "verify"
           \/ stage = "sync-final" /\ stage' = "done"
           \/ stage = "sync-failed" /\ stage' = "dead"
    BY <1>7, Zenon DEF Sync
  <2> QED
    BY <1>0, <2>1, Zenon DEF ManifestInv, Sound
<1>8. CASE Link \/ Unlink \/ Intrude \/ NativeExits
  BY <1>0, <1>8, ZenonT(30) DEF Link, Unlink, Intrude, NativeExits, ManifestInv, Sound
<1>9. CASE LinkRefused \/ NoSource \/ Verify
  BY <1>0, <1>9, Zenon DEF LinkRefused, NoSource, Verify, ContinueAt, ManifestInv, Sound
<1>10. CASE Close
  <2>1. /\ UNCHANGED <<disk, inventoried, left>> /\ stage = "segment"
        /\ \/ UNCHANGED <<manifest_file, archive>> /\ stage' = "fail"
           \/ /\ manifest_file' = [archive EXCEPT !.state = "finalized",
                                             !.files = Issued(archive.segments)]
              /\ archive' = manifest_file' /\ stage' = "sync-final"
    BY <1>10, Zenon DEF Close, ContinueAt, WriteManifest
  <2> QED
    BY <1>0, <2>1, ZenonT(30) DEF ManifestInv, Sound
<1>11. CASE FinalizationFails
  BY <1>0, <1>11, Zenon DEF FinalizationFails, WriteManifest, ManifestInv, Sound
<1>12. CASE IoError \/ Crash
  BY <1>0, <1>12, Zenon DEF IoError, Crash, Fault, ManifestInv, Sound
<1>13. CASE PowerLoss
  <2>1. /\ UNCHANGED inventoried /\ manifest_file' \in {manifest_file, disk.manifest}
        /\ disk'.manifest = manifest_file' /\ stage' \in {"dead", "done"}
    BY <1>13, Zenon DEF PowerLoss
  <2> QED
    BY <1>0, <2>1, Zenon DEF ManifestInv, Sound
<1>14. CASE UNCHANGED archive_vars
  BY <1>0, <1>14, ZenonT(30) DEF archive_vars, ManifestInv, Sound
<1> QED
  BY <1>1, <1>2, <1>3, <1>4, <1>5, <1>6, <1>7, <1>8, <1>9, <1>10, <1>11, <1>12,
     <1>13, <1>14, Zenon
  DEF ArchiveNext, Finalize

\* An issued name is a readable one, which no native name is.
LEMMA IssuedNames ==
  ASSUME inventoried \in 0 .. MaxVolumes
  PROVE  /\ \A k \in 0 .. inventoried - 1 :
              k \in Indexes /\ IssuedName(k, inventoried) \in ReadableNames
         /\ ReadableNames \subseteq Names \ {Active}
         /\ \A i : Native(i) \notin ReadableNames
<1>1. \A k \in 0 .. inventoried - 1 : k \in Indexes
  BY MaxVolumesAssumption DEF Indexes
<1>2. \A k \in Indexes : IssuedName(k, inventoried) \in ReadableNames
  BY Zenon DEF IssuedName, ReadableNames
<1>3. ReadableNames \subseteq Names \ {Active} /\ \A i : Native(i) \notin ReadableNames
  BY NamesDiffer, Zenon DEF ReadableNames, Names
<1> QED
  BY <1>1, <1>2, <1>3, Zenon

\* The segment at hand is a volume of the inventory, and its names are what they should
\* be.
LEMMA AtHand ==
  ASSUME LossInv, ManifestInv, stage \in Loop, left # {}
  PROVE  /\ Segment \in left
         /\ \E k \in 0 .. inventoried - 1 :
              /\ Segment.index = k /\ Segment.inode = Bag(k)
              /\ Source = Native(k) /\ Destination = IssuedName(k, inventoried)
<1>1. inventoried \in Nat
  BY DEF LossInv, Shaped
<1>2. left \subseteq Volumes /\ archive.segments = Volumes
  BY Zenon DEF ManifestInv, Loop, Moving, Running, Sound
<1>3. Segment \in left
  BY <1>1, <1>2, SegmentChosen, Zenon
<1>4. PICK k \in 0 .. inventoried - 1 : Segment = [index |-> k, inode |-> Bag(k)]
  BY <1>2, <1>3, Zenon DEF Volumes
<1>5. Cardinality(archive.segments) = inventoried
  BY <1>1, <1>2, VolumeCount, Zenon
<1> QED
  BY <1>3, <1>4, <1>5, Zenon DEF Source, Destination

\* A volume that is not under its native name is settled.
LEMMA GoneIsSettled ==
  ASSUME LossInv, NativeInv, DirectoryInv, NEW k \in 0 .. inventoried - 1, dir[Native(k)] # Bag(k)
  PROVE  /\ dir[IssuedName(k, inventoried)] = Bag(k)
         /\ disk.dir[IssuedName(k, inventoried)] = Bag(k)
<1>0. k \in 0 .. wrote - 1
  BY DEF LossInv, Shaped, NativeInv
<1>1. PICK n \in Names \ {Active} : dir[n] = Bag(k) /\ disk.dir[n] = Bag(k)
  BY <1>0, Zenon DEF LossInv, Durable
<1>2. k \in Indexes /\ Bag(k) \in Bags
  BY IssuedNames, Zenon DEF LossInv, Shaped, Bags
<1>3. n \notin NativeNames
  BY <1>1, <1>2, Zenon DEF LossInv, NativeOwn, NativeNames
<1>4. n \in ReadableNames
  BY <1>3, Zenon DEF Names
<1>5. PICK i \in 0 .. inventoried - 1 : dir[n] = Bag(i) /\ n = IssuedName(i, inventoried)
  BY <1>1, <1>2, <1>4, Zenon DEF DirectoryInv, OwnNames
<1> QED
  BY <1>1, <1>5, InodesDiffer, Zenon

\* A step that leaves the directories and the closed volumes alone.
LEMMA DirectoryFrame ==
  ASSUME DirectoryInv, ManifestInv, UNCHANGED <<dir, disk, wrote, inventoried, native_runs>>,
         stage' \notin Moving,
         stage' = "segment" => \A s \in Volumes \ left' : Settled(s),
         manifest_file'.state = "finalized" => \A s \in Volumes : Settled(s)
  PROVE  DirectoryInv'
<1>1. OwnNames(dir)' /\ OwnNames(disk.dir)'
  BY Zenon DEF DirectoryInv, OwnNames
<1>2. Volumes' = Volumes /\ \A s : Settled(s)' <=> Settled(s)
  BY Zenon DEF Volumes, Settled
<1> QED
  BY <1>1, <1>2, Zenon DEF DirectoryInv, Loop, Moving

\* Every step keeps what is known of the directory, now and on disk.
LEMMA DirectoryStep ==
  ASSUME LossInv, ManifestInv, NativeInv, DirectoryInv, [ArchiveNext]_archive_vars
  PROVE  DirectoryInv'
<1> USE DEF Running, Moving, Loop
<1>0. UNCHANGED inventoried => Volumes' = Volumes
  BY Zenon DEF Volumes
<1>a. inventoried \in 0 .. MaxVolumes /\ wrote \in 0 .. MaxVolumes
  BY Zenon DEF LossInv, Shaped
<1>b. UNCHANGED <<left, archive>> => UNCHANGED <<Segment, Source, Destination>>
  BY Zenon DEF Segment, Source, Destination
<1>1. CASE Launch
  <2>1. ~disk.manifest.pinned
    BY <1>1, NotPinnedYet, Zenon DEF Launch
  <2>2. /\ dir = EmptyDir /\ dir' = [dir EXCEPT ![Active] = Partial] /\ disk'.dir = dir
        /\ manifest_file'.state = "none" /\ stage' = "recording" /\ UNCHANGED wrote
        /\ disk'.manifest.pinned = FALSE
    BY <1>1, Zenon DEF Launch, NoManifest
  <2>3. \A i \in Indexes : ~(i < wrote)
    BY <2>1, <2>2, NamesDiffer, InodesDiffer, ZenonT(30) DEF DirectoryInv, OwnNames, EmptyDir
  <2>4. None \notin Bags /\ \A n \in ReadableNames : n # Active /\ n \in Names
    BY <1>a, IssuedNames, InodesDiffer, Zenon DEF Bags
  <2>5. OwnNames(dir)' /\ OwnNames(disk.dir)'
    BY <2>2, <2>3, <2>4, NamesDiffer, Zenon DEF OwnNames, EmptyDir
  <2> QED
    BY <2>2, <2>5, Zenon DEF DirectoryInv
<1>2. CASE CloseVolume
  <2>1. /\ dir' = [dir EXCEPT ![Native(wrote)] = Bag(wrote)]
        /\ disk'.dir = [disk.dir EXCEPT ![Native(wrote)] = Bag(wrote)]
        /\ disk'.manifest = disk.manifest
        /\ UNCHANGED <<manifest_file, stage, archive, left, inventoried, native_runs>>
        /\ wrote' = wrote + 1
    BY <1>2, Zenon DEF CloseVolume, LossInv, Shaped
  <2>2. wrote \in Indexes
    BY <1>2, <1>a, MaxVolumesAssumption DEF CloseVolume, Indexes
  <2>3. \A n \in ReadableNames : n # Native(wrote) /\ n \in Names
    BY <1>a, IssuedNames, Zenon
  <2>4. ASSUME NEW i \in Indexes
        PROVE  i < wrote + 1 <=> i < wrote \/ i = wrote
    BY <1>a, MaxVolumesAssumption DEF Indexes
  <2> DEFINE Fits(e) ==
        /\ e[Active] \in {None, Partial}
        /\ \A i \in Indexes :
             /\ i < wrote + 1 /\ (disk.manifest.pinned => inventoried <= i) =>
                  e[Native(i)] = Bag(i)
             /\ ~(i < wrote + 1) /\ (disk.manifest.pinned => native_runs) =>
                  e[Native(i)] = None
  <2>5. ASSUME NEW d, d = [n \in Names |-> d[n]], OwnNames(d), NEW e,
               e = [d EXCEPT ![Native(wrote)] = Bag(wrote)]
        PROVE  Fits(e) /\ \A n \in ReadableNames : e[n] = d[n]
    <3>1. e[Active] \in {None, Partial}
      BY <2>2, <2>5, NamesDiffer, Zenon DEF OwnNames
    <3>2. ASSUME NEW i \in Indexes
          PROVE  /\ i < wrote + 1 /\ (disk.manifest.pinned => inventoried <= i) =>
                      e[Native(i)] = Bag(i)
                 /\ ~(i < wrote + 1) /\ (disk.manifest.pinned => native_runs) =>
                      e[Native(i)] = None
      <4>1. CASE i = wrote
        BY <2>2, <2>4, <2>5, <4>1, NamesDiffer, Zenon
      <4>2. CASE i # wrote
        <5>1. e[Native(i)] = d[Native(i)]
          BY <2>5, <4>2, NamesDiffer, Zenon
        <5> QED
          BY <2>4, <2>5, <4>2, <5>1, Zenon DEF OwnNames
      <4> QED
        BY <4>1, <4>2, Zenon
    <3>3. \A n \in ReadableNames : e[n] = d[n]
      BY <2>3, <2>5, Zenon
    <3> QED
      BY <3>1, <3>2, <3>3, Zenon
  <2>6. OwnNames(dir)' /\ (\A n \in ReadableNames : dir'[n] = dir[n])
    <3>1. dir = [n \in Names |-> dir[n]] /\ OwnNames(dir)
      BY Zenon DEF DirectoryInv, LossInv, Shaped
    <3>2. Fits(dir') /\ \A n \in ReadableNames : dir'[n] = dir[n]
      <4> HIDE DEF Fits
      <4>1. dir' = [dir EXCEPT ![Native(wrote)] = Bag(wrote)]
        BY <2>1, Zenon
      <4> QED
        BY <2>5, <3>1, <4>1, Zenon
    <3> QED
      BY <2>1, <3>1, <3>2 DEF OwnNames
  <2>7. OwnNames(disk.dir)' /\ (\A n \in ReadableNames : disk'.dir[n] = disk.dir[n])
    <3>1. disk.dir = [n \in Names |-> disk.dir[n]] /\ OwnNames(disk.dir)
      BY Zenon DEF DirectoryInv, LossInv, Shaped
    <3>2. Fits(disk'.dir) /\ \A n \in ReadableNames : disk'.dir[n] = disk.dir[n]
      <4> HIDE DEF Fits
      <4>1. PICK d, e : d = disk.dir /\ e = disk'.dir
        BY Zenon
      <4>2. d = [n \in Names |-> d[n]] /\ OwnNames(d)
        BY <3>1, <4>1, Zenon
      <4>3. e = [d EXCEPT ![Native(wrote)] = Bag(wrote)]
        BY <2>1, <4>1, Zenon
      <4>4. Fits(e) /\ \A n \in ReadableNames : e[n] = d[n]
        BY <2>5, <4>2, <4>3, Zenon
      <4> QED
        BY <4>1, <4>4, Zenon
    <3> QED
      BY <2>1, <3>1, <3>2 DEF OwnNames
  <2>8. stage \in Moving => dir'[Source] = dir[Source]
    <3> SUFFICES ASSUME stage \in Moving PROVE dir'[Source] = dir[Source]
      BY Zenon
    <3>1. PICK k \in 0 .. inventoried - 1 : Source = Native(k)
      BY AtHand, Zenon DEF ManifestInv
    <3>2. inventoried <= wrote
      BY Zenon DEF NativeInv
    <3>3. k # wrote
      BY <1>a, <3>1, <3>2
    <3> QED
      <4>1. Source \in Names /\ Source # Native(wrote)
        BY <1>a, <3>1, <3>3, IssuedNames, NamesDiffer, Zenon
      <4>2. dir = [n \in Names |-> dir[n]] /\ dir' = [dir EXCEPT ![Native(wrote)] = Bag(wrote)]
        BY <2>1, Zenon DEF LossInv, Shaped
      <4> QED
        BY <4>1, <4>2, Zenon
  <2>9. ASSUME NEW s \in Volumes, Settled(s) PROVE Settled(s)'
    <3>1. IssuedName(s.index, inventoried) \in ReadableNames
      BY <1>a, IssuedNames DEF Volumes
    <3> QED
      BY <2>1, <2>6, <2>7, <2>9, <3>1, Zenon DEF Settled
  <2> QED
    BY <1>0, <1>b, <2>1, <2>6, <2>7, <2>8, <2>9, Zenon DEF DirectoryInv
<1>3. CASE NativeExits
  <2>1. PICK rest \in {None, Partial} : dir' = [dir EXCEPT ![Active] = rest]
    BY <1>3, Zenon DEF NativeExits
  <2>2. UNCHANGED <<disk, wrote, inventoried, manifest_file, stage, left, archive>>
        /\ native_runs
    BY <1>3, Zenon DEF NativeExits
  <2>3. \A n \in ReadableNames : n # Active /\ n \in Names
    BY <1>a, IssuedNames, Zenon
  <2>4. Active \in Names /\ Source # Active
    BY NamesDiffer, Zenon DEF Source, Native, Active
  <2>5. \A n : n # Active => dir'[n] = dir[n]
    BY <2>1 DEF LossInv, Shaped
  <2>6. OwnNames(dir)' /\ OwnNames(disk.dir)'
    BY <2>1, <2>2, <2>3, <2>4, <2>5, NamesDiffer, Zenon
    DEF OwnNames, DirectoryInv, LossInv, Shaped
  <2>7. ASSUME NEW s \in Volumes, Settled(s) PROVE Settled(s)'
    <3>1. IssuedName(s.index, inventoried) # Active
      BY <2>3, NamesDiffer, Zenon DEF IssuedName
    <3> QED
      BY <2>2, <2>5, <2>7, <3>1, Zenon DEF Settled
  <2> QED
    BY <1>0, <1>b, <2>2, <2>4, <2>5, <2>6, <2>7, Zenon DEF DirectoryInv
<1>4. CASE RecordingEnds \/ RecordingFails \/ Resume \/ BeginFinalization \/ FinalizationFails
  <2>1. manifest_file'.state # "finalized"
    BY <1>4, Zenon
       DEF RecordingEnds, RecordingFails, EndRecording, Resume, BeginFinalization,
           FinalizationFails, WriteManifest, ManifestInv, Sound
  <2>2. UNCHANGED <<dir, disk, wrote, inventoried, native_runs>> /\ stage' \notin Loop
    BY <1>4, Zenon
       DEF RecordingEnds, RecordingFails, EndRecording, Resume, BeginFinalization,
           FinalizationFails, WriteManifest, native_vars
  <2> QED
    BY <2>1, <2>2, DirectoryFrame, Zenon
<1>p. CASE Pin
  <2>1. manifest_file'.state # "finalized"
    BY <1>p, Zenon DEF Pin, WriteManifest, ManifestInv, Sound
  <2>2. UNCHANGED <<dir, disk, wrote, native_runs>> /\ stage' = "sync-pin"
    BY <1>p, Zenon DEF Pin, WriteManifest, native_vars
  <2>3. OwnNames(dir)' /\ OwnNames(disk.dir)'
    <3>1. CASE archive.pinned
      BY <1>p, <2>2, <3>1, Zenon DEF Pin, DirectoryInv, OwnNames
    <3>2. CASE ~archive.pinned
      <4>1. ~disk.manifest.pinned
        BY <1>p, <3>2, Zenon DEF Pin, ManifestInv
      <4> QED
        BY <2>2, <4>1, Zenon DEF DirectoryInv, OwnNames
    <3> QED
      BY <3>1, <3>2, Zenon
  <2> QED
    BY <2>1, <2>2, <2>3, Zenon DEF DirectoryInv
<1>5. CASE LinkRefused \/ IoError \/ Crash
  <2>1. /\ UNCHANGED <<dir, disk, wrote, inventoried, native_runs, manifest_file>>
        /\ stage' \in {"fail", "dead"}
    BY <1>5, Zenon DEF LinkRefused, IoError, Crash, ContinueAt, native_vars
  <2> QED
    BY <2>1, DirectoryFrame, Zenon DEF DirectoryInv
<1>6. CASE NoSource
  <2>1. /\ UNCHANGED <<dir, disk, wrote, inventoried, native_runs, manifest_file, left, archive>>
        /\ stage = "segment" /\ stage' = "verify" /\ dir[Source] = None
    BY <1>6, Zenon DEF NoSource, ContinueAt, native_vars
  <2>2. None \notin Bags
    BY InodesDiffer, Zenon DEF Bags
  <2> QED
    BY <1>0, <1>b, <2>1, <2>2, Zenon DEF DirectoryInv, OwnNames, Settled, ManifestInv
<1>7. CASE Verify
  <2>1. PICK k \in 0 .. inventoried - 1 :
          /\ Segment.index = k /\ Segment.inode = Bag(k)
          /\ Source = Native(k) /\ Destination = IssuedName(k, inventoried)
    BY <1>7, AtHand, Zenon DEF Verify, ManifestInv
  <2>2. k \in Indexes /\ Bag(k) \in Bags
    BY <1>a, IssuedNames, Zenon DEF Bags
  <2>3. Settled(Segment)
    BY <1>7, <2>1, <2>2, GoneIsSettled, Zenon DEF Verify, DirectoryInv, Settled
  <2>4. CASE left' = left \ {Segment} /\ stage' = "segment" /\ UNCHANGED manifest_file
    <3>1. UNCHANGED <<dir, disk, wrote, inventoried, native_runs>>
      BY <1>7, <2>4, Zenon DEF Verify, ContinueAt, native_vars
    <3>2. \A s \in Volumes \ left' : Settled(s)
      BY <1>7, <2>3, <2>4, Zenon DEF Verify, DirectoryInv
    <3> QED
      BY <2>4, <3>1, <3>2, DirectoryFrame, Zenon DEF DirectoryInv
  <2>5. CASE stage' = "fail" /\ UNCHANGED manifest_file
    <3>1. UNCHANGED <<dir, disk, wrote, inventoried, native_runs>>
      BY <1>7, <2>5, Zenon DEF Verify, ContinueAt, native_vars
    <3> QED
      BY <2>5, <3>1, DirectoryFrame, Zenon DEF DirectoryInv
  <2> QED
    BY <1>7, <2>4, <2>5, Zenon DEF Verify, ContinueAt
<1>8. CASE Close
  BY <1>8, DirectoryFrame, Zenon
     DEF Close, ContinueAt, WriteManifest, DirectoryInv, native_vars
<1>9. CASE Sync
  <2>1. /\ UNCHANGED <<dir, manifest_file, archive, left, wrote, inventoried, native_runs>>
        /\ disk'.dir = dir /\ disk'.manifest = manifest_file
        /\ \/ stage = "sync-begin" /\ stage' = "pin"
           \/ stage = "sync-pin" /\ stage' = "segment"
           \/ stage = "sync-link" /\ stage' = "unlink"
           \/ stage = "sync-unlink" /\ stage' = "verify"
           \/ stage = "sync-final" /\ stage' = "done"
           \/ stage = "sync-failed" /\ stage' = "dead"
    BY <1>9, Zenon DEF Sync, native_vars
  <2>2. OwnNames(dir)' /\ OwnNames(disk.dir)'
    BY <2>1, Zenon DEF DirectoryInv, OwnNames, ManifestInv
  <2> QED
    BY <1>0, <1>b, <2>1, <2>2, Zenon DEF DirectoryInv, Settled, ManifestInv
<1>10. CASE Link
  <2>1. /\ UNCHANGED <<disk, wrote, inventoried, native_runs, manifest_file, left, archive>>
        /\ stage = "segment" /\ left # {} /\ stage' = "sync-link"
        /\ dir[Source] = Segment.inode
        /\ dir[Destination] \in {None, Segment.inode}
        /\ dir' = [dir EXCEPT ![Destination] = Segment.inode]
    BY <1>10, Zenon DEF Link, native_vars
  <2>2. PICK k \in 0 .. inventoried - 1 :
          /\ Segment.index = k /\ Segment.inode = Bag(k)
          /\ Source = Native(k) /\ Destination = IssuedName(k, inventoried)
    BY <2>1, AtHand, Zenon
  <2>3. /\ Destination \in ReadableNames /\ Destination \in Names /\ Destination # Active
        /\ \A i : Destination # Native(i)
    BY <1>a, <2>2, IssuedNames, Zenon
  <2>4. \A n : dir'[n] = dir[n] \/ n = Destination
    BY <2>1 DEF LossInv, Shaped
  <2>5. dir'[Destination] = Bag(k) /\ disk.manifest.pinned
    BY <2>1, <2>2, <2>3, Zenon DEF LossInv, Shaped, ManifestInv
  <2>6. OwnNames(dir)'
    <3>1. OwnNames(dir) /\ UNCHANGED <<disk, wrote, inventoried, native_runs>>
      BY <2>1, Zenon DEF DirectoryInv
    <3>2. dir'[Active] \in {None, Partial}
      BY <2>3, <2>4, <3>1, Zenon DEF OwnNames
    <3>3. \A n \in ReadableNames : dir'[n] \in Bags =>
            \E i \in 0 .. inventoried - 1 : dir'[n] = Bag(i) /\ n = IssuedName(i, inventoried)
      BY <2>2, <2>4, <2>5, <3>1, Zenon DEF OwnNames
    <3>4. \A i : dir'[Native(i)] = dir[Native(i)]
      BY <2>3, <2>4, Zenon
    <3> QED
      BY <2>5, <3>1, <3>2, <3>3, <3>4, Zenon DEF OwnNames
  <2>7. OwnNames(disk.dir)'
    BY <2>1, Zenon DEF DirectoryInv, OwnNames
  <2>8. ASSUME NEW s \in Volumes, Settled(s) PROVE Settled(s)'
    <3>1. PICK i \in 0 .. inventoried - 1 : s = [index |-> i, inode |-> Bag(i)]
      BY Zenon DEF Volumes
    <3> QED
      BY <2>1, <2>4, <2>8, <3>1, <2>2, <2>5, InodesDiffer DEF Settled
  <2> QED
    BY <1>0, <1>b, <2>1, <2>2, <2>3, <2>4, <2>6, <2>7, <2>8, Zenon DEF DirectoryInv, ManifestInv
<1>11. CASE Unlink
  <2>1. /\ UNCHANGED <<disk, wrote, inventoried, native_runs, manifest_file, left, archive>>
        /\ stage = "unlink" /\ stage' = "sync-unlink"
        /\ dir' = [dir EXCEPT ![Source] = None]
    BY <1>11, Zenon DEF Unlink, native_vars
  <2>2. PICK k \in 0 .. inventoried - 1 : Source = Native(k)
    BY <2>1, AtHand, Zenon DEF ManifestInv
  <2>3. /\ Source \in Names /\ Source # Active /\ Source \notin ReadableNames
        /\ None \notin Bags /\ disk.manifest.pinned
    BY <1>a, <2>1, <2>2, IssuedNames, NamesDiffer, InodesDiffer, Zenon DEF Bags, ManifestInv
  <2>4. \A n : dir'[n] = dir[n] \/ n = Source
    BY <2>1 DEF LossInv, Shaped
  <2>5. dir'[Source] = None
    BY <2>1, <2>3, Zenon DEF LossInv, Shaped
  <2>6. OwnNames(dir)' /\ OwnNames(disk.dir)'
    <3>1. dir'[Active] = dir[Active] /\ \A n \in ReadableNames : dir'[n] = dir[n]
      BY <2>3, <2>4, Zenon
    <3>2. ASSUME NEW i \in Indexes, ~(i < wrote) \/ inventoried <= i
          PROVE  dir'[Native(i)] = dir[Native(i)]
      <4>1. i # k
        BY <1>a, <3>2, MaxVolumesAssumption DEF NativeInv, Indexes
      <4> QED
        BY <2>2, <2>4, <4>1, NamesDiffer, Zenon
    <3> QED
      BY <2>1, <2>3, <3>1, <3>2, ZenonT(30) DEF DirectoryInv, OwnNames
  <2>7. ASSUME NEW s \in Volumes, Settled(s) PROVE Settled(s)'
    <3>1. IssuedName(s.index, inventoried) # Source
      BY TwoNames, NamesDiffer, <2>2, Zenon DEF IssuedName
    <3> QED
      BY <2>1, <2>4, <2>7, <3>1, Zenon DEF Settled
  <2> QED
    BY <1>0, <1>b, <2>1, <2>3, <2>5, <2>6, <2>7, Zenon DEF DirectoryInv, ManifestInv
<1>12. CASE PowerLoss
  <2>1. /\ UNCHANGED <<wrote, inventoried>> /\ ~native_runs'
        /\ manifest_file' \in {manifest_file, disk.manifest}
        /\ disk'.dir = dir' /\ disk'.manifest = manifest_file' /\ stage' \in {"dead", "done"}
    BY <1>12, Zenon DEF PowerLoss
  <2>2. \A n \in Names : dir'[n] \in {dir[n], disk.dir[n]}
    BY <1>12, Zenon DEF PowerLoss
  <2>3. OwnNames(dir)' /\ OwnNames(disk.dir)'
    BY <1>a, <2>1, <2>2, IssuedNames, NamesDiffer DEF DirectoryInv, OwnNames, ManifestInv
  <2>4. manifest_file'.state = "finalized" => manifest_file.state = "finalized"
    BY <2>1, Zenon DEF ManifestInv
  <2>5. ASSUME NEW s \in Volumes, Settled(s) PROVE Settled(s)'
    <3>1. IssuedName(s.index, inventoried) \in Names
      BY <1>a, IssuedNames DEF Volumes
    <3> QED
      BY <2>1, <2>2, <2>5, <3>1, Zenon DEF Settled
  <2> QED
    BY <1>0, <2>1, <2>3, <2>4, <2>5, Zenon DEF DirectoryInv
<1>13. CASE Intrude
  <2>1. PICK f \in Foreign, n \in Names \ {Active} :
          /\ dir[n] = None /\ dir' = [dir EXCEPT ![n] = f]
          /\ n \in NativeNames => disk.manifest.pinned /\ ~native_runs
    BY <1>13, Zenon DEF Intrude
  <2>2. UNCHANGED <<disk, wrote, inventoried, native_runs, manifest_file, stage, left, archive>>
    BY <1>13, Zenon DEF Intrude, native_vars
  <2>3. f \notin Bags /\ None \notin Bags
    BY InodesDiffer, Zenon DEF Bags
  <2>4. \A m : dir'[m] = dir[m] \/ (m = n /\ dir'[m] = f)
    BY <2>1 DEF LossInv, Shaped
  <2>5. OwnNames(dir)' /\ OwnNames(disk.dir)'
    <3>0. n # Active /\ dir[n] = None /\ (n \in NativeNames => disk.manifest.pinned /\ ~native_runs)
      BY <2>1, Zenon
    <3>1. dir'[Active] = dir[Active] /\ \A i : dir[Native(i)] = Bag(i) => dir'[Native(i)] = Bag(i)
      BY <2>4, <3>0, InodesDiffer, Zenon
    <3>2. \A i \in Indexes :
             (disk.manifest.pinned => native_runs) => dir'[Native(i)] = dir[Native(i)]
      <4>1. (disk.manifest.pinned => native_runs) => n \notin NativeNames
        BY <3>0, Zenon
      <4> QED
        BY <2>4, <4>1 DEF NativeNames
    <3>3. \A m \in ReadableNames : dir'[m] \in Bags => dir'[m] = dir[m]
      BY <2>3, <2>4
    <3> QED
      BY <2>2, <3>1, <3>2, <3>3, Zenon DEF DirectoryInv, OwnNames
  <2>6. ASSUME NEW s \in Volumes, Settled(s) PROVE Settled(s)'
    <3>1. s.inode # None
      BY InodesDiffer DEF Volumes
    <3> QED
      BY <2>1, <2>2, <2>4, <2>6, <3>1, Zenon DEF Settled
  <2>7. ASSUME stage \in {"sync-link", "unlink"} PROVE dir'[Source] = Segment.inode
    <3>1. Segment.inode # None
      BY <2>7, AtHand, InodesDiffer, Zenon DEF ManifestInv
    <3> QED
      BY <2>1, <2>4, <2>7, <3>1, Zenon DEF DirectoryInv
  <2> QED
    BY <1>0, <1>b, <2>2, <2>3, <2>4, <2>5, <2>6, <2>7, Zenon DEF DirectoryInv
<1>14. CASE UNCHANGED archive_vars
  BY <1>0, <1>b, <1>14, Zenon DEF archive_vars, native_vars, DirectoryInv, OwnNames, Settled
<1> QED
  BY <1>1, <1>2, <1>3, <1>4, <1>5, <1>6, <1>7, <1>8, <1>9, <1>10, <1>11, <1>12,
     <1>13, <1>14, <1>p, Zenon
  DEF ArchiveNext, Finalize

\* Every step keeps what is known of the native recorder.
LEMMA NativeStep ==
  ASSUME LossInv, ManifestInv, NativeInv, [ArchiveNext]_archive_vars PROVE NativeInv'
<1> USE DEF Running, InventoryMade
<1>1. CASE Launch
  <2>1. /\ manifest_file'.status = "recording" /\ ~manifest_file'.pinned
        /\ archive' = manifest_file' /\ stage' = "recording"
        /\ UNCHANGED <<wrote, inventoried>>
    BY <1>1, Zenon DEF Launch, NoManifest
  <2> QED
    BY <2>1, Zenon DEF NativeInv
<1>2. CASE CloseVolume
  <2>1. /\ UNCHANGED <<manifest_file, stage, archive, inventoried, native_runs, orphaned>>
        /\ native_runs /\ wrote' = wrote + 1
    BY <1>2, Zenon DEF CloseVolume
  <2>2. inventoried' <= wrote'
    BY <2>1 DEF NativeInv, LossInv, Shaped
  <2>3. ~orphaned => ~InventoryMade
    BY <2>1, Zenon DEF NativeInv, ManifestInv, Sound
  <2> QED
    BY <2>1, <2>2, <2>3, Zenon DEF NativeInv
<1>3. CASE NativeExits
  BY <1>3, Zenon DEF NativeExits, NativeInv
<1>4. CASE RecordingEnds \/ RecordingFails
  <2>1. ~manifest_file.pinned /\ ~archive.pinned
    BY <1>4, NotPinnedYet, Zenon DEF RecordingEnds, RecordingFails, EndRecording
  <2>2. /\ UNCHANGED <<manifest_file, wrote, native_runs, inventoried>>
        /\ archive' = [archive EXCEPT !.status = "ended"] /\ stage = "recording"
    BY <1>4, Zenon DEF RecordingEnds, RecordingFails, EndRecording
  <2>a. ~orphaned' => ~native_runs
    BY <1>4, Zenon DEF RecordingEnds, RecordingFails
  <2>3. ~archive'.pinned
    BY <2>1, <2>2, Zenon DEF ManifestInv, Sound
  <2> QED
    BY <2>1, <2>2, <2>3, <2>a, Zenon DEF NativeInv
<1>5. CASE Resume
  BY <1>5, Zenon DEF Resume, NativeInv, native_vars
<1>6. CASE BeginFinalization \/ FinalizationFails \/ Close
  <2>1. /\ UNCHANGED <<wrote, inventoried, native_runs, orphaned>>
        /\ Running /\ stage # "recording"
    BY <1>6, Zenon DEF BeginFinalization, FinalizationFails, Close, ContinueAt, WriteManifest,
       native_vars
  <2>2. manifest_file'.pinned \/ archive'.pinned => InventoryMade
    BY <1>6, <2>1, Zenon
       DEF BeginFinalization, FinalizationFails, Close, ContinueAt, WriteManifest, ManifestInv,
           Sound
  <2> QED
    BY <2>1, <2>2, Zenon DEF NativeInv
<1>7. CASE Pin
  <2>1. /\ UNCHANGED <<wrote, native_runs, orphaned>> /\ Running /\ stage # "recording"
        /\ inventoried' = IF archive.pinned THEN inventoried ELSE wrote
    BY <1>7, Zenon DEF Pin, WriteManifest, native_vars
  <2>2. wrote <= wrote
    BY DEF LossInv, Shaped
  <2> QED
    BY <2>1, <2>2, Zenon DEF NativeInv
<1>8. CASE Sync \/ Link \/ LinkRefused \/ NoSource \/ Unlink \/ Verify \/ IoError
  <2>1. /\ UNCHANGED <<manifest_file, archive, wrote, inventoried, native_runs, orphaned>>
        /\ Running /\ stage # "recording"
    BY <1>8, Zenon
       DEF Sync, Link, LinkRefused, NoSource, Unlink, Verify, IoError, ContinueAt, native_vars
  <2> QED
    BY <2>1, Zenon DEF NativeInv
<1>9. CASE Crash \/ Intrude
  <2>1. /\ UNCHANGED <<manifest_file, archive, wrote, inventoried, native_runs, orphaned>>
        /\ stage' \in {stage, "dead"}
    BY <1>9, Zenon DEF Crash, Intrude, native_vars
  <2> QED
    BY <2>1, Zenon DEF NativeInv
<1>10. CASE PowerLoss
  <2>1. /\ UNCHANGED <<wrote, inventoried, orphaned>> /\ ~native_runs'
        /\ manifest_file' \in {manifest_file, disk.manifest} /\ stage' \in {"dead", "done"}
    BY <1>10, Zenon DEF PowerLoss
  <2>2. manifest_file'.pinned => manifest_file.pinned
    BY <2>1, Zenon DEF ManifestInv
  <2> QED
    BY <2>1, <2>2, Zenon DEF NativeInv
<1>11. CASE UNCHANGED archive_vars
  BY <1>11, Zenon DEF archive_vars, native_vars, NativeInv
<1> QED
  BY <1>1, <1>2, <1>3, <1>4, <1>5, <1>6, <1>7, <1>8, <1>9, <1>10, <1>11, Zenon
  DEF ArchiveNext, Finalize

\* Every step leaves every closed volume a durable name.
LEMMA LossStep ==
  ASSUME LossInv, ManifestInv, NativeInv, [ArchiveNext]_archive_vars PROVE LossInv'
<1> USE NamesDiffer, InodesDiffer
<1>1. CASE Launch
  <2>1. dir = EmptyDir /\ UNCHANGED <<wrote, inventoried>> /\ stage' = "recording"
        /\ dir' = [dir EXCEPT ![Active] = Partial] /\ disk'.dir = dir
        /\ disk' = [dir |-> dir, manifest |-> manifest_file']
    BY <1>1, Zenon DEF Launch
  <2>2. 0 .. wrote - 1 = {}
    BY <2>1, Zenon DEF LossInv, Durable, EmptyDir
  <2> QED
    BY <2>1, <2>2, Zenon DEF LossInv, Shaped, Durable, NativeOwn, Linked, EmptyDir
<1>2. CASE CloseVolume
  <2>1. wrote \in Indexes /\ wrote \in Nat /\ wrote' = wrote + 1 /\ wrote' \in 0 .. MaxVolumes
    BY <1>2, MaxVolumesAssumption DEF CloseVolume, LossInv, Shaped, Indexes
  <2>2. /\ dir' = [dir EXCEPT ![Native(wrote)] = Bag(wrote)]
        /\ disk' = [disk EXCEPT !.dir = [disk.dir EXCEPT ![Native(wrote)] = Bag(wrote)]]
        /\ UNCHANGED <<stage, left, archive, inventoried>>
    BY <1>2, Zenon DEF CloseVolume
  <2>3. /\ disk'.dir = [disk.dir EXCEPT ![Native(wrote)] = Bag(wrote)]
        /\ disk' = [dir |-> disk'.dir, manifest |-> disk'.manifest]
    BY <2>2, Zenon DEF LossInv, Shaped
  <2>4. Shaped'
    BY <2>1, <2>2, <2>3, Zenon DEF LossInv, Shaped
  <2>5. NativeOwn'
    BY <2>1, <2>2, <2>3, Zenon DEF LossInv, Shaped, NativeOwn
  <2>6. Durable'
    <3> SUFFICES ASSUME NEW i \in 0 .. wrote
                 PROVE  \E n \in Names \ {Active} :
                          dir'[n] = Bag(i) /\ disk'.dir[n] = Bag(i)
      BY <2>1 DEF Durable
    <3>1. CASE i = wrote
      <4>1. dir'[Native(wrote)] = Bag(wrote) /\ disk'.dir[Native(wrote)] = Bag(wrote)
        BY <2>1, <2>2, <2>3, Zenon DEF LossInv, Shaped
      <4> QED
        BY <2>1, <3>1, <4>1, Zenon
    <3>2. CASE i # wrote
      <4>1. PICK n \in Names \ {Active} : dir[n] = Bag(i) /\ disk.dir[n] = Bag(i)
        <5>1. i \in 0 .. wrote - 1
          BY <2>1, <3>2
        <5> QED
          BY <5>1, Zenon DEF LossInv, Durable
      <4>2. n # Native(wrote)
        <5>1. i \in Indexes
          BY <2>1, MaxVolumesAssumption DEF Indexes
        <5> QED
          BY <2>1, <3>2, <4>1, <5>1, Zenon DEF LossInv, NativeOwn
      <4> QED
        BY <2>2, <2>3, <4>1, <4>2, Zenon DEF LossInv, Shaped
    <3> QED
      BY <3>1, <3>2, Zenon
  <2>7. Linked'
    <3>1. UNCHANGED <<Segment, Source, Destination>>
      BY <2>2, Zenon DEF Segment, Source, Destination
    <3>2. ASSUME stage \in {"sync-link", "unlink"}
          PROVE  /\ dir'[Source] = dir[Source] /\ dir'[Destination] = dir[Destination]
                 /\ disk'.dir[Destination] = disk.dir[Destination]
      <4>1. PICK k \in 0 .. inventoried - 1 : Source = Native(k)
        BY <3>2, AtHand, Zenon DEF ManifestInv, Loop, Moving
      <4>2. k # wrote
        BY <2>1 DEF LossInv, Shaped, NativeInv
      <4>3. Source # Native(wrote) /\ Destination # Native(wrote)
        BY <4>1, <4>2, NamesDiffer, TwoNames, Zenon
      <4> QED
        BY <2>2, <2>3, <4>3 DEF LossInv, Shaped
    <3> QED
      BY <2>2, <3>1, <3>2, Zenon DEF LossInv, Linked
  <2> QED
    BY <2>4, <2>5, <2>6, <2>7, Zenon DEF LossInv
<1>3. CASE NativeExits
  <2>1. PICK rest \in {None, Partial} : dir' = [dir EXCEPT ![Active] = rest]
    BY <1>3, Zenon DEF NativeExits
  <2>2. UNCHANGED <<disk, wrote, inventoried, stage, left, archive>>
    BY <1>3, Zenon DEF NativeExits
  <2>3. Shaped' /\ Durable' /\ NativeOwn'
    BY <2>1, <2>2, NewEntry, Zenon
  <2>4. Linked'
    <3>1. UNCHANGED <<Segment, Source, Destination>>
      BY <2>2, Zenon DEF Segment, Source, Destination
    <3>2. Source \in Names => Source # Active /\ Destination \in Names \ {Active}
      BY TwoNames, Zenon DEF Source, Native, Active
    <3> QED
      BY <2>1, <2>2, <3>1, <3>2, Zenon DEF LossInv, Linked, Shaped
  <2> QED
    BY <2>3, <2>4, Zenon DEF LossInv
<1>4. CASE Resume \/ BeginFinalization \/ Pin \/ Close \/ FinalizationFails
  BY <1>4, LossFrame, Zenon
     DEF Resume, BeginFinalization, Pin, Close, FinalizationFails, WriteManifest, ContinueAt,
         native_vars
<1>5. CASE LinkRefused \/ NoSource \/ Verify \/ IoError \/ Crash
           \/ RecordingEnds \/ RecordingFails
  BY <1>5, LossFrame, Zenon
     DEF LinkRefused, NoSource, Verify, IoError, Crash, RecordingEnds, RecordingFails,
         EndRecording, ContinueAt, native_vars
<1>6. CASE Sync
  <2>1. /\ UNCHANGED <<dir, wrote, inventoried, left, archive>>
        /\ disk' = [dir |-> dir, manifest |-> manifest_file]
        /\ stage' # "sync-link" /\ (stage' = "unlink" => stage = "sync-link")
    BY <1>6, Zenon DEF Sync, native_vars
  <2>2. Linked'
    BY <2>1, Zenon DEF LossInv, Linked, Source, Destination, Segment
  <2> QED
    BY <2>1, <2>2, Zenon DEF LossInv, Shaped, Durable, NativeOwn
<1>7. CASE Link
  <2>1. /\ UNCHANGED <<disk, wrote, inventoried, left, archive>> /\ stage' = "sync-link"
        /\ dir[Source] = Segment.inode
        /\ dir[Destination] \in {None, Segment.inode}
        /\ dir' = [dir EXCEPT ![Destination] = Segment.inode]
    BY <1>7, Zenon DEF Link, native_vars
  <2>2. UNCHANGED <<Source, Destination, Segment>>
    BY <2>1, Zenon DEF Source, Destination, Segment
  <2>3. Shaped' /\ Durable' /\ NativeOwn'
    BY <2>1, TwoNames, NewEntry, Zenon
  <2>4. Linked'
    BY <2>1, <2>2, TwoNames, Zenon DEF LossInv, Linked, Shaped
  <2> QED
    BY <2>3, <2>4, Zenon DEF LossInv
<1>8. CASE Unlink
  <2>1. /\ UNCHANGED <<disk, wrote, inventoried>> /\ stage = "unlink" /\ stage' = "sync-unlink"
        /\ dir' = [dir EXCEPT ![Source] = None]
    BY <1>8, Zenon DEF Unlink, native_vars
  <2>2. Shaped' /\ NativeOwn' /\ Linked'
    BY <2>1, Zenon DEF LossInv, Shaped, NativeOwn, Linked
  <2>3. Durable'
    <3> SUFFICES ASSUME NEW i \in 0 .. wrote - 1
                 PROVE  \E n \in Names \ {Active} :
                          dir'[n] = Bag(i) /\ disk.dir[n] = Bag(i)
      BY <2>1, Zenon DEF Durable
    <3>1. PICK n \in Names \ {Active} : dir[n] = Bag(i) /\ disk.dir[n] = Bag(i)
      BY Zenon DEF LossInv, Durable
    <3>2. CASE n = Source
      <4>1. Bag(i) \in Bags
        BY MaxVolumesAssumption DEF Bags, Indexes, LossInv, Shaped
      <4>2. dir[Destination] = Bag(i) /\ disk.dir[Destination] = Bag(i)
        BY <2>1, <3>1, <3>2, <4>1, Zenon DEF LossInv, Linked
      <4> QED
        BY <2>1, <3>2, <4>2, TwoNames, Zenon DEF LossInv, Shaped
    <3>3. CASE n # Source
      BY <2>1, <3>1, <3>3, Zenon DEF LossInv, Shaped
    <3> QED
      BY <3>2, <3>3, Zenon
  <2> QED
    BY <2>2, <2>3, Zenon DEF LossInv
<1>9. CASE PowerLoss
  <2>1. /\ UNCHANGED <<wrote, inventoried>> /\ stage' \in {"done", "dead"}
        /\ disk' = [dir |-> dir', manifest |-> manifest_file']
    BY <1>9, Zenon DEF PowerLoss
  <2>2. PICK lost \in SUBSET Names :
          dir' = [n \in Names |-> IF n \in lost THEN disk.dir[n] ELSE dir[n]]
    BY <1>9, Zenon DEF PowerLoss
  <2>3. disk'.dir = dir' /\ disk'.manifest = manifest_file'
    BY <2>1, Zenon
  <2>4. Shaped' /\ Linked'
    BY <2>1, <2>2, <2>3, Zenon DEF LossInv, Shaped, Linked
  <2>5. Durable'
    BY <2>1, <2>2, <2>3, Zenon DEF LossInv, Durable
  <2>6. NativeOwn'
    BY <2>1, <2>2, <2>3, Zenon DEF LossInv, NativeOwn
  <2> QED
    BY <2>4, <2>5, <2>6, Zenon DEF LossInv
<1>10. CASE Intrude
  <2>1. PICK f \in Foreign, n \in Names \ {Active} :
          dir[n] = None /\ dir' = [dir EXCEPT ![n] = f]
    BY <1>10, Zenon DEF Intrude
  <2>2. UNCHANGED <<disk, wrote, inventoried, stage, left, archive>>
    BY <1>10, Zenon DEF Intrude, native_vars
  <2>3. UNCHANGED <<Source, Destination, Segment>>
    BY <2>2, Zenon DEF Source, Destination, Segment
  <2>4. f \notin Bags /\ None \notin Bags
    BY Zenon DEF Bags
  <2>5. Shaped' /\ Durable' /\ NativeOwn'
    BY <2>1, <2>2, <2>4, NewEntry, Zenon
  <2>6. Linked'
    BY <2>1, <2>2, <2>3, <2>4, TwoNames, Zenon DEF LossInv, Linked, Shaped
  <2> QED
    BY <2>5, <2>6, Zenon DEF LossInv
<1>11. CASE UNCHANGED archive_vars
  BY <1>11, Zenon
     DEF archive_vars, native_vars, LossInv, Shaped, Durable, NativeOwn, Linked, Source,
     Destination,
     Segment
<1> QED
  BY <1>1, <1>2, <1>3, <1>4, <1>5, <1>6, <1>7, <1>8, <1>9, <1>10, <1>11, Zenon
  DEF ArchiveNext, Finalize

\* The inductive invariant of the recorder's directory and manifest.
ArchiveInv == LossInv /\ ManifestInv /\ NativeInv /\ DirectoryInv

\* It holds for any number of volumes, faults and attempts.
THEOREM ArchiveStructure == ArchiveSpec => []ArchiveInv
<1>1. ArchiveInit => ArchiveInv
  <2> SUFFICES ASSUME ArchiveInit PROVE ArchiveInv
    BY Zenon
  <2>1. wrote = 0 /\ inventoried = 0 /\ (\A i \in Indexes : ~(i < wrote)) /\ 0 .. wrote - 1 = {}
        /\ inventoried <= wrote /\ wrote \in 0 .. MaxVolumes
    BY MaxVolumesAssumption DEF ArchiveInit, Indexes
  <2>2. None \notin Bags /\ ReadableNames \subseteq Names
    BY InodesDiffer, Zenon DEF Bags, Names
  <2>3. OwnNames(dir) /\ OwnNames(disk.dir)
    BY <2>1, <2>2, NamesDiffer, Zenon DEF ArchiveInit, OwnNames, EmptyDir
  <2>4. LossInv
    BY <2>1, NamesDiffer, InodesDiffer, Zenon
       DEF ArchiveInit, EmptyDir, LossInv, Shaped, Durable, NativeOwn, Linked
  <2>5. NativeInv
    BY <2>1, Zenon DEF ArchiveInit, NoManifest, NativeInv, InventoryMade, Running
  <2> QED
    BY <2>3, <2>4, <2>5, Zenon
       DEF ArchiveInv, ArchiveInit, NoManifest, ManifestInv, DirectoryInv, Sound, Running,
           Moving, Loop
<1>2. ArchiveInv /\ [ArchiveNext]_archive_vars => ArchiveInv'
  BY LossStep, ManifestStep, NativeStep, DirectoryStep, Zenon DEF ArchiveInv
<1> QED
  BY <1>1, <1>2, PTL DEF ArchiveSpec

\* No closed volume is ever without a name in the directory, whenever the
\* process dies, whatever a power loss takes back, and also when the native
\* recorder outlives the wrapper that finalizes.
THEOREM NothingLost == ArchiveSpec => []NoBytesLost
<1>1. ArchiveInv => NoBytesLost
  BY Zenon DEF ArchiveInv, LossInv, Durable, NoBytesLost
<1> QED
  BY <1>1, ArchiveStructure, PTL

\* A volume is renamed only behind an inventory that is on disk: os.link runs
\* after the fsync of the manifest that lists the volume's inode, and no crash,
\* power loss or second attempt comes between the two.
THEOREM Pinned == ArchiveSpec => []PinnedBeforeRenamed
<1>1. ASSUME ArchiveInv PROVE PinnedBeforeRenamed
  <2> SUFFICES ASSUME NEW n \in ReadableNames, dir[n] \in Bags
               PROVE  \E s \in disk.manifest.segments :
                        /\ s.inode = dir[n]
                        /\ n = IssuedName(s.index, Cardinality(disk.manifest.segments))
    BY Zenon DEF PinnedBeforeRenamed
  <2>1. PICK i \in 0 .. inventoried - 1 : dir[n] = Bag(i) /\ n = IssuedName(i, inventoried)
    BY <1>1, Zenon DEF ArchiveInv, DirectoryInv, OwnNames
  <2>2. disk.manifest.segments = Volumes
    BY <1>1, Zenon DEF ArchiveInv, DirectoryInv, OwnNames, ManifestInv, Sound
  <2>3. Cardinality(disk.manifest.segments) = inventoried
    BY <1>1, <2>2, VolumeCount DEF ArchiveInv, LossInv, Shaped
  <2>4. [index |-> i, inode |-> Bag(i)] \in disk.manifest.segments
    BY <2>2, Zenon DEF Volumes
  <2> QED
    BY <2>1, <2>3, <2>4, Zenon
<1> QED
  BY <1>1, ArchiveStructure, PTL

\* A finalized manifest is exact: it lists every volume closed before the
\* inventory, each under its own issued name with its own bytes, and nothing
\* else.  These are all of them unless the loop of the wrapper raised while the
\* native recorder ran, and then the later ones keep their native names.
THEOREM Exact == ArchiveSpec => []FinalizedIsExact
<1>1. ASSUME ArchiveInv PROVE FinalizedIsExact
  <2> USE <1>1 DEF ArchiveInv
  <2> SUFFICES ASSUME manifest_file.state = "finalized"
               PROVE  /\ {s.inode : s \in manifest_file.segments} =
                           {Bag(i) : i \in 0 .. inventoried - 1}
                      /\ \A s \in manifest_file.segments :
                           dir[IssuedName(s.index, Cardinality(manifest_file.segments))] = s.inode
                      /\ manifest_file.files = Issued(manifest_file.segments)
                      /\ Cardinality(manifest_file.files) = inventoried
                      /\ ~orphaned => inventoried = wrote
                      /\ \A i \in inventoried .. wrote - 1 : dir[Native(i)] = Bag(i)
    BY Zenon DEF FinalizedIsExact
  <2>1. inventoried \in Nat
    BY DEF LossInv, Shaped
  <2>2. manifest_file.segments = Volumes /\ manifest_file.files = Issued(Volumes)
        /\ manifest_file.pinned
    BY Zenon DEF ManifestInv, Sound
  <2>3. /\ Cardinality(manifest_file.segments) = inventoried
        /\ Cardinality(manifest_file.files) = inventoried
    BY <2>1, <2>2, VolumeCount, IssuedCount, Zenon
  <2>4. \A s \in Volumes : Settled(s)
    BY Zenon DEF DirectoryInv
  <2>5. {s.inode : s \in Volumes} = {Bag(i) : i \in 0 .. inventoried - 1}
    <3>1. \A i \in 0 .. inventoried - 1 :
            /\ [index |-> i, inode |-> Bag(i)] \in Volumes
            /\ [index |-> i, inode |-> Bag(i)].inode = Bag(i)
      BY Zenon DEF Volumes
    <3>2. \A s \in Volumes : \E i \in 0 .. inventoried - 1 : s.inode = Bag(i)
      BY DEF Volumes
    <3> QED
      BY <3>1, <3>2, Zenon
  <2>6. ~orphaned => inventoried = wrote
    BY <2>2, Zenon DEF NativeInv, InventoryMade
  <2>7. ASSUME NEW i \in inventoried .. wrote - 1 PROVE dir[Native(i)] = Bag(i)
    <3>1. i \in Indexes /\ i < wrote /\ inventoried <= i
      BY <2>1, MaxVolumesAssumption DEF LossInv, Shaped, Indexes
    <3> QED
      BY <3>1, Zenon DEF DirectoryInv, OwnNames
  <2> QED
    BY <2>2, <2>3, <2>4, <2>5, <2>6, <2>7, Zenon DEF Settled
<1> QED
  BY <1>1, ArchiveStructure, PTL

\* Nobody else's file is replaced, moved or removed; an inventory on disk and a
\* finalized record stay as they are, in every step of every run.
THEOREM Untouched == ArchiveSpec => NothingRewritten
<1> USE DEF Running, Moving, Loop, ArchiveInv
<1>1. ASSUME ArchiveInv, ManifestInv', [ArchiveNext]_archive_vars
      PROVE  [/\ \A n \in Names : dir[n] \in Foreign => dir'[n] \in {dir[n], disk.dir[n]}
              /\ disk.manifest.pinned =>
                   /\ manifest_file'.pinned
                   /\ manifest_file'.segments = disk.manifest.segments
              /\ disk.manifest.state = "finalized" => manifest_file' = disk.manifest]_archive_vars
  <2> SUFFICES ASSUME ArchiveNext
               PROVE  /\ \A n \in Names : dir[n] \in Foreign => dir'[n] \in {dir[n], disk.dir[n]}
                      /\ disk.manifest.pinned =>
                           /\ manifest_file'.pinned
                           /\ manifest_file'.segments = disk.manifest.segments
                      /\ disk.manifest.state = "finalized" => manifest_file' = disk.manifest
    BY <1>1, Zenon
  <2>a. Bags \cap Foreign = {} /\ None \notin Foreign /\ Partial \notin Foreign
    BY InodesDiffer, ForeignAssumption, Zenon DEF Bags, None, Partial
  <2>b. dir = [n \in Names |-> dir[n]] /\ dir[Active] \in {None, Partial}
    BY <1>1, Zenon DEF LossInv, Shaped, DirectoryInv, OwnNames
  <2>1. ASSUME NEW n \in Names, dir[n] \in Foreign PROVE dir'[n] \in {dir[n], disk.dir[n]}
    <3>1. CASE Launch \/ NativeExits
      BY <2>1, <2>a, <2>b, <3>1, Zenon DEF Launch, NativeExits
    <3>2. CASE CloseVolume
      <4>2. wrote \in Indexes /\ ~(wrote < wrote)
        BY <1>1, <3>2, MaxVolumesAssumption DEF CloseVolume, Indexes, LossInv, Shaped
      <4>3. dir[Native(wrote)] = None
        BY <1>1, <3>2, <4>2, Zenon DEF CloseVolume, DirectoryInv, OwnNames
      <4> QED
        BY <2>1, <2>a, <2>b, <3>2, <4>3, Zenon DEF CloseVolume
    <3>3. CASE Link
      <4>1. dir[Destination] \notin Foreign
        <5>1. Segment.inode \notin Foreign
          BY <1>1, <3>3, AtHand, InodesDiffer, Zenon DEF Link
        <5> QED
          BY <2>a, <3>3, <5>1, Zenon DEF Link
      <4> QED
        BY <2>1, <2>b, <3>3, <4>1, Zenon DEF Link
    <3>4. CASE Unlink
      <4>1. dir[Source] \notin Foreign
        <5>1. dir[Source] = Segment.inode /\ left # {}
          BY <1>1, <3>4, Zenon DEF Unlink, DirectoryInv, ManifestInv
        <5> QED
          BY <1>1, <3>4, <5>1, AtHand, InodesDiffer, Zenon DEF Unlink
      <4> QED
        BY <2>1, <2>b, <3>4, <4>1, Zenon DEF Unlink
    <3>5. CASE PowerLoss
      BY <2>1, <3>5, Zenon DEF PowerLoss
    <3>6. CASE Intrude
      BY <2>1, <2>a, <2>b, <3>6, Zenon DEF Intrude
    <3>7. CASE UNCHANGED dir
      BY <3>7, Zenon
    <3>8. Sync \/ BeginFinalization \/ Pin \/ LinkRefused \/ NoSource \/ Verify \/ Close
          \/ FinalizationFails \/ Resume \/ RecordingEnds \/ RecordingFails \/ IoError
          \/ Crash => UNCHANGED dir
      BY Zenon
         DEF Sync, BeginFinalization, Pin, LinkRefused, NoSource, Verify, Close,
             FinalizationFails, Resume, RecordingEnds, RecordingFails, EndRecording,
             IoError, Crash, ContinueAt
    <3> QED
      BY <3>1, <3>2, <3>3, <3>4, <3>5, <3>6, <3>7, <3>8, Zenon DEF ArchiveNext, Finalize
  <2>2. ASSUME disk.manifest.pinned
        PROVE  /\ manifest_file'.pinned
               /\ disk.manifest.state = "finalized" => manifest_file' = disk.manifest
    <3>0. /\ manifest_file.pinned /\ (Running => archive.pinned)
          /\ Sound(manifest_file) /\ (Running => Sound(archive))
          /\ disk.manifest.state = "finalized" => manifest_file = disk.manifest /\ ~Running
      BY <1>1, <2>2, Zenon DEF ManifestInv
    <3>1. ~Launch
      BY <1>1, <2>2, NotPinnedYet, Zenon DEF Launch
    <3>2. CASE BeginFinalization \/ Pin \/ FinalizationFails
      BY <3>0, <3>2, Zenon DEF BeginFinalization, Pin, FinalizationFails, WriteManifest, Sound
    <3>3. CASE Close
      BY <3>0, <3>3, Zenon DEF Close, ContinueAt, WriteManifest, Sound
    <3>4. CASE PowerLoss
      BY <2>2, <3>0, <3>4, Zenon DEF PowerLoss
    <3>5. CASE UNCHANGED manifest_file
      BY <3>0, <3>5, Zenon
    <3>6. CloseVolume \/ NativeExits \/ RecordingEnds \/ RecordingFails \/ Sync \/ Link
          \/ LinkRefused \/ NoSource \/ Unlink \/ Verify \/ Resume \/ IoError \/ Crash
          \/ Intrude => UNCHANGED manifest_file
      BY Zenon
         DEF CloseVolume, NativeExits, RecordingEnds, RecordingFails, EndRecording, Sync,
             Link, LinkRefused, NoSource, Unlink, Verify, Resume, IoError, Crash, Intrude,
             ContinueAt
    <3> QED
      BY <3>1, <3>2, <3>3, <3>4, <3>5, <3>6, Zenon DEF ArchiveNext, Finalize
  <2>3. ASSUME disk.manifest.pinned PROVE manifest_file'.segments = disk.manifest.segments
    <3>1. ~Launch /\ manifest_file.pinned /\ (Running => archive.pinned)
      BY <1>1, <2>3, NotPinnedYet, Zenon DEF Launch, ManifestInv
    <3>2. UNCHANGED inventoried
      BY <3>1, Zenon
         DEF ArchiveNext, Finalize, CloseVolume, NativeExits, RecordingEnds, RecordingFails,
             EndRecording, Resume, Sync, BeginFinalization, Pin, Link, LinkRefused, NoSource,
             Unlink, Verify, Close, FinalizationFails, IoError, Crash, PowerLoss, Intrude,
             ContinueAt
    <3>3. Volumes' = Volumes
      BY <3>2, Zenon DEF Volumes
    <3> QED
      BY <1>1, <2>2, <2>3, <3>3, Zenon DEF ManifestInv, Sound
  <2>4. disk.manifest.state = "finalized" => disk.manifest.pinned
    BY <1>1, Zenon DEF ManifestInv, Sound
  <2> QED
    BY <2>1, <2>2, <2>3, <2>4, Zenon
<1> QED
  BY <1>1, ArchiveStructure, PTL DEF NothingRewritten, ArchiveSpec, ArchiveInv
==============================================================================
