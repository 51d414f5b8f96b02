----------------------------- MODULE ServiceCall -----------------------------
(***************************************************************************)
(* A ROS1 service call: ServiceInvoker::call in the adapter process        *)
(* (service_invoker.cpp), the one-shot helper process that it spawns       *)
(* (service_helper_main.cpp), the socket pair between the two, and the ROS *)
(* server behind the helper.                                               *)
(*                                                                         *)
(* The helper may enter roscpp's call() only after it has read a complete  *)
(* commit frame; up to the last byte of that frame the invoker may still   *)
(* report that nothing happened.  Partial frames, a cancellation or a      *)
(* deadline at any moment, helpers that die, a server that never answers   *)
(* and the death of the adapter process are all part of the model.         *)
(***************************************************************************)
EXTENDS Integers, FiniteSets

CONSTANTS
  Calls,        \* the service-call invocations
  Interrupts,   \* why a call may be told to give up
  MaxInFlight   \* maximum_in_flight_

ASSUME CallsAssumption == IsFiniteSet(Calls)
ASSUME InterruptsAssumption == Interrupts \subseteq {"cancelled", "deadline"}
ASSUME MaxInFlightAssumption == MaxInFlight \in Nat \ {0}

VARIABLES
  \* the adapter process
  adapter,     \* whether it is alive
  in_flight,   \* in_flight_
  pc,          \* per call: the step of ServiceInvoker::call
  outcome,     \* per call: "none", "ok", or the class of the error thrown
  interrupt,   \* per call: "none" or a member of Interrupts
  \* the socket pair of a call
  socket,      \* the invoker's end: "none", "open" or "closed"
  to_helper,   \* what the invoker has written
  to_parent,   \* the last frame that the helper has written
  \* the helper process of a call
  helper,
  \* the ROS server
  wire,        \* per call: "none", "sent", or "answered"
  executed     \* per call: how often the server executed the request

invokerVars == <<in_flight, pc, outcome>>
socketVars == <<socket, to_helper, to_parent>>
serverVars == <<wire, executed>>
vars == <<adapter, invokerVars, interrupt, socketVars, helper, serverVars>>

Outcomes == {"none", "ok", "permanent", "transient", "uncertain",
             "resource-exhausted", "cancelled", "deadline"}

\* The steps of the invoker: before it holds a permit, up to the commit,
\* behind it, and on its way out.
BeforePermit == {"idle", "decode", "acquire"}
PreCommit == {"start", "send", "ready", "commit", "send-commit"}
PostCommit == {"response", "payload"}
Unwinding == {"close", "reap", "convert", "release"}
Steps == BeforePermit \cup PreCommit \cup PostCommit \cup Unwinding \cup {"done"}

\* What a socket carries.  "header" is the frame of a completed call whose
\* payload is still to come; "empty" is a completed call without payload.
Sent == {"none", "part-request", "request", "part-commit", "commit"}
ReadyFrames == {"ready", "unavailable", "refused"}
ResponseFrames == {"call-failed", "too-large", "garbled", "header", "empty"}
Received == {"none", "completed"} \cup ReadyFrames \cup ResponseFrames

\* The helper process: before and behind the parent-death fence, and all that
\* may still take a step.
Starting == {"spawned", "checked", "armed"}
Fenced == {"request", "available", "fence", "call", "calling", "payload"}
Live == Starting \cup Fenced

-----------------------------------------------------------------------------
Init ==
  /\ adapter = TRUE
  /\ in_flight = 0
  /\ pc = [c \in Calls |-> "idle"]
  /\ outcome = [c \in Calls |-> "none"]
  /\ interrupt = [c \in Calls |-> "none"]
  /\ socket = [c \in Calls |-> "none"]
  /\ to_helper = [c \in Calls |-> "none"]
  /\ to_parent = [c \in Calls |-> "none"]
  /\ helper = [c \in Calls |-> "none"]
  /\ wire = [c \in Calls |-> "none"]
  /\ executed = [c \in Calls |-> 0]

-----------------------------------------------------------------------------
(* Helpers.                                                                *)

Goto(c, step) == pc' = [pc EXCEPT ![c] = step]

\* The condition of requirePreDispatchAllowed, and of the same checks in
\* waitPreCommitEvent, writePreCommit, readPreCommit and readPostCommit.
Allowed(c) == interrupt[c] = "none"

\* A result, or an error of the given class, is on its way out of call();
\* next is what is left to unwind.
Leave(c, class, next) ==
  /\ outcome' = [outcome EXCEPT ![c] = class]
  /\ Goto(c, next)

\* The same, with a helper to terminate.
Fail(c, class) == Leave(c, class, "close")

\* Before the commit every wait for the socket looks at the interruption
\* first, which then ends the call with its own class.
Interrupted(c) == ~Allowed(c) /\ Fail(c, interrupt[c])

\* What acquireInFlight compares and counts in one atomic step.
PermitFree == in_flight < MaxInFlight

\* The helper reads until one of the frames is there as a whole, or until the
\* end of the stream, which ends it.
readExact(c, frames, next) ==
  \/ /\ to_helper[c] \in frames
     /\ helper' = [helper EXCEPT ![c] = next]
  \/ /\ to_helper[c] \notin frames
     /\ socket[c] = "closed"
     /\ helper' = [helper EXCEPT ![c] = "exited"]

\* The helper writes one frame, then moves on; writing to a closed socket
\* ends it.
Reply(c, frame, next) ==
  IF socket[c] = "open"
  THEN /\ to_parent' = [to_parent EXCEPT ![c] = frame]
       /\ helper' = [helper EXCEPT ![c] = next]
  ELSE /\ helper' = [helper EXCEPT ![c] = "exited"]
       /\ UNCHANGED to_parent

-----------------------------------------------------------------------------
(* ServiceInvoker::call up to the commit.                                  *)

\* A dispatch worker enters call().
Begin(c) ==
  /\ pc[c] = "idle"
  /\ Goto(c, "decode")
  /\ UNCHANGED <<in_flight, outcome, socketVars, helper, serverVars>>

\* The first check; the service type is resolved, the request decoded and
\* serialized.
Decode(c) ==
  /\ pc[c] = "decode"
  /\ \/ /\ ~Allowed(c)
        /\ Leave(c, interrupt[c], "done")
     \/ /\ Allowed(c)
        /\ Leave(c, "permanent", "done")
     \/ /\ Allowed(c)
        /\ Goto(c, "acquire")
        /\ UNCHANGED outcome
  /\ UNCHANGED <<in_flight, socketVars, helper, serverVars>>

\* Mutant: the limit is compared one too late.
AcquireOffByOne(c) ==
  /\ pc[c] = "acquire"
  /\ Allowed(c)
  /\ in_flight <= MaxInFlight
  /\ in_flight' = in_flight + 1
  /\ Goto(c, "start")
  /\ UNCHANGED <<outcome, socketVars, helper, serverVars>>

\* The second check, the checks of digest and name, and acquireInFlight.
Acquire(c) ==
  /\ pc[c] = "acquire"
  /\ \/ /\ ~Allowed(c)
        /\ Leave(c, interrupt[c], "done")
        /\ UNCHANGED in_flight
     \/ /\ Allowed(c)
        /\ Leave(c, "permanent", "done")
        /\ UNCHANGED in_flight
     \/ /\ Allowed(c)
        /\ ~PermitFree
        /\ Leave(c, "resource-exhausted", "done")
        /\ UNCHANGED in_flight
     \/ /\ Allowed(c)
        /\ PermitFree
        /\ in_flight' = in_flight + 1
        /\ Goto(c, "start")
        /\ UNCHANGED outcome
  /\ UNCHANGED <<socketVars, helper, serverVars>>

\* HelperProcess::start: a socket pair and a child, or neither.
StartHelper(c) ==
  /\ pc[c] = "start"
  /\ \/ /\ helper' = [helper EXCEPT ![c] = "spawned"]
        /\ socket' = [socket EXCEPT ![c] = "open"]
        /\ Goto(c, "send")
        /\ UNCHANGED outcome
     \/ /\ Leave(c, IF Allowed(c) THEN "transient" ELSE interrupt[c], "release")
        /\ UNCHANGED <<helper, socket>>
  /\ UNCHANGED <<in_flight, to_helper, to_parent, serverVars>>

\* writePreCommit of the request frame, the name, the digest and the payload:
\* a check before every send, and a send may take a part.
SendRequest(c) ==
  /\ pc[c] = "send"
  /\ \/ Interrupted(c) /\ UNCHANGED to_helper
     \/ /\ Allowed(c)
        /\ helper[c] \in Live
        /\ to_helper[c] = "none"
        /\ to_helper' = [to_helper EXCEPT ![c] = "part-request"]
        /\ UNCHANGED <<pc, outcome>>
     \/ /\ Allowed(c)
        /\ helper[c] \in Live
        /\ to_helper' = [to_helper EXCEPT ![c] = "request"]
        /\ Goto(c, "ready")
        /\ UNCHANGED outcome
  /\ UNCHANGED <<in_flight, socket, to_parent, helper, serverVars>>

\* Mutant: the wait for the ready frame does not look at the interruption.
ReadReadyUnchecked(c) ==
  /\ pc[c] = "ready"
  /\ \/ /\ to_parent[c] \in {"unavailable", "refused"}
        /\ Fail(c, "transient")
     \/ /\ to_parent[c] = "ready"
        /\ Goto(c, "commit")
        /\ UNCHANGED outcome
  /\ UNCHANGED <<in_flight, socketVars, helper, serverVars>>

\* readPreCommit of the ready frame.
ReadReady(c) ==
  /\ pc[c] = "ready"
  /\ \/ Interrupted(c)
     \/ /\ Allowed(c)
        /\ to_parent[c] \in {"unavailable", "refused"}
        /\ Fail(c, "transient")
     \/ /\ Allowed(c)
        /\ to_parent[c] = "ready"
        /\ Goto(c, "commit")
        /\ UNCHANGED outcome
  /\ UNCHANGED <<in_flight, socketVars, helper, serverVars>>

\* Mutant: there is no such check.
CheckCommitSkipped(c) ==
  /\ pc[c] = "commit"
  /\ Goto(c, "send-commit")
  /\ UNCHANGED <<in_flight, outcome, socketVars, helper, serverVars>>

\* The last check before a byte of the commit frame is sent.
CheckCommit(c) ==
  /\ pc[c] = "commit"
  /\ \/ Interrupted(c)
     \/ /\ Allowed(c)
        /\ Goto(c, "send-commit")
        /\ UNCHANGED outcome
  /\ UNCHANGED <<in_flight, socketVars, helper, serverVars>>

\* writePreCommit of the commit frame: a part of it, then back to the check;
\* or all of it, and from here on every failure is uncertain.
SendCommit(c) ==
  /\ pc[c] = "send-commit"
  /\ helper[c] \in Live
  /\ \/ /\ to_helper[c] = "request"
        /\ to_helper' = [to_helper EXCEPT ![c] = "part-commit"]
        /\ Goto(c, "commit")
     \/ /\ to_helper' = [to_helper EXCEPT ![c] = "commit"]
        /\ Goto(c, "response")
  /\ UNCHANGED <<in_flight, outcome, socket, to_parent, helper, serverVars>>

-----------------------------------------------------------------------------
(* Behind the commit, and the way out.                                     *)

\* Mutant: an interruption behind the commit is reported by its own class.
ReadResponseTyped(c) ==
  /\ pc[c] = "response"
  /\ \/ /\ ~Allowed(c)
        /\ Fail(c, interrupt[c])
     \/ /\ Allowed(c)
        /\ to_parent[c] \in ResponseFrames
        /\ Goto(c, "close")
        /\ UNCHANGED outcome
  /\ UNCHANGED <<in_flight, socketVars, helper, serverVars>>

\* readPostCommit of the response frame; the interruption is looked at before
\* every recv and once more when the frame is complete.
ReadResponse(c) ==
  /\ pc[c] = "response"
  /\ \/ /\ ~Allowed(c)
        /\ Fail(c, "uncertain")
     \/ /\ Allowed(c)
        /\ to_parent[c] \in {"header", "completed"}
        /\ Goto(c, "payload")
        /\ UNCHANGED outcome
     \/ /\ Allowed(c)
        /\ to_parent[c] \in ResponseFrames \ {"header"}
        /\ Goto(c, "close")
        /\ UNCHANGED outcome
  /\ UNCHANGED <<in_flight, socketVars, helper, serverVars>>

\* readPostCommit of the payload.
ReadPayload(c) ==
  /\ pc[c] = "payload"
  /\ \/ /\ ~Allowed(c)
        /\ Fail(c, "uncertain")
     \/ /\ Allowed(c)
        /\ to_parent[c] = "completed"
        /\ Goto(c, "close")
        /\ UNCHANGED outcome
  /\ UNCHANGED <<in_flight, socketVars, helper, serverVars>>

\* callTimeoutMs elapses.
CallTimeout(c) ==
  /\ pc[c] \in PostCommit
  /\ Fail(c, "uncertain")
  /\ UNCHANGED <<in_flight, socketVars, helper, serverVars>>

\* A send, a recv or a poll fails, or reports that the helper is gone.
TransportFails(c) ==
  /\ \/ /\ pc[c] \in {"send", "ready", "send-commit"}
        /\ Fail(c, "transient")
     \/ /\ pc[c] \in PostCommit
        /\ Fail(c, "uncertain")
  /\ UNCHANGED <<in_flight, socketVars, helper, serverVars>>

\* HelperProcess::terminateAndReap closes the socket first ...
CloseSocket(c) ==
  /\ pc[c] = "close"
  /\ socket' = [socket EXCEPT ![c] = "closed"]
  /\ Goto(c, "reap")
  /\ UNCHANGED <<in_flight, outcome, to_helper, to_parent, helper, serverVars>>

\* Mutant: the killed helper is not waited for.
KillWithoutWait(c) ==
  /\ pc[c] = "reap"
  /\ helper' = [helper EXCEPT ![c] = "exited"]
  /\ Goto(c, IF outcome[c] = "none" THEN "convert" ELSE "release")
  /\ UNCHANGED <<in_flight, outcome, socketVars, serverVars>>

\* Mutant: a helper whose call failed is left to the closed socket.
ReapWithoutKill(c) ==
  /\ pc[c] = "reap"
  /\ helper' = [helper EXCEPT ![c] = IF @ \in Live THEN @ ELSE "reaped"]
  /\ Goto(c, IF outcome[c] = "none" THEN "convert" ELSE "release")
  /\ UNCHANGED <<in_flight, outcome, socketVars, serverVars>>

\* ... then kills the helper and waits for it.
KillAndReap(c) ==
  /\ pc[c] = "reap"
  /\ helper' = [helper EXCEPT ![c] = "reaped"]
  /\ Goto(c, IF outcome[c] = "none" THEN "convert" ELSE "release")
  /\ UNCHANGED <<in_flight, outcome, socketVars, serverVars>>

\* The status of the response, and the conversion of its payload.
Convert(c) ==
  /\ pc[c] = "convert"
  /\ \/ Leave(c, "uncertain", "release")
     \/ /\ to_parent[c] \in {"completed", "empty"}
        /\ Leave(c, "ok", "release")
  /\ UNCHANGED <<in_flight, socketVars, helper, serverVars>>

\* The destructor of InFlightPermit, which runs after that of HelperProcess.
ReleasePermit(c) ==
  /\ pc[c] = "release"
  /\ in_flight' = in_flight - 1
  /\ Goto(c, "done")
  /\ UNCHANGED <<outcome, socketVars, helper, serverVars>>

\* What the dispatch worker does on its own.
InvokerStep(c) ==
  \/ Decode(c) \/ Acquire(c) \/ StartHelper(c) \/ SendRequest(c)
  \/ ReadReady(c) \/ CheckCommit(c) \/ SendCommit(c) \/ ReadResponse(c)
  \/ ReadPayload(c) \/ CloseSocket(c) \/ KillAndReap(c) \/ Convert(c)
  \/ ReleasePermit(c)

-----------------------------------------------------------------------------
(* The helper process.                                                     *)

\* installParentDeathFence: compare the parent with the creator of the socket
\* pair, arm the death signal, and compare again.
CheckParent(c) ==
  /\ helper[c] = "spawned"
  /\ helper' = [helper EXCEPT ![c] = IF adapter THEN "checked" ELSE "exited"]
  /\ UNCHANGED <<socketVars, serverVars>>

ArmDeathSignal(c) ==
  /\ helper[c] = "checked"
  /\ helper' = [helper EXCEPT ![c] = "armed"]
  /\ UNCHANGED <<socketVars, serverVars>>

\* Mutant: the parent is not compared again.
RecheckParentSkipped(c) ==
  /\ helper[c] = "armed"
  /\ helper' = [helper EXCEPT ![c] = "request"]
  /\ UNCHANGED <<socketVars, serverVars>>

RecheckParent(c) ==
  /\ helper[c] = "armed"
  /\ helper' = [helper EXCEPT ![c] = IF adapter THEN "request" ELSE "exited"]
  /\ UNCHANGED <<socketVars, serverVars>>

\* The whole request.
ReadRequest(c) ==
  /\ helper[c] = "request"
  /\ readExact(c, {"request", "part-commit", "commit"}, "available")
  /\ UNCHANGED <<socketVars, serverVars>>

\* The name and the digest are refused, the service is not there in time, no
\* client can be made; or the helper is ready and waits at the fence.
ReplyReady(c) ==
  /\ helper[c] = "available"
  /\ \E frame \in ReadyFrames :
       Reply(c, frame, IF frame = "ready" THEN "fence" ELSE "exited")
  /\ UNCHANGED <<socket, to_helper, serverVars>>

\* Mutant: a first part of the commit frame is enough.
ReadCommitPartly(c) ==
  /\ helper[c] = "fence"
  /\ to_helper[c] \in {"part-commit", "commit"}
  /\ helper' = [helper EXCEPT ![c] = "call"]
  /\ UNCHANGED <<socketVars, serverVars>>

\* The fence: the whole commit frame.
ReadCommit(c) ==
  /\ helper[c] = "fence"
  /\ readExact(c, {"commit"}, "call")
  /\ UNCHANGED <<socketVars, serverVars>>

\* client.call() sends the request to the server ...
CallServer(c) ==
  /\ helper[c] = "call"
  /\ helper' = [helper EXCEPT ![c] = "calling"]
  /\ wire' = [wire EXCEPT ![c] = "sent"]
  /\ UNCHANGED <<socketVars, executed>>

\* ... or fails, before or after that; the server may have executed it.
CallFails(c) ==
  /\ helper[c] \in {"call", "calling"}
  /\ Reply(c, "call-failed", "exited")
  /\ UNCHANGED <<socket, to_helper, serverVars>>

\* client.call() returns with an answer; a frame with a payload is followed by
\* a second write.
CallReturns(c) ==
  /\ helper[c] = "calling"
  /\ wire[c] = "answered"
  /\ \E frame \in ResponseFrames \ {"call-failed"} :
       Reply(c, frame, IF frame = "header" THEN "payload" ELSE "exited")
  /\ UNCHANGED <<socket, to_helper, serverVars>>

WritePayload(c) ==
  /\ helper[c] = "payload"
  /\ Reply(c, "completed", "exited")
  /\ UNCHANGED <<socket, to_helper, serverVars>>

\* Any other way out of the helper's main(), a crash or a kill.
HelperDies(c) ==
  /\ helper[c] \in Live
  /\ helper' = [helper EXCEPT ![c] = "exited"]
  /\ UNCHANGED <<socketVars, serverVars>>

HelperStep(c) ==
  \/ CheckParent(c) \/ ArmDeathSignal(c) \/ RecheckParent(c)
  \/ ReadRequest(c) \/ ReplyReady(c) \/ ReadCommit(c) \/ CallServer(c)
  \/ CallFails(c) \/ CallReturns(c) \/ WritePayload(c)

-----------------------------------------------------------------------------
(* The environment.                                                        *)

\* The server executes a request, even one whose caller is gone.
ServerExecutes(c) ==
  /\ wire[c] = "sent"
  /\ wire' = [wire EXCEPT ![c] = "answered"]
  /\ executed' = [executed EXCEPT ![c] = @ + 1]
  /\ UNCHANGED <<adapter, invokerVars, interrupt, socketVars, helper>>

\* The Runtime cancels a call, or its deadline passes.
Interrupt(c) ==
  /\ pc[c] \notin {"idle", "done"}
  /\ interrupt[c] = "none"
  /\ \E i \in Interrupts : interrupt' = [interrupt EXCEPT ![c] = i]
  /\ UNCHANGED <<adapter, invokerVars, socketVars, helper, serverVars>>

\* The adapter process dies: its sockets close, and the kernel kills every
\* helper that has armed the death signal.
AdapterDies ==
  /\ adapter
  /\ adapter' = FALSE
  /\ socket' = [c \in Calls |-> IF socket[c] = "open" THEN "closed" ELSE socket[c]]
  /\ helper' = [c \in Calls |-> IF helper[c] \in Fenced \cup {"armed"}
                                THEN "exited" ELSE helper[c]]
  /\ UNCHANGED <<invokerVars, interrupt, to_helper, to_parent, serverVars>>

-----------------------------------------------------------------------------
\* A thread of the adapter takes a step; the helper does.
Invoke(c) ==
  /\ adapter
  /\ Begin(c) \/ InvokerStep(c) \/ CallTimeout(c) \/ TransportFails(c)
  /\ UNCHANGED <<adapter, interrupt>>

Help(c) ==
  /\ HelperStep(c) \/ HelperDies(c)
  /\ UNCHANGED <<adapter, invokerVars, interrupt>>

Next ==
  \/ \E c \in Calls : Invoke(c) \/ Help(c) \/ ServerExecutes(c)
  \/ \E c \in Calls : adapter /\ Interrupt(c)
  \/ AdapterDies

Spec == Init /\ [][Next]_vars

-----------------------------------------------------------------------------
(* Properties.                                                             *)

\* From the permit to its release.
HoldsPermit(c) == pc[c] \in PreCommit \cup PostCommit \cup Unwinding

\* The counter of calls in flight is the number of calls that hold a permit,
\* on every path through call(), and stays within maximum_in_flight_.  There
\* are never more helper processes, zombies included, than permits, and none is
\* left when its call() returns: the helper is reaped before the permit is
\* released.
HelpersBounded ==
  /\ in_flight = Cardinality({c \in Calls : HoldsPermit(c)})
  /\ in_flight <= MaxInFlight
  /\ adapter => Cardinality({c \in Calls : helper[c] \in Live \cup {"exited"}})
                  <= MaxInFlight
  /\ \A c \in Calls : pc[c] \in BeforePermit \cup {"done"} =>
       helper[c] \in {"none", "reaped"}

\* The commit fence: the server is contacted only for a call whose whole
\* commit frame was written, at most once, and the invoker then never reports
\* a class that says nothing happened; success needs the server's answer.
FenceHolds ==
  \A c \in Calls :
    /\ wire[c] # "none" =>
         to_helper[c] = "commit" /\ outcome[c] \in {"none", "ok", "uncertain"}
    /\ executed[c] <= 1
    /\ outcome[c] = "ok" => executed[c] = 1

\* A helper never gets behind the parent-death fence when the adapter process
\* is gone, whenever that happens, and so never calls for a dead adapter.
NoOrphan == adapter \/ \A c \in Calls : helper[c] \notin Fenced

\* A cancellation or deadline that comes before the last check of the commit
\* keeps the call from the server for ever.
InterruptFence ==
  \A c \in Calls :
    [](interrupt[c] # "none" /\ HoldsPermit(c) /\ to_helper[c] # "commit"
         /\ pc[c] # "send-commit" => [](executed[c] = 0))

\* The service call implements the promise of NativeOperation.
Abstract == INSTANCE NativeOperation WITH
  Failures <- Outcomes \ {"none", "ok", "uncertain"},
  result <- outcome,
  effects <- executed,
  quota <- [c \in Calls |-> 1]

HonestOperation == Abstract!Spec

-----------------------------------------------------------------------------
(* Liveness.  The worker thread runs and notices a helper that is gone,    *)
(* the deadline of a call passes (an invocation without one is rejected:   *)
(* validateInvocationContext), its call timeout elapses, and a helper gets *)
(* through its start-up.  Nothing is assumed of a helper that talks to     *)
(* ROS, or of the server.                                                  *)

Fairness ==
  \A c \in Calls :
    /\ WF_vars(adapter /\ InvokerStep(c) /\ UNCHANGED <<adapter, interrupt>>)
    /\ WF_vars(adapter /\ CallTimeout(c) /\ UNCHANGED <<adapter, interrupt>>)
    /\ WF_vars(/\ adapter /\ TransportFails(c) /\ helper[c] \notin Live
               /\ UNCHANGED <<adapter, interrupt>>)
    /\ WF_vars(adapter /\ Interrupt(c))
    /\ WF_vars(/\ CheckParent(c) \/ ArmDeathSignal(c) \/ RecheckParent(c)
               /\ UNCHANGED <<adapter, invokerVars, interrupt>>)

FairSpec == Spec /\ Fairness

\* Every call ends although the helper or the server may hang for ever, and
\* every helper process does, also when the adapter dies at any point of its
\* start-up.
CallsEnd ==
  \A c \in Calls :
    /\ pc[c] # "idle" ~> pc[c] = "done" \/ ~adapter
    /\ helper[c] # "none" ~> helper[c] \in {"exited", "reaped"}
=============================================================================
