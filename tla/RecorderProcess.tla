--------------------------- MODULE RecorderProcess ---------------------------
(***************************************************************************)
(* The wrapper process of a recording (rosbag_recorder.py from the launch  *)
(* of the native recorder to its own exit): signals, the capacity stop,    *)
(* and what the manifest and the exit code say in the end.                 *)
(*                                                                         *)
(* The signal handler runs in the main thread between two of its steps, so *)
(* it is one step; the native recorder is another process and may exit     *)
(* between any two.  How the files are finalized is ArchiveFinalization;   *)
(* here finalization succeeds or raises.                                   *)
(***************************************************************************)
EXTENDS Integers

CONSTANTS
  Signals,       \* SIGINT and SIGTERM
  FailureCode    \* an exit code of a native recorder that failed

ASSUME SignalsAssumption == "SIGTERM" \in Signals /\ "none" \notin Signals
ASSUME FailureCodeAssumption == FailureCode \in Nat \ {0, 1}

VARIABLES
  pc,
  child,                   \* "none", "running" or "exited"
  returncode,              \* exit code of the child, 0 while it runs
  signalled,               \* the signals the child has received
  forwarded_signal,        \* "none" or a signal
  signal_delivered,
  capacity_limit_reached,
  full,                    \* the recorded bytes have reached the stop limit
  exit_code,               \* the variable of this name
  raised,                  \* an exception is on its way out
  manifest,                \* the document: [status, signal, code]
  exit                     \* what the wrapper exits with, -1 before

vars == <<pc, child, returncode, signalled, forwarded_signal,
          signal_delivered, capacity_limit_reached, full, exit_code, raised,
          manifest, exit>>
childVars == <<child, returncode, signalled>>
signalVars == <<forwarded_signal, signal_delivered, capacity_limit_reached>>
endVars == <<exit_code, raised, manifest, exit>>

NoSignal == "none"

InitAt(step) ==
  /\ pc = step
  /\ child = "none"
  /\ returncode = 0
  /\ signalled = {}
  /\ forwarded_signal = NoSignal
  /\ signal_delivered = FALSE
  /\ capacity_limit_reached = FALSE
  /\ full = FALSE
  /\ exit_code = 1
  /\ raised = FALSE
  /\ manifest = [status |-> "none", signal |-> NoSignal, code |-> 0]
  /\ exit = -1

Init == InitAt("launch")

Goto(step) == pc' = step

\* child.send_signal(s): a child that has exited but was not waited for
\* accepts it silently.
Send(s) ==
  /\ signalled' = IF child = "running" THEN signalled \cup {s} ELSE signalled
  /\ signal_delivered' = TRUE
  /\ UNCHANGED <<child, returncode>>

-----------------------------------------------------------------------------
(* The main thread.                                                        *)

\* The manifest of the running record is written; SIGINT and SIGTERM still
\* have their default action.
WriteRecording ==
  /\ pc = "launch"
  /\ manifest' = [manifest EXCEPT !.status = "recording"]
  /\ Goto("handlers")
  /\ UNCHANGED <<childVars, signalVars, full, exit_code, raised, exit>>

InstallHandlers ==
  /\ pc = "handlers"
  /\ Goto("popen")
  /\ UNCHANGED <<childVars, signalVars, full, endVars>>

\* subprocess.Popen starts the child or raises.
StartChild ==
  /\ pc = "popen"
  /\ \/ /\ child' = "running"
        /\ Goto("catch-up")
        /\ UNCHANGED raised
     \/ /\ raised' = TRUE
        /\ Goto("finish")
        /\ UNCHANGED child
  /\ UNCHANGED <<returncode, signalled, signalVars, full, exit_code, manifest, exit>>

\* Mutant: a signal that came before the child is not passed on.
CatchUpSkipped ==
  /\ pc = "catch-up"
  /\ Goto("poll")
  /\ UNCHANGED <<childVars, signalVars, full, endVars>>

\* A signal that came before there was a child is passed on now.
CatchUp ==
  /\ pc = "catch-up"
  /\ IF forwarded_signal # NoSignal /\ ~signal_delivered /\ child = "running"
     THEN Send(forwarded_signal)
     ELSE UNCHANGED <<childVars, signal_delivered>>
  /\ Goto("poll")
  /\ UNCHANGED <<forwarded_signal, capacity_limit_reached, full, endVars>>

\* The head of the loop: the snapshot and the manifest are brought up to
\* date, and the child is polled.
Poll ==
  /\ pc = "poll"
  /\ \/ /\ child = "exited"
        /\ exit_code' = returncode
        /\ Goto("finish")
     \/ /\ child = "running"
        /\ Goto("capacity")
        /\ UNCHANGED exit_code
  /\ UNCHANGED <<childVars, signalVars, full, raised, manifest, exit>>

\* Writing the manifest or listing the directory raises: the loop is left for
\* the finally clause, whatever the child is doing.
LoopRaises ==
  /\ pc \in {"poll", "capacity"}
  /\ raised' = TRUE
  /\ Goto("finish")
  /\ UNCHANGED <<childVars, signalVars, full, exit_code, manifest, exit>>

\* Whether the capacity stop is due, unless the child has been told to stop.
CheckCapacity ==
  /\ pc = "capacity"
  /\ Goto(IF ~signal_delivered /\ full THEN "limit" ELSE "wait")
  /\ UNCHANGED <<childVars, signalVars, full, endVars>>

\* Mutant: the capacity stop is noted and never sent.
StopForCapacityUnsent ==
  /\ pc = "limit"
  /\ signal_delivered' = TRUE
  /\ forwarded_signal' = "SIGTERM"
  /\ capacity_limit_reached' = TRUE
  /\ Goto("wait")
  /\ UNCHANGED <<childVars, full, endVars>>

\* The capacity stop; a signal may have been forwarded since the check.
StopForCapacity ==
  /\ pc = "limit"
  /\ Send("SIGTERM")
  /\ forwarded_signal' = "SIGTERM"
  /\ capacity_limit_reached' = TRUE
  /\ Goto("wait")
  /\ UNCHANGED <<full, endVars>>

\* child.wait(timeout=0.25).
Wait ==
  /\ pc = "wait"
  /\ \/ /\ child = "exited"
        /\ exit_code' = returncode
        /\ Goto("finish")
     \/ /\ child = "running"
        /\ Goto("poll")
        /\ UNCHANGED exit_code
  /\ UNCHANGED <<childVars, signalVars, full, raised, manifest, exit>>

\* The finally clause notes the exit code and the signal,
NoteEnd ==
  /\ pc = "finish"
  /\ manifest' = [manifest EXCEPT !.signal = forwarded_signal, !.code = exit_code]
  /\ Goto("status")
  /\ UNCHANGED <<childVars, signalVars, full, exit_code, raised, exit>>

\* Mutant: the exit code alone decides.
StatusByCode ==
  IF exit_code = 0 THEN "completed" ELSE "failed"

Status ==
  IF forwarded_signal # NoSignal THEN "stopped"
  ELSE IF exit_code = 0 THEN "completed" ELSE "failed"

\* then the status, up to the first write of finalization.
Finish ==
  /\ pc = "status"
  /\ manifest' = [manifest EXCEPT !.status = Status]
  /\ Goto("finalize")
  /\ UNCHANGED <<childVars, signalVars, full, exit_code, raised, exit>>

\* The files are finalized, or finalization raises.
FinalizeFiles ==
  /\ pc = "finalize"
  /\ raised' \in {raised, TRUE}
  /\ Goto("exit")
  /\ UNCHANGED <<childVars, signalVars, full, exit_code, manifest, exit>>

\* raise SystemExit, or the exception that is on its way.
Leave ==
  /\ pc = "exit"
  /\ exit' = IF raised THEN 1
             ELSE IF forwarded_signal # NoSignal THEN 0 ELSE exit_code
  /\ Goto("exited")
  /\ UNCHANGED <<childVars, signalVars, full, exit_code, raised, manifest>>

-----------------------------------------------------------------------------
(* Signals, and the native recorder.                                       *)

Unhandled == {"entry", "arguments", "space", "launch", "handlers"}
Handled == pc \notin Unhandled \cup {"exited", "killed"}

\* A signal before the handlers are installed ends the process.
Killed ==
  /\ pc \in Unhandled
  /\ Goto("killed")
  /\ UNCHANGED <<childVars, signalVars, full, endVars>>

\* forward().  child.poll() tells a running child from one that has exited,
\* but for one that exits while the main thread waits for it.
forward ==
  /\ Handled
  /\ \E s \in Signals :
       /\ forwarded_signal' = s
       /\ \/ child = "running" /\ Send(s)
          \/ child = "exited" /\ pc = "wait" /\ Send(s)
          \/ child # "running" /\ UNCHANGED <<childVars, signal_delivered>>
  /\ UNCHANGED <<pc, capacity_limit_reached, full, endVars>>

\* The native recorder exits by itself, by a failure, or because of a signal.
ChildExits ==
  /\ child = "running"
  /\ child' = "exited"
  /\ returncode' \in {0, FailureCode}
  /\ UNCHANGED <<pc, signalled, signalVars, full, endVars>>

LimitReached ==
  /\ child = "running" /\ ~full
  /\ full' = TRUE
  /\ UNCHANGED <<pc, childVars, signalVars, endVars>>

-----------------------------------------------------------------------------
Main ==
  \/ WriteRecording \/ InstallHandlers \/ StartChild \/ CatchUp \/ Poll
  \/ CheckCapacity \/ StopForCapacity \/ Wait \/ NoteEnd \/ Finish
  \/ FinalizeFiles \/ Leave

Next == Main \/ LoopRaises \/ Killed \/ forward \/ ChildExits \/ LimitReached

Spec == Init /\ [][Next]_vars

-----------------------------------------------------------------------------
(* Properties.                                                             *)

Ended == manifest.status \in {"stopped", "completed", "failed"}

\* What the manifest says of the end is what happened: a completed record had
\* a child that exited with 0 and nobody stopped it, a failed one was not
\* stopped, and a stopped one was stopped by a signal or by its capacity.  The
\* wrapper believes that the child was told to stop only if it was, or if it
\* had exited; and blames the capacity only for a record that reached it.
StatusTruthful ==
  /\ manifest.status = "completed" =>
       child = "exited" /\ returncode = 0 /\ manifest.signal = NoSignal
  /\ manifest.status = "failed" => manifest.signal = NoSignal /\ manifest.code # 0
  /\ manifest.status = "stopped" => forwarded_signal # NoSignal
  /\ Ended /\ capacity_limit_reached => manifest.status = "stopped"
  /\ signal_delivered => signalled # {} \/ child = "exited"
  /\ capacity_limit_reached =>
       full /\ ("SIGTERM" \in signalled \/ child = "exited")

\* The record is declared ended only when the native recorder has exited and
\* has closed its files.
EndsAfterChild == Ended => child # "running"

\* A record that the manifest calls failed is never a success of the wrapper.
FailureIsReported == exit = 0 => manifest.status # "failed"

-----------------------------------------------------------------------------
(* Liveness: under the fairness of RecorderCommand.                        *)

\* A signal that arrives once the handlers are installed ends the recording,
\* also when it comes before the child exists or while it is being started; a
\* recording that has reached its limit comes to its end without help.
StopEnds ==
  (forwarded_signal # NoSignal \/ full) ~> (pc = "exited")
=============================================================================
