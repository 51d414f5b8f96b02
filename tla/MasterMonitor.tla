---------------------------- MODULE MasterMonitor ----------------------------
(***************************************************************************)
(* The main thread of the adapter process (main.cpp): it polls the ROS     *)
(* master through the publisher registry and decides when the process must *)
(* go, while dispatch workers publish and the Runtime stops capabilities.  *)
(***************************************************************************)
EXTENDS Integers, FiniteSets

CONSTANTS
  Calls, Topics, Requests, Pids, Interrupts, MaxPublishers, None,
  UnavailableExitPolls    \* kUnavailableExitPolls

\* What the registry assumes of its constants.
ASSUME RegistryAssumption ==
  /\ IsFiniteSet(Calls) /\ None \notin Calls
  /\ IsFiniteSet(Topics)
  /\ \A r \in Requests : r.topic \in Topics /\ r.count \in Nat \ {0}
  /\ Pids \subseteq Nat \ {0}
  /\ Interrupts \subseteq {"cancelled", "deadline"}
  /\ MaxPublishers \in Nat \ {0}
ASSUME UnavailableExitPollsAssumption == UnavailableExitPolls \in Nat \ {0}

VARIABLES
  entries, active_calls, committed, publisher, master_generation, mutex,
  pc, request, current, selected, outcome, probe,
  master, ros_ok, interrupt, native, late,
  main,               \* "loop", "stopping" or "exited"
  unavailable_polls,
  stop_requested, session_lost,
  \* observations
  unanswered,         \* consecutive polls without an answer of the master
  verdict             \* why the monitor gave up: "none", "changed" or "gone"

registry == <<entries, active_calls, committed, publisher, master_generation,
              mutex, pc, request, current, selected, outcome, probe, master,
              ros_ok, interrupt, native, late>>
monitor == <<main, unavailable_polls, stop_requested, session_lost, unanswered,
             verdict>>
vars == <<registry, monitor>>

Registry == INSTANCE PublisherRegistry

Init ==
  /\ Registry!Init
  /\ main = "loop"
  /\ unavailable_polls = 0
  /\ stop_requested = FALSE
  /\ session_lost = FALSE
  /\ unanswered = 0
  /\ verdict = "none"

-----------------------------------------------------------------------------
(* main: the monitor loop.                                                 *)

\* The head of the loop and the first half of ProbeMasterBinding.
Poll ==
  /\ main = "loop" /\ ros_ok /\ ~stop_requested
  /\ Registry!ProbeFetch
  /\ unanswered' = IF master # 0 THEN 0
                   ELSE IF unanswered < UnavailableExitPolls THEN unanswered + 1
                   ELSE unanswered
  /\ UNCHANGED <<main, unavailable_polls, stop_requested, session_lost, verdict>>

\* Mutant: an answer of the master does not reset the count.
JudgeNoReset ==
  LET state == Registry!ProbeResult
      polls == IF state = "Unavailable" THEN unavailable_polls + 1
               ELSE unavailable_polls
      why == CASE state = "Changed" -> "changed"
               [] polls >= UnavailableExitPolls -> "gone"
               [] OTHER -> "none"
  IN
  /\ Registry!ProbeBind
  /\ unavailable_polls' = polls
  /\ stop_requested' = (stop_requested \/ why # "none")
  /\ verdict' = why
  /\ UNCHANGED <<main, session_lost, unanswered>>

\* Mutant: a changed master is left to the calls to notice.
JudgeIgnoresChange ==
  LET polls == IF Registry!ProbeResult = "Unavailable" THEN unavailable_polls + 1
               ELSE 0
  IN
  /\ Registry!ProbeBind
  /\ unavailable_polls' = polls
  /\ stop_requested' = (stop_requested \/ polls >= UnavailableExitPolls)
  /\ verdict' = IF polls >= UnavailableExitPolls THEN "gone" ELSE "none"
  /\ UNCHANGED <<main, session_lost, unanswered>>

\* The second half, under mutex_, and the switch over its answer.
Judge ==
  LET state == Registry!ProbeResult
      polls == CASE state = "Unavailable" -> unavailable_polls + 1
                 [] state = "Changed" -> unavailable_polls
                 [] OTHER -> 0
      why == CASE state = "Changed" -> "changed"
               [] state = "Unavailable" /\ polls >= UnavailableExitPolls -> "gone"
               [] OTHER -> "none"
  IN
  /\ Registry!ProbeBind
  /\ unavailable_polls' = polls
  /\ stop_requested' = (stop_requested \/ why # "none")
  /\ verdict' = why
  /\ UNCHANGED <<main, session_lost, unanswered>>

\* The condition of the loop fails, between two polls.
LeaveLoop ==
  /\ main = "loop" /\ probe.pc = "idle"
  /\ ~ros_ok \/ stop_requested
  /\ main' = "stopping"
  /\ UNCHANGED <<registry, unavailable_polls, stop_requested, session_lost,
                 unanswered, verdict>>

\* runtime.Stop() and ros::shutdown() returned.
Exit ==
  /\ main = "stopping"
  /\ main' = "exited"
  /\ UNCHANGED <<registry, unavailable_polls, stop_requested, session_lost,
                 unanswered, verdict>>

\* SIGINT, SIGTERM, a stop request of the Runtime, or the loss of its session.
RequestStop ==
  /\ \E lost \in BOOLEAN : session_lost' = (session_lost \/ lost)
  /\ stop_requested' = TRUE
  /\ UNCHANGED <<registry, main, unavailable_polls, unanswered, verdict>>

-----------------------------------------------------------------------------
\* Everything else that happens to the registry.
Workers ==
  /\ \/ \E c \in Calls : Registry!Begin(c) \/ Registry!CallStep(c) \/ Registry!Interrupt(c)
     \/ Registry!Clear
  /\ UNCHANGED monitor

Environment ==
  /\ Registry!MasterChanges \/ Registry!RosShutdown
  /\ UNCHANGED monitor

Next ==
  /\ main # "exited"
  /\ Poll \/ Judge \/ LeaveLoop \/ Exit \/ RequestStop \/ Workers \/ Environment

Spec == Init /\ [][Next]_vars

\* The value main returns.
ExitCode == IF session_lost THEN 2 ELSE 0

-----------------------------------------------------------------------------
(* Properties.                                                             *)

\* The monitor gives up on a silent master only after kUnavailableExitPolls
\* polls in a row without an answer, and only once bound to a master.
PatientMonitor ==
  /\ verdict = "gone" => unanswered >= UnavailableExitPolls
  /\ verdict # "none" => master_generation # 0

-----------------------------------------------------------------------------
(* Liveness.  The threads of the process run; advertise() of roscpp        *)
(* returns while there is a master that answers; nothing is assumed of it  *)
(* when there is none.                                                     *)

Worker(c) == main # "exited" /\ Registry!CallStep(c) /\ UNCHANGED monitor

Fairness ==
  /\ WF_vars(main # "exited" /\ (Poll \/ Judge \/ LeaveLoop))
  /\ \A c \in Calls : /\ WF_vars(pc[c] # "advertise" /\ Worker(c))
                      /\ WF_vars(pc[c] = "advertise" /\ master # 0 /\ Worker(c))

FairSpec == Spec /\ Fairness

\* A process bound to a master that was replaced for good leaves its loop, so
\* that the Runtime can start a fresh one.
ChangedMasterEnds ==
  (master_generation # 0 /\ [](master \notin {0, master_generation}))
    ~> main # "loop"

\* A process whose master stays away, or is replaced, leaves its loop.
LostMasterEnds ==
  (master_generation # 0 /\ [](master # master_generation)) ~> main # "loop"
=============================================================================
