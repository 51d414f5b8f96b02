------------------------------- MODULE Commands -------------------------------
(***************************************************************************)
(* The three commands of the package that run to an end by themselves: the *)
(* bag recorder, the clock wait and the probe.  They share no state, so    *)
(* one of them is chosen at the start and the others stay where they are.  *)
(***************************************************************************)
EXTENDS RecorderCommand, ClockTarget

CONSTANTS
  \* of the clock wait
  Texts, Stamps, MaxSamples,
  \* of the probe
  Options, Messages, Listings, Processes, MasterPid, MaxTimeout, MaxSources,
  MaxProbeTopics, MaxMessages

\* A text is a row of characters, and a stamp has two unsigned fields.
ASSUME TextsAssumption ==
  /\ Texts \subseteq Seq(Nat)
  /\ \A m \in Stamps : m.sec \in Nat /\ m.nsec \in Nat
  /\ MaxSamples \in Nat
ASSUME ProbeAssumption ==
  /\ MasterPid \in Nat \ {0} /\ Processes \subseteq Nat \ {0}
  /\ {MaxTimeout, MaxSources, MaxProbeTopics, MaxMessages} \subseteq Nat

\* A request and a listing name finitely many topics, each the sequence of its
\* parts, and an entry of a listing is a topic with its type.
ASSUME NamesAssumption ==
  /\ \A o \in Options :
       /\ IsFiniteSet(UNION {{n.parts : n \in o.sources[i].topics} : i \in DOMAIN o.sources})
       /\ \A i \in DOMAIN o.sources : \A n \in o.sources[i].roots : n.parts \in Seq(STRING)
  /\ \A l \in Listings :
       /\ IsFiniteSet({e.topic : e \in l})
       /\ \A e \in l : e = [topic |-> e.topic, type |-> e.type] /\ e.topic \in Seq(STRING)

VARIABLES
  command,    \* "recorder", "clock-wait" or "probe", or "none" of them
  \* of the clock wait
  text, wait_at, target, previous, reached, wait_failure, publishers, connected,
  wait_expired, stop_requested, wait_ok, stamps, wait_exit,
  \* of the probe
  options, at, query, reply, pid, topics, samples, received, failure, result,
  probe_exit, node_process, expired, stopped, ros_ok, heard

Waiting == INSTANCE ClockWait WITH
  pc <- wait_at, failure <- wait_failure, expired <- wait_expired,
  ros_ok <- wait_ok, samples <- stamps, exit <- wait_exit

Probing == INSTANCE Probe WITH
  exit <- probe_exit, MaxTopics <- MaxProbeTopics

wait_vars == <<text, wait_at, target, previous, reached, wait_failure, publishers,
               connected, wait_expired, stop_requested, wait_ok, stamps, wait_exit>>
probe_vars == <<options, at, query, reply, pid, topics, samples, received, failure,
                result, probe_exit, node_process, expired, stopped, ros_ok, heard>>
all_vars == <<command, command_vars, wait_vars, probe_vars>>

Some(S) == CHOOSE x \in S : TRUE

\* A command that is not run has one input, and its other variables are
\* as they are when it starts.
CommandsInit ==
  /\ command \in {"recorder", "clock-wait", "probe", "none"}
  /\ IF command = "recorder" THEN TRUE
     ELSE argv = "other" /\ document = Some(Documents) /\ free = Some(FreeSpace)
  /\ IF command = "clock-wait" THEN TRUE ELSE text = Some(Texts)
  /\ IF command = "probe" THEN TRUE ELSE options = Some(Options) /\ node_process = 0
  /\ CommandInit /\ Waiting!Init /\ Probing!Init

RunRecorder ==
  command = "recorder" /\ CommandNext /\ UNCHANGED <<command, wait_vars, probe_vars>>
RunWait ==
  command = "clock-wait" /\ Waiting!Next /\ UNCHANGED <<command, command_vars, probe_vars>>
RunProbe ==
  command = "probe" /\ Probing!Next /\ UNCHANGED <<command, command_vars, wait_vars>>

CommandsNext == RunRecorder \/ RunWait \/ RunProbe

\* The command that was chosen runs on: standard input ends, the steady clock
\* reaches the deadline, and a native recorder that was told to stop exits.
\* No master need ever answer; a registration that ROS is shut down in returns.
CommandsFairness ==
  /\ WF_command_vars(command = "recorder" /\ CommandMain)
  /\ WF_command_vars(command = "recorder" /\ StoppedChildExits)
  /\ WF_wait_vars(command = "clock-wait" /\ Waiting!Work)
  /\ WF_wait_vars(command = "clock-wait" /\ Waiting!Register /\ ~wait_ok)
  /\ WF_wait_vars(command = "clock-wait" /\ Waiting!DeadlinePasses)
  /\ WF_probe_vars(command = "probe" /\ Probing!Work)
  /\ WF_probe_vars(command = "probe" /\ Probing!Subscribe /\ ~ros_ok)
  /\ WF_probe_vars(command = "probe" /\ Probing!DeadlinePasses)

CommandsSpec == CommandsInit /\ [][CommandsNext]_all_vars /\ CommandsFairness

-----------------------------------------------------------------------------
(* Properties, of the clock wait and of the probe.                         *)

\* clockTarget takes exactly the decimals ROS time can hold and rounds them up
\* to the next nanosecond; the clock wait succeeds at the first sample that is
\* not before the target as it was written, on a clock that never went back.
ClockWaitExact == Waiting!TargetExact /\ Waiting!SuccessIsReal

\* Success of the probe is evidence from before the deadline and the first
\* signal, of the right process, type and content.
ProbeTruthful == Probing!ProbeTruthful

\* Every source of a pose snapshot gets the first usable pose of each of its
\* topics and nothing else; one is left out only at the deadline.
SnapshotExact == Probing!SnapshotExact

\* Both end, whether or not anybody publishes or answers, unless roscpp waits
\* for a master for ever: that is the one place where neither the deadline nor
\* a signal ends them, and only the modes that subscribe get there.
CommandsEnd ==
  /\ command = "clock-wait" =>
       \/ <>(wait_at = "exit")
       \/ <>[](wait_at \in {"start", "subscribe"} /\ wait_ok)
  /\ command = "probe" =>
       \/ <>(at = "exit")
       \/ <>[](/\ at = "subscribe" /\ ros_ok
              /\ options.mode \in {"message", "mavros-connected", "pose-snapshot"})

\* "[...] wall-clock timeout fails the command.  Process cancellation stops the
\* subscription" (README.md): a clock wait whose deadline has passed, or that
\* was told to stop, ends.
TimeoutAndCancellationEnd ==
  command = "clock-wait" /\ (wait_expired \/ stop_requested) ~> wait_at = "exit"
=============================================================================
