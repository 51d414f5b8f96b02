---------------------------- MODULE CommandsProofs ----------------------------
(***************************************************************************)
(* Proofs about the recorder and the probe, for every set of requests,     *)
(* options and messages.  The commands share no variable, so a step of one *)
(* is no step of the others.                                               *)
(***************************************************************************)
EXTENDS Commands, FiniteSetTheorems, TLAPS

\* Every step of the commands is one of each of them, or leaves it alone.
LEMMA StepsApart ==
  ASSUME [CommandsNext]_all_vars
  PROVE  /\ [CommandNext]_command_vars
         /\ [Probing!Next]_probe_vars
<1>1. CASE RunRecorder
  BY <1>1, Zenon DEF RunRecorder
<1>2. CASE RunWait
  BY <1>2, Zenon DEF RunWait
<1>3. CASE RunProbe
  BY <1>3, Zenon DEF RunProbe
<1>4. CASE UNCHANGED all_vars
  BY <1>4, Zenon DEF all_vars
<1>5. QED
  BY <1>1, <1>2, <1>3, <1>4, Zenon DEF CommandsNext

-----------------------------------------------------------------------------
(* What the recorder says of the end.                                      *)

Before == {"entry", "arguments", "space", "launch", "handlers", "popen"}
InLoop == {"catch-up", "poll", "capacity", "limit", "wait"}

\* StatusTruthful with what the main thread knows on the way there: a status
\* of the end is written only behind the loop, which is entered with a child;
\* an exit code of zero is the child's; and a signal that has been noted stays
\* noted, so that Finish finds none only if NoteEnd found none.
RecorderInv ==
  /\ manifest = [status |-> manifest.status, signal |-> manifest.signal,
                 code |-> manifest.code]
  /\ Ended => pc \in {"finalize", "exit", "exited"}
  /\ pc \in Before => child = "none"
  /\ pc \in InLoop => child \in {"running", "exited"}
  /\ exit_code = 0 => child = "exited" /\ returncode = 0
  /\ pc = "status" =>
       /\ manifest.code = exit_code
       /\ forwarded_signal = NoSignal => manifest.signal = NoSignal
  /\ pc = "limit" => full
  /\ capacity_limit_reached => forwarded_signal # NoSignal
  /\ StatusTruthful

\* RecorderInv holds at every step.
LEMMA RecorderStep ==
  ASSUME RecorderInv, [CommandNext]_command_vars
  PROVE  RecorderInv'
<1> USE SignalsAssumption, FailureCodeAssumption 
       DEF NoSignal, Before, InLoop, Goto, childVars, signalVars, endVars
<1>1. CASE Entry \/ CheckArguments \/ CheckSpace
  <2>1. /\ pc \in {"entry", "arguments", "space"}
        /\ pc' \in {"exited", "arguments", "space", "launch"}
        /\ UNCHANGED <<childVars, signalVars, full, exit_code, raised, manifest>>
    BY <1>1, Zenon DEF Entry, CheckArguments, CheckSpace, Refuse, Continue, Aside
  <2>2. QED
    BY <2>1, Zenon DEF RecorderInv, StatusTruthful, Ended
<1>2. CASE Main
  <2>1. CASE WriteRecording
    BY <2>1, Zenon DEF WriteRecording, RecorderInv, StatusTruthful, Ended
  <2>2. CASE InstallHandlers
    BY <2>2, Zenon DEF InstallHandlers, RecorderInv, StatusTruthful, Ended
  <2>3. CASE StartChild
    BY <2>3, Zenon DEF StartChild, RecorderInv, StatusTruthful, Ended
  <2>4. CASE CatchUp
    BY <2>4, Zenon DEF CatchUp, Send, RecorderInv, StatusTruthful, Ended
  <2>5. CASE Poll
    BY <2>5, Zenon DEF Poll, RecorderInv, StatusTruthful, Ended
  <2>6. CASE CheckCapacity
    BY <2>6, Zenon DEF CheckCapacity, RecorderInv, StatusTruthful, Ended
  <2>7. CASE StopForCapacity
    BY <2>7, Zenon DEF StopForCapacity, Send, RecorderInv, StatusTruthful, Ended
  <2>8. CASE Wait
    BY <2>8, Zenon DEF Wait, RecorderInv, StatusTruthful, Ended
  <2>9. CASE NoteEnd
    BY <2>9, Zenon DEF NoteEnd, RecorderInv, StatusTruthful, Ended
  <2>10. CASE Finish
    BY <2>10, Zenon DEF Finish, Status, RecorderInv, StatusTruthful, Ended
  <2>11. CASE FinalizeFiles
    BY <2>11, Zenon DEF FinalizeFiles, RecorderInv, StatusTruthful, Ended
  <2>12. CASE Leave
    BY <2>12, Zenon DEF Leave, RecorderInv, StatusTruthful, Ended
  <2>13. QED
    BY <1>2, <2>1, <2>2, <2>3, <2>4, <2>5, <2>6, <2>7, <2>8, <2>9, <2>10, <2>11,
       <2>12, Zenon DEF Main
<1>3. CASE LoopRaises
  BY <1>3, Zenon DEF LoopRaises, RecorderInv, StatusTruthful, Ended
<1>4. CASE Killed
  BY <1>4, Zenon DEF Killed, Unhandled, RecorderInv, StatusTruthful, Ended
<1>5. CASE forward
  BY <1>5 DEF forward, Send, RecorderInv, StatusTruthful, Ended
<1>6. CASE ChildExits
  BY <1>6, Zenon DEF ChildExits, RecorderInv, StatusTruthful, Ended
<1>7. CASE LimitReached
  BY <1>7, Zenon DEF LimitReached, RecorderInv, StatusTruthful, Ended
<1>8. CASE UNCHANGED command_vars
  BY <1>8, Zenon DEF command_vars, vars, RecorderInv, StatusTruthful, Ended
<1>9. QED
  BY <1>1, <1>2, <1>3, <1>4, <1>5, <1>6, <1>7, <1>8, Zenon DEF CommandNext, Record, Next

\* What the manifest says of the end of a recording is what happened, wherever
\* signals, the exit of the native recorder, its limit and an exception fall
\* between the steps of rosbag_recorder.py.
THEOREM RecorderIsTruthful == CommandsSpec => []StatusTruthful
<1>1. CommandsInit => RecorderInv
  BY DEF CommandsInit, CommandInit, InitAt, RecorderInv, StatusTruthful, Ended, Before, InLoop,
         NoSignal
<1>2. RecorderInv /\ [CommandsNext]_all_vars => RecorderInv'
  BY StepsApart, RecorderStep, Zenon
<1>3. RecorderInv => StatusTruthful
  BY Zenon DEF RecorderInv
<1>4. QED
  BY <1>1, <1>2, <1>3, PTL DEF CommandsSpec

-----------------------------------------------------------------------------
(* The two halves of the recorder.                                         *)

\* The fields normalize_parameters gives a default, and those it leaves alone.
LEMMA DefaultsGiven ==
  ASSUME NEW d \in Documents
  PROVE  LET p == d.parameters
             q == withDefaults(p)
         IN /\ q.globalTopics = IF p.globalGiven THEN p.globalTopics ELSE DefaultTopics
            /\ q.cameras = p.cameras /\ q.slotIds = p.slotIds
            /\ q.robotTopics = p.robotTopics
            /\ q.includeMotionCapture = p.includeMotionCapture
            /\ q.recordAllTopics = p.recordAllTopics
            /\ q.excludedTopics = p.excludedTopics
  BY DocumentsAssumption DEF withDefaults

\* What prepare lets pass, the checks of the recording half take.
LEMMA PreparedIsTrusted ==
  ASSUME NEW d \in Documents, canPrepare(d, FALSE)
  PROVE  trusted(record_arguments(d))
<1> DEFINE p == withDefaults(d.parameters)
           a == record_arguments(d)
           resolved == resolvedTopics(d, p)
<1>1. /\ validParameters(p, FALSE)
      /\ canResolve(d, p)
  BY Zenon DEF canPrepare
<1>2. /\ a.topics = resolved /\ a.numbers = p.numbers /\ a.compression = p.compression
      /\ a.profile = p.recordingProfile /\ a.excluded = excludedNames(p)
      /\ a.estimated = estimatedBytes(p.numbers)
      /\ a.limit = IF Scientific(p) THEN ScientificLimit ELSE 0
  BY Zenon DEF record_arguments
<1>3. /\ excludedNames(p) \cap resolved = {}
      /\ Cardinality(resolved) \in 1 .. MaxTopics
      /\ \A t \in resolved : t # <<>>
  BY <1>1, Zenon DEF canResolve, validNames, validName
<1>4. /\ p.recordingProfile \in {"general", "camera_scientific"}
      /\ p.compression \in {"none", "lz4", "bz2"}
      /\ \A n \in NumberNames : p.numbers[n] \in Low[n] .. High[n]
      /\ Scientific(p) \/ estimatedBytes(p.numbers) <= plannedCapacity(p.numbers)
  BY <1>1, Zenon DEF validParameters
<1> HIDE DEF p, a, resolved
<1>5. resolved # {}
  <2>1. Cardinality(resolved) # 0
    BY <1>3, LimitsAssumption
  <2>2. QED
    BY <2>1, FS_EmptySet, Zenon
<1>6. \A n \in NumberNames : p.numbers[n] >= Low[n]
  BY <1>4, LimitsAssumption
<1>7. p.recordingProfile = "camera_scientific" => a.limit >= Low["splitSizeMiB"]
  BY <1>2, LimitsAssumption, Zenon DEF Scientific
<1>8. p.recordingProfile = "general" => a.estimated <= plannedCapacity(a.numbers)
  BY <1>2, <1>4, Zenon DEF Scientific
<1>9. trusted(a)
  BY <1>2, <1>3, <1>4, <1>5, <1>6, <1>7, <1>8, Zenon DEF trusted
<1>10. QED
  BY <1>9, Zenon DEF a

\* A request gets past the entry only if prepare let it pass, and stays what
\* it was until the native recorder is started.
Accepted == {"arguments", "space", "launch", "handlers", "popen"}
RequestInv ==
  /\ refusal # "trusted"
  /\ pc = "entry" => document \in Documents
  /\ pc \in Accepted => document \in Documents /\ canPrepare(document, FALSE)

\* RequestInv holds at every step.
LEMMA RequestStep ==
  ASSUME RequestInv, [CommandNext]_command_vars
  PROVE  RequestInv'
<1>1. CASE Entry
  <2>1. /\ pc = "entry" /\ document' = document
        /\ \/ pc' = "exited" /\ refusal' \in {refusal, "request", "usage"}
           \/ pc' = "arguments" /\ canPrepare(document, FALSE) /\ refusal' = refusal
    BY <1>1, Zenon DEF Entry, Refuse, Continue, Goto, Aside
  <2>2. canPrepare(document, FALSE)' = canPrepare(document', FALSE)
    BY Zenon
  <2>3. QED
    BY <2>1, <2>2, Zenon DEF RequestInv, Accepted
<1>2. CASE CheckArguments
  <2>1. /\ pc = "arguments" /\ document' = document
        /\ pc' \in {"exited", "space"}
        /\ \/ refusal' \in {refusal, "path", "pattern", "identity"}
           \/ ~trusted(record_arguments(document))
    BY <1>2, Zenon DEF CheckArguments, Arguments, Refuse, Continue, Goto, Aside
  <2>2. trusted(record_arguments(document))
    BY <2>1, PreparedIsTrusted, Zenon DEF RequestInv, Accepted
  <2>3. QED
    BY <2>1, <2>2, Zenon DEF RequestInv, Accepted
<1>3. CASE CheckSpace
  <2>1. /\ pc = "space" /\ document' = document
        /\ pc' \in {"exited", "launch"}
        /\ refusal' \in {refusal, "finalized", "exists", "space"}
    BY <1>3, Zenon DEF CheckSpace, Refuse, Continue, Goto, Aside
  <2>2. QED
    BY <2>1, Zenon DEF RequestInv, Accepted
<1>4. CASE Record
  <2>1. /\ refusal' = refusal
        /\ document' = document \/ (pc = "popen" /\ pc' # pc)
    BY <1>4, Zenon DEF Record, KeepRequest
  <2>2. /\ pc' # "entry" \/ pc = "entry"
        /\ pc' \in Accepted => pc \in Accepted /\ (pc = "popen" => pc' = pc)
    BY <1>4, Zenon
       DEF Record, Next, Main, WriteRecording, InstallHandlers, StartChild, CatchUp, Poll,
       CheckCapacity, StopForCapacity, Wait, NoteEnd, Finish, FinalizeFiles, Leave,
       LoopRaises, Killed, forward, ChildExits, LimitReached, Goto, Accepted
  <2>3. pc = "entry" /\ pc' = "entry" => document' = document
    BY <2>1, Zenon
  <2>4. QED
    BY <2>1, <2>2, <2>3, Zenon DEF RequestInv
<1>5. CASE UNCHANGED command_vars
  BY <1>5, Zenon DEF command_vars, vars, request_vars, RequestInv
<1>6. QED
  BY <1>1, <1>2, <1>3, <1>4, <1>5, Zenon DEF CommandNext

\* RequestInv is invariant.
LEMMA RequestHolds == CommandsSpec => []RequestInv
<1>1. CommandsInit => RequestInv
  BY Zenon DEF CommandsInit, CommandInit, InitAt, RequestInv, Accepted
<1>2. RequestInv /\ [CommandsNext]_all_vars => RequestInv'
  BY StepsApart, RequestStep, Zenon
<1>3. QED
  BY <1>1, <1>2, PTL DEF CommandsSpec

\* The two halves of rosbag_recorder.py agree: whatever the request, what
\* prepare and record_arguments let pass is never refused by the trusted checks
\* of the recording half.
THEOREM HalvesAgree == CommandsSpec => []TrustedAccepts
<1>1. RequestInv => TrustedAccepts
  BY Zenon DEF RequestInv, TrustedAccepts
<1>2. QED
  BY <1>1, RequestHolds, PTL

\* The topics resolve_recording_topics puts on the command line are those that
\* the document names.
LEMMA ResolvedIsAsked ==
  ASSUME document \in Documents, NEW topic
  PROVE  topic \in Arguments.topics <=> Asked(topic)
<1> DEFINE p == document.parameters
           q == withDefaults(p)
           cameraTopic(i, t) == q.cameras[i].root \o t
           robotTopic(r, t) == r.namespace \o t
           selects(i) == Selects(q, document.robots, i)
           measures(r) == measurement(r, document.runMode, document.simulator)
<1>1. /\ q.globalTopics = IF p.globalGiven THEN p.globalTopics ELSE DefaultTopics
      /\ q.cameras = p.cameras /\ q.slotIds = p.slotIds
      /\ q.robotTopics = p.robotTopics
      /\ q.includeMotionCapture = p.includeMotionCapture
  BY DefaultsGiven, Zenon
<1>2. Arguments.topics = resolvedTopics(document, q)
  BY Zenon DEF Arguments, record_arguments
<1> HIDE DEF q
<1>3. Asked(topic) <=>
        \/ topic \in q.globalTopics
        \/ \E i \in DOMAIN q.cameras : \E t \in q.cameras[i].topics : topic = cameraTopic(i, t)
        \/ \E i \in DOMAIN document.robots :
             /\ selects(i)
             /\ \/ \E t \in q.robotTopics : topic = robotTopic(document.robots[i], t)
                \/ /\ q.includeMotionCapture /\ Measured(document.robots[i])
                   /\ topic \in measures(document.robots[i])
  BY <1>1, Zenon DEF Asked, Selects
<1>4. topic \in cameraTopics(q) <=>
        \E i \in DOMAIN q.cameras : \E t \in q.cameras[i].topics : topic = cameraTopic(i, t)
  <2>1. cameraTopics(q) =
          UNION {{cameraTopic(i, t) : t \in q.cameras[i].topics} : i \in DOMAIN q.cameras}
    BY Zenon DEF cameraTopics
  <2> HIDE DEF cameraTopic
  <2>2. QED
    BY <2>1
<1>5. topic \in namespacedTopics(document, q) <=>
        \E i \in DOMAIN document.robots :
          selects(i) /\ \E t \in q.robotTopics : topic = robotTopic(document.robots[i], t)
  <2>1. namespacedTopics(document, q) =
          UNION {{robotTopic(r, t) : t \in q.robotTopics} : r \in selectedRobots(q, document.robots)}
    BY Zenon DEF namespacedTopics
  <2> HIDE DEF robotTopic
  <2>2. QED
    BY <2>1 DEF selectedRobots
<1>6. topic \in measuredTopics(document, q) <=>
        \E i \in DOMAIN document.robots :
          /\ selects(i) /\ Measured(document.robots[i])
          /\ topic \in measures(document.robots[i])
  BY Zenon DEF measuredTopics, selectedRobots
<1> HIDE DEF cameraTopic, robotTopic, selects, measures
<1>7. topic \in Arguments.topics <=>
        \/ topic \in q.globalTopics \/ topic \in cameraTopics(q)
        \/ topic \in namespacedTopics(document, q)
        \/ q.includeMotionCapture /\ topic \in measuredTopics(document, q)
  BY <1>2, Zenon DEF resolvedTopics
<1>8. QED
  BY <1>3, <1>4, <1>5, <1>6, <1>7, Zenon

\* The native recorder is told to record what the document asks for: for every
\* request and for every topic but the root of the display copies.
THEOREM RecorderDoesAsAsked == CommandsSpec => []RecordsAsAsked
<1>1. ASSUME RequestInv PROVE RecordsAsAsked
  <2> SUFFICES ASSUME pc = "popen"
               PROVE  LET p == document.parameters
                          excluded == {p.excludedTopics[i].topic : i \in DOMAIN p.excludedTopics}
                      IN /\ \A t \in excluded : ~Asked(t)
                         /\ \A t : t # Display =>
                              (Records(Arguments, t) <=>
                                 \/ Asked(t)
                                 \/ p.recordAllTopics /\ t \notin excluded /\ ~Under(Display, t))
    BY Zenon DEF RecordsAsAsked
  <2> DEFINE p == document.parameters
             excluded == {p.excludedTopics[i].topic : i \in DOMAIN p.excludedTopics}
  <2>1. document \in Documents /\ canPrepare(document, FALSE)
    BY <1>1, Zenon DEF RequestInv, Accepted
  <2>2. /\ Arguments.excluded = excluded
        /\ Arguments.all = p.recordAllTopics
        /\ Arguments.topics = resolvedTopics(document, withDefaults(p))
    BY <2>1, DefaultsGiven, Zenon DEF Arguments, record_arguments, excludedNames
  <2>3. excluded \cap Arguments.topics = {}
    <3>1. trusted(Arguments)
      BY <2>1, PreparedIsTrusted, Zenon DEF Arguments
    <3>2. QED
      BY <2>2, <3>1, Zenon DEF trusted
  <2>4. \A t : t \in Arguments.topics <=> Asked(t)
    BY <2>1, ResolvedIsAsked, Zenon
  <2> HIDE DEF p, excluded
  <2>5. \A t \in excluded : ~Asked(t)
    BY <2>3, <2>4, Zenon
  <2>6. ASSUME NEW t, t # Display
        PROVE  Records(Arguments, t) <=>
                 \/ Asked(t)
                 \/ p.recordAllTopics /\ t \notin excluded /\ ~Under(Display, t)
    <3>1. Records(Arguments, t) <=>
            IF p.recordAllTopics
            THEN t \notin excluded /\ (Under(Display, t) => t \in explicitCopies(Arguments))
            ELSE t \in Arguments.topics
      BY <2>2, Zenon DEF Records, exclusionPattern
    <3>2. t \in explicitCopies(Arguments) <=> t \in Arguments.topics /\ Under(Display, t)
      BY <2>6, Zenon DEF explicitCopies, Below
    <3>3. QED
      BY <3>1, <3>2, <2>4, <2>5, Zenon
  <2>7. QED
    BY <2>5, <2>6, Zenon DEF p, excluded
<1>2. QED
  BY <1>1, RequestHolds, PTL

-----------------------------------------------------------------------------
(* What success of the probe is evidence of.                               *)

Asking == {"master", "node", "topic"}
Hearing == {"message", "mavros-connected"}

\* Where main() can be in which mode.
ModeInv ==
  /\ at = "call" => options.mode \in Asking \cup {"pose-snapshot"}
  /\ at \in {"read", "select", "collect"} => options.mode = "pose-snapshot"
  /\ at = "listen" => options.mode \in Hearing
  /\ at \in {"subscribe", "turn"} => options.mode \in Hearing \cup {"pose-snapshot"}
  /\ at \in {"verify", "connect"} => options.mode \in Asking \cup Hearing
  /\ probe_exit = 0 => at = "exit"

\* Who is asked what, and what an answer is worth: a deadline or a signal that
\* was there when it came is still there.
CallInv ==
  /\ node_process \in Processes \cup {0}
  /\ reply.late => Probing!Late
  /\ at = "call" =>
       /\ options.mode = "master" => query.method = "getPid" /\ query.peer = 0
       /\ options.mode = "node" =>
            \/ query.method = "lookupNode"
            \/ query.method = "getPid" /\ query.peer \in Processes
       /\ options.mode = "topic" =>
            query.method \in {"lookupNode", "requestTopic", "getSystemState"}
       /\ options.mode = "pose-snapshot" => query.method = "getPublishedTopics"
       /\ reply.state = "answer" =>
            /\ query.method = "lookupNode" => reply.value \in Processes
            /\ query.method = "getPid" =>
                 IF query.peer = 0 THEN reply.value \in {MasterPid, 0}
                                   ELSE reply.value = query.peer

\* The first message of the node is what received and failure are about.
Decides(i) ==
  LET m == heard[i].message IN
  /\ Probing!FromNode(m)
  /\ options.expected \in {"", m.type}
  /\ options.mode = "mavros-connected" => m.type = Probing!State /\ m.good
  /\ \A j \in 1 .. i - 1 : ~Probing!FromNode(heard[j].message)

HeardInv ==
  /\ heard \in Seq([message : Messages, late : BOOLEAN])
  /\ options.mode # "pose-snapshot" =>
       /\ received => \E i \in DOMAIN heard : Decides(i) /\ (heard[i].late => Probing!Late)
       /\ ~received /\ ~failure =>
            \A j \in DOMAIN heard : ~Probing!FromNode(heard[j].message)

\* What is known from the moment main() stops waiting for its evidence.
Evidence ==
  /\ options.mode \in Asking => reply.state = "answer" /\ ~reply.late
  /\ options.mode = "master" => pid = MasterPid
  /\ options.mode = "node" => pid = query.peer /\ pid \in Processes
  /\ options.mode \in Hearing => \E i \in DOMAIN heard : Decides(i) /\ ~heard[i].late

EvidenceInv == at \in {"verify", "connect"} \/ probe_exit = 0 => Evidence

ProbeInv == ModeInv /\ CallInv /\ HeardInv /\ EvidenceInv

\* What heard is about stays as long as heard and the options do.
LEMMA HeardKept ==
  ASSUME HeardInv, UNCHANGED <<options, heard, received, failure>>,
         Probing!Late => Probing!Late'
  PROVE  HeardInv'
<1>1. \A i : Decides(i)' <=> Decides(i)
  BY Zenon DEF Decides, Probing!FromNode
<1>2. QED
  BY <1>1, Zenon DEF HeardInv, Probing!FromNode

\* Evidence, once there, stays.
LEMMA EvidenceKept ==
  ASSUME EvidenceInv, UNCHANGED <<options, heard, pid, query, reply>>,
         at' \in {"verify", "connect"} \/ probe_exit' = 0 =>
           at \in {"verify", "connect"} \/ probe_exit = 0
  PROVE  EvidenceInv'
<1>1. \A i : Decides(i)' <=> Decides(i)
  BY Zenon DEF Decides, Probing!FromNode
<1>2. QED
  BY <1>1, Zenon DEF EvidenceInv, Evidence

\* The steps of main(): where they lead, and whom they ask.
LEMMA ProbeMainControl ==
  ASSUME ModeInv, CallInv, Probing!Main
  PROVE  ModeInv' /\ CallInv'
<1> USE ProbeAssumption
    DEF Probing!Goto, Probing!Return, Probing!Throw, Probing!Idle, Probing!Quiet, Probing!Ask,
        Probing!surroundings, Probing!found, Probing!NoReply, Probing!Late, Asking, Hearing
<1>1. CASE Probing!Parse
  BY <1>1, Zenon DEF Probing!Parse, ModeInv, CallInv
<1>2. CASE Probing!Branch
  BY <1>2 DEF Probing!Branch, ModeInv, CallInv
<1>3. CASE Probing!AwaitReply
  <2>1. /\ at = "call" /\ UNCHANGED <<options, node_process, stopped, expired>>
        /\ \/ at' = "exit" /\ probe_exit' # 0 /\ UNCHANGED <<query, reply>>
           \/ /\ at' = "verify" /\ query.method # "getPublishedTopics"
              /\ UNCHANGED <<query, reply, probe_exit>>
           \/ /\ at' = "select" /\ query.method = "getPublishedTopics"
              /\ UNCHANGED <<query, reply, probe_exit>>
           \/ /\ at' = "call" /\ UNCHANGED probe_exit
              /\ query.method = "lookupNode" /\ reply.state = "answer"
              /\ query' = [method |-> IF options.mode = "node" THEN "getPid" ELSE "requestTopic",
                           peer |-> reply.value]
              /\ reply' = Probing!NoReply
    BY <1>3 DEF Probing!AwaitReply, Probing!Answered
  <2>2. QED
    BY <2>1, SMTT(20) DEF ModeInv, CallInv
<1>4. CASE Probing!readSnapshotRequest
  BY <1>4, SMTT(20) DEF Probing!readSnapshotRequest, ModeInv, CallInv
<1>5. CASE Probing!SelectTopics
  BY <1>5, Zenon DEF Probing!SelectTopics, ModeInv, CallInv
<1>6. CASE Probing!Subscribe
  BY <1>6, Zenon DEF Probing!Subscribe, ModeInv, CallInv
<1>7. CASE Probing!Collect
  BY <1>7, Zenon DEF Probing!Collect, ModeInv, CallInv
<1>8. CASE Probing!Listen
  BY <1>8, Zenon DEF Probing!Listen, ModeInv, CallInv
<1>9. CASE Probing!TurnEnds
  BY <1>9, Zenon DEF Probing!TurnEnds, ModeInv, CallInv
<1>10. CASE Probing!verifyTCP
  BY <1>10, Zenon DEF Probing!verifyTCP, ModeInv, CallInv
<1>11. CASE Probing!Connect
  BY <1>11, Zenon DEF Probing!Connect, ModeInv, CallInv
<1>12. QED
  BY <1>1, <1>2, <1>3, <1>4, <1>5, <1>6, <1>7, <1>8, <1>9, <1>10, <1>11, Zenon DEF Probing!Main, Probing!Work

\* The two places where the evidence comes in.
LEMMA EvidenceFound ==
  ASSUME ProbeInv, Probing!Main
  PROVE  EvidenceInv'
<1> USE DEF Probing!Goto, Probing!Return, Probing!Throw, Probing!Idle, Probing!Quiet, Probing!Ask,
        Probing!surroundings, Probing!found, Probing!Late
<1>1. CASE Probing!AwaitReply
  <2>1. /\ at = "call" /\ UNCHANGED <<options, heard>>
        /\ \/ at' \notin {"verify", "connect"} /\ probe_exit' # 0
           \/ /\ UNCHANGED <<query, reply>> /\ ~Probing!Late
              /\ reply.state = "answer"
              /\ query.method = "getPid" => pid' = reply.value /\ reply.value > 0
              /\ query.method \in {"getPid", "requestTopic", "getSystemState"}
    BY <1>1 DEF Probing!AwaitReply, Probing!Answered, ProbeInv, ModeInv
  <2>2. CASE at' \notin {"verify", "connect"} /\ probe_exit' # 0
    BY <2>2, Zenon DEF EvidenceInv
  <2>3. CASE ~(at' \notin {"verify", "connect"} /\ probe_exit' # 0)
    <3>1. /\ UNCHANGED <<options, query, reply>> /\ ~Probing!Late
          /\ reply.state = "answer"
          /\ query.method = "getPid" => pid' = reply.value /\ reply.value > 0
          /\ query.method \in {"getPid", "requestTopic", "getSystemState"}
      BY <2>1, <2>3, Zenon
    <3>2. options.mode \notin Hearing
      BY <2>1, Zenon DEF ProbeInv, ModeInv, Asking, Hearing
    <3>3. reply.state = "answer" /\ ~reply.late
      BY <3>1, Zenon DEF ProbeInv, CallInv
    <3>4. options.mode = "master" => pid' = MasterPid
      BY <2>1, <3>1 DEF ProbeInv, CallInv
    <3>5. options.mode = "node" => pid' = query.peer /\ pid' \in Processes
      BY <2>1, <3>1, ProbeAssumption, Zenon DEF ProbeInv, CallInv
    <3>6. QED
      BY <3>1, <3>2, <3>3, <3>4, <3>5, Zenon DEF EvidenceInv, Evidence
  <2>4. QED
    BY <2>2, <2>3, Zenon
<1>2. CASE Probing!Listen
  <2>1. CASE at' # "verify"
    BY <1>2, <2>1, EvidenceKept DEF Probing!Listen, ProbeInv, ModeInv
  <2>2. CASE at' = "verify"
    <3>1. /\ at = "listen" /\ received /\ ~Probing!Late
          /\ UNCHANGED <<options, heard, pid, query, reply>>
      BY <1>2, <2>2, Zenon DEF Probing!Listen
    <3>2. options.mode \in Hearing
      BY <3>1, Zenon DEF ProbeInv, ModeInv
    <3>3. \E i \in DOMAIN heard : Decides(i) /\ ~heard[i].late
      BY <3>1, <3>2, Zenon DEF ProbeInv, HeardInv, Hearing
    <3>4. \A i : Decides(i)' <=> Decides(i)
      BY <3>1, Zenon DEF Decides, Probing!FromNode
    <3>5. Evidence'
      BY <3>1, <3>2, <3>3, <3>4, Zenon DEF Evidence, Hearing, Asking
    <3>6. QED
      BY <3>5, Zenon DEF EvidenceInv
  <2>3. QED
    BY <2>1, <2>2, Zenon
<1>3. CASE Probing!verifyTCP \/ Probing!Connect
  BY <1>3, EvidenceKept, Zenon DEF Probing!verifyTCP, Probing!Connect, ProbeInv
<1>4. CASE Probing!Collect
  <2>1. at = "collect" /\ at' \notin {"verify", "connect"} /\ options' = options
    BY <1>4, Zenon DEF Probing!Collect
  <2>2. options.mode = "pose-snapshot"
    BY <2>1, Zenon DEF ProbeInv, ModeInv
  <2>3. QED
    BY <2>1, <2>2, Zenon DEF EvidenceInv, Evidence, Asking, Hearing
<1>5. CASE \/ Probing!Parse \/ Probing!Branch \/ Probing!readSnapshotRequest
           \/ Probing!SelectTopics \/ Probing!Subscribe \/ Probing!TurnEnds
  <2>1. at \notin {"verify", "connect", "exit"} /\ at' \notin {"verify", "connect"}
        /\ (probe_exit' = probe_exit \/ probe_exit' # 0)
    BY <1>5, SMTT(40) DEF Probing!Parse, Probing!Branch, Probing!readSnapshotRequest,
       Probing!SelectTopics, Probing!Subscribe, Probing!TurnEnds
  <2>2. QED
    BY <2>1, Zenon DEF ProbeInv, ModeInv, EvidenceInv
<1>6. QED
  BY <1>1, <1>2, <1>3, <1>4, <1>5, Zenon DEF Probing!Main, Probing!Work

\* What appending does to the length, the domain and the elements of a sequence.
LEMMA AppendedAt ==
  ASSUME NEW S, NEW q \in Seq(S), NEW e \in S
  PROVE  /\ Append(q, e) \in Seq(S) /\ Len(q) \in Nat /\ Len(Append(q, e)) = Len(q) + 1
         /\ DOMAIN q = 1 .. Len(q) /\ DOMAIN Append(q, e) = 1 .. Len(q) + 1
         /\ Append(q, e)[Len(q) + 1] = e
         /\ \A i \in DOMAIN q : Append(q, e)[i] = q[i]
OBVIOUS

\* A callback: the message that is heard now comes behind all the others.
LEMMA HeardDelivered ==
  ASSUME HeardInv, NEW m \in Messages, Probing!Deliver(m)
  PROVE  HeardInv'
<1>0. PICK n : n = Len(heard) + 1
  BY Zenon
<1> DEFINE e == [message |-> m, late |-> Probing!Late]
           S == [message : Messages, late : BOOLEAN]
<1>1. /\ heard' = Append(heard, e)
      /\ UNCHANGED <<options, stopped, expired>>
      /\ options.mode # "pose-snapshot" => Probing!messageCallback(m)
  BY Zenon DEF Probing!Deliver, Probing!surroundings
<1>2. heard \in Seq(S) /\ e \in S
  BY Zenon DEF HeardInv, Probing!Late
<1> HIDE DEF e, S
<1>3. /\ heard' \in Seq(S) /\ Len(heard) \in Nat
      /\ DOMAIN heard = 1 .. Len(heard) /\ DOMAIN heard' = 1 .. n
      /\ heard'[n] = e
      /\ \A i \in DOMAIN heard : heard'[i] = heard[i]
  <2>1. /\ Append(heard, e) \in Seq(S)
        /\ Len(heard) \in Nat /\ Len(Append(heard, e)) = Len(heard) + 1
        /\ DOMAIN heard = 1 .. Len(heard) /\ DOMAIN Append(heard, e) = 1 .. Len(heard) + 1
        /\ Append(heard, e)[Len(heard) + 1] = e
        /\ \A i \in DOMAIN heard : Append(heard, e)[i] = heard[i]
    BY <1>2, AppendedAt, SMTT(40)
  <2>2. n = Len(heard) + 1 /\ heard' = Append(heard, e)
    BY <1>0, <1>1, Zenon
  <2>3. heard' \in Seq(S) /\ DOMAIN heard' = 1 .. n
    BY <2>1, <2>2, Zenon
  <2>4. heard'[n] = e
    BY <2>1, <2>2, Zenon
  <2>5. \A i \in DOMAIN heard : heard'[i] = heard[i]
    BY <2>1, <2>2, Zenon
  <2> QED
    BY <2>1, <2>3, <2>4, <2>5, Zenon
<1>4. ASSUME NEW i \in DOMAIN heard, Decides(i) PROVE Decides(i)'
  <2>1. /\ i \in DOMAIN heard' /\ heard'[i] = heard[i]
        /\ \A j \in 1 .. i - 1 : heard'[j] = heard[j]
    BY <1>0, <1>3
  <2>2. QED
    BY <1>1, <1>4, <2>1, Zenon DEF Decides, Probing!FromNode
<1>5. heard' \in Seq([message : Messages, late : BOOLEAN])'
  BY <1>3, Zenon DEF S
<1>6. Probing!Late' <=> Probing!Late
  BY <1>1, Zenon DEF Probing!Late
<1>7. /\ 1 .. n - 1 = DOMAIN heard /\ \A j \in DOMAIN heard' : j \in DOMAIN heard \/ j = n
      /\ heard'[n].message = m /\ heard'[n].late = Probing!Late
  <2>1. 1 .. n - 1 = DOMAIN heard /\ \A j \in DOMAIN heard' : j \in DOMAIN heard \/ j = n
    BY <1>0, <1>3
  <2>2. QED
    BY <1>3, <2>1 DEF e
<1>8. /\ \A j \in DOMAIN heard :
           Probing!FromNode(heard[j].message)' <=> Probing!FromNode(heard[j].message)
      /\ Probing!FromNode(heard[n].message)' <=> Probing!FromNode(m)
  BY <1>0, <1>1, <1>3, <1>7, Zenon DEF Probing!FromNode
<1>9. ASSUME options.mode # "pose-snapshot"
      PROVE  /\ received' => \E i \in DOMAIN heard' : Decides(i)' /\ (heard'[i].late => Probing!Late')
             /\ ~received' /\ ~failure' =>
                  \A j \in DOMAIN heard' : ~Probing!FromNode(heard[j].message)'
  <2> DEFINE wanted == /\ options.expected \in {"", m.type}
                       /\ options.mode = "mavros-connected" => m.type = Probing!State /\ m.good
  <2>1. /\ received' <=> received \/ (Probing!FromNode(m) /\ ~received /\ ~failure /\ wanted)
        /\ failure' <=> failure \/ (Probing!FromNode(m) /\ ~received /\ ~failure /\ ~wanted)
    BY <1>1, <1>9, Zenon DEF Probing!messageCallback, Probing!FromNode
  <2>2. CASE received
    <3>1. PICK i \in DOMAIN heard : Decides(i) /\ (heard[i].late => Probing!Late)
      BY <1>9, <2>2, Zenon DEF HeardInv
    <3>2. i \in DOMAIN heard' /\ Decides(i)' /\ (heard'[i].late => Probing!Late')
      BY <1>0, <1>3, <1>4, <1>6, <3>1
    <3>3. QED
      BY <2>1, <2>2, <3>2, Zenon
  <2>3. CASE ~received /\ received'
    <3>1. Probing!FromNode(m) /\ ~failure /\ wanted
      BY <2>1, <2>3, Zenon
    <3>2. \A j \in DOMAIN heard : ~Probing!FromNode(heard[j].message)
      BY <1>9, <2>3, <3>1, Zenon DEF HeardInv
    <3>3. \A j \in 1 .. n - 1 : ~Probing!FromNode(heard[j].message)'
      BY <1>7, <1>8, <3>2, Zenon
    <3>4. Decides(n)'
      BY <1>1, <1>7, <1>8, <3>1, <3>3, Zenon DEF Decides, Probing!State
    <3>5. QED
      BY <1>0, <1>3, <1>6, <1>7, <2>3, <3>4
  <2>4. CASE ~received /\ ~received'
    <3>1. ~failure' => ~Probing!FromNode(m) /\ ~failure
      BY <2>1, <2>4, Zenon
    <3>2. ~failure' => \A j \in DOMAIN heard : ~Probing!FromNode(heard[j].message)
      BY <1>9, <2>4, <3>1, Zenon DEF HeardInv
    <3>3. QED
      BY <1>7, <1>8, <2>4, <3>1, <3>2, Zenon
  <2>5. QED
    BY <2>2, <2>3, <2>4, Zenon
<1>10. QED
  BY <1>1, <1>5, <1>9, Zenon DEF HeardInv

\* The surroundings: an answer is worth what its peer can say, and the time and
\* the signals never go back.
LEMMA ProbeSurroundings ==
  ASSUME ProbeInv, Probing!PeerAnswers \/ Probing!RequestFails \/ Probing!NodeReplaced
                   \/ Probing!DeadlinePasses \/ Probing!stop \/ Probing!RosShutdown
  PROVE  ProbeInv'
<1> USE DEF Probing!Goto, Probing!Return, Probing!Throw, Probing!Idle, Probing!Quiet,
        Probing!surroundings, Probing!found, Probing!still, Probing!Underway
<1>1. CASE Probing!PeerAnswers
  <2>1. /\ at = "call" /\ reply.state = "none" /\ UNCHANGED <<query, pid, probe_exit, at>>
        /\ UNCHANGED <<options, heard, received, failure, node_process, stopped, expired>>
        /\ reply'.late <=> Probing!Late
        /\ reply'.state = "answer" => reply'.value \in Probing!Answers
    BY <1>1, SMTT(20) DEF Probing!PeerAnswers
  <2>2. Probing!Late' <=> Probing!Late
    BY <2>1, Zenon DEF Probing!Late
  <2>3. /\ query.method = "lookupNode" => Probing!Answers = {node_process} \ {0}
        /\ query.method = "getPid" /\ query.peer = 0 => Probing!Answers = {MasterPid, 0}
        /\ query.method = "getPid" /\ query.peer # 0 =>
             Probing!Answers = {node_process} \cap {query.peer}
    BY Zenon DEF Probing!Answers
  <2>4. CallInv'
    BY <2>1, <2>2, <2>3, Zenon DEF ProbeInv, CallInv
  <2>5. ModeInv'
    BY <2>1, Zenon DEF ProbeInv, ModeInv
  <2>6. HeardInv'
    BY <2>1, <2>2, HeardKept, Zenon DEF ProbeInv
  <2>7. EvidenceInv'
    BY <2>1, Zenon DEF ProbeInv, ModeInv, EvidenceInv
  <2>8. QED
    BY <2>4, <2>5, <2>6, <2>7, Zenon DEF ProbeInv
<1>2. CASE ~Probing!PeerAnswers
  <2>1. /\ UNCHANGED <<options, heard, received, failure, query, reply, pid>>
        /\ \/ UNCHANGED <<at, probe_exit>>
           \/ at' = "exit" /\ probe_exit' # 0
        /\ node_process' = node_process \/ node_process' \in Processes \cup {0}
        /\ Probing!Late => Probing!Late'
    BY <1>2, SMTT(20) DEF Probing!RequestFails, Probing!NodeReplaced, Probing!DeadlinePasses,
       Probing!stop, Probing!RosShutdown, Probing!Late
  <2>2. CallInv'
    BY <2>1, Zenon DEF ProbeInv, CallInv
  <2>3. ModeInv'
    BY <2>1, Zenon DEF ProbeInv, ModeInv
  <2>4. HeardInv'
    BY <2>1, HeardKept, Zenon DEF ProbeInv
  <2>5. EvidenceInv'
    BY <2>1, EvidenceKept, Zenon DEF ProbeInv
  <2>6. QED
    BY <2>2, <2>3, <2>4, <2>5, Zenon DEF ProbeInv
<1>3. QED
  BY <1>1, <1>2, Zenon

\* ProbeInv holds at every step.
LEMMA ProbeStep ==
  ASSUME ProbeInv, [Probing!Next]_probe_vars
  PROVE  ProbeInv'
<1>1. CASE Probing!Main
  <2>1. UNCHANGED <<options, heard, received, failure, stopped, expired>>
    <3> USE DEF Probing!Quiet, Probing!surroundings, Probing!found
    <3>1. CASE Probing!Parse \/ Probing!Branch \/ Probing!AwaitReply \/ Probing!Collect
      BY <3>1, Zenon DEF Probing!Parse, Probing!Branch, Probing!AwaitReply, Probing!Collect
    <3>2. CASE \/ Probing!readSnapshotRequest \/ Probing!SelectTopics \/ Probing!Subscribe
               \/ Probing!Listen
      BY <3>2, Zenon DEF Probing!readSnapshotRequest, Probing!SelectTopics, Probing!Subscribe,
         Probing!Listen
    <3>3. CASE Probing!TurnEnds \/ Probing!verifyTCP \/ Probing!Connect
      BY <3>3, Zenon DEF Probing!TurnEnds, Probing!verifyTCP, Probing!Connect
    <3>4. QED
      BY <1>1, <3>1, <3>2, <3>3, Zenon DEF Probing!Main, Probing!Work
  <2>2. HeardInv'
    BY <2>1, HeardKept, Zenon DEF ProbeInv, Probing!Late
  <2>3. QED
    BY <1>1, <2>2, ProbeMainControl, EvidenceFound, Zenon DEF ProbeInv
<1>2. ASSUME NEW m \in Messages, Probing!Deliver(m) PROVE ProbeInv'
  <2>1. /\ at = "turn" /\ UNCHANGED <<options, at, query, reply, probe_exit>>
        /\ UNCHANGED <<node_process, stopped, expired>>
    BY <1>2, Zenon DEF Probing!Deliver, Probing!Idle, Probing!surroundings
  <2>2. HeardInv'
    BY <1>2, HeardDelivered, Zenon DEF ProbeInv
  <2>3. ModeInv' /\ CallInv' /\ EvidenceInv'
    BY <2>1, Zenon DEF ProbeInv, ModeInv, CallInv, EvidenceInv, Probing!Late
  <2>4. QED
    BY <2>2, <2>3, Zenon DEF ProbeInv
<1>3. CASE UNCHANGED probe_vars
  <2>1. UNCHANGED <<options, at, query, reply, pid, probe_exit, heard, received, failure,
                    node_process, stopped, expired>>
    BY <1>3, Zenon DEF probe_vars
  <2>2. HeardInv' /\ EvidenceInv'
    BY <2>1, HeardKept, EvidenceKept, Zenon DEF ProbeInv, Probing!Late
  <2>3. ModeInv' /\ CallInv'
    BY <2>1, Zenon DEF ProbeInv, ModeInv, CallInv, Probing!Late
  <2>4. QED
    BY <2>2, <2>3, Zenon DEF ProbeInv
<1>4. QED
  BY <1>1, <1>2, <1>3, ProbeSurroundings, Zenon DEF Probing!Next

\* Whatever the peers answer and the publishers send, and whenever the deadline
\* and the signals come, success of probe_main.cpp is evidence from before them,
\* of the right process, type and content.
THEOREM ProbeIsTruthful == CommandsSpec => []ProbeTruthful
<1>1. CommandsInit => ProbeInv
  BY SMTT(40)
     DEF CommandsInit, Probing!Init, Probing!NoReply, ProbeInv, ModeInv, CallInv, HeardInv,
     EvidenceInv
<1>2. ProbeInv /\ [CommandsNext]_all_vars => ProbeInv'
  BY StepsApart, ProbeStep, Zenon
<1>3. ProbeInv => ProbeTruthful
  BY Zenon DEF ProbeInv, EvidenceInv, Evidence, Decides, Asking, Hearing, ProbeTruthful,
     Probing!ProbeTruthful
<1>4. QED
  BY <1>1, <1>2, <1>3, PTL DEF CommandsSpec

-----------------------------------------------------------------------------
(* What a pose snapshot holds.                                             *)

\* The message at i is a usable pose of the topic.
Usable(i, topic) ==
  LET m == heard[i].message IN m.topic = topic /\ m.type = Probing!Pose /\ m.good

\* A sample is the first usable pose of its topic, and a topic that has one
\* has a sample.
SamplesInv ==
  /\ \A s \in samples :
       /\ s = [topic |-> s.topic, index |-> s.index]
       /\ s.topic \in Probing!AllTopics /\ s.index \in DOMAIN heard
       /\ Usable(s.index, s.topic)
       /\ \A j \in DOMAIN heard : Usable(j, s.topic) => s.index <= j
  /\ \A t \in Probing!AllTopics : \A i \in DOMAIN heard : Usable(i, t) => Probing!Taken(t)

\* Where the topics of the sources are those of the request and the listing.
Chosen ==
  /\ reply.value \in Listings
  /\ topics = [i \in DOMAIN options.sources |-> Probing!selected(options.sources[i])]

Early == {"parse", "mode", "read", "call", "select", "subscribe"}

SnapshotInv ==
  /\ options \in Options
  /\ at \in Early => heard = <<>> /\ samples = {}
  /\ options.mode = "pose-snapshot" =>
       /\ at = "call" /\ reply.state = "answer" => reply.value \in Listings
       /\ at = "select" => reply.value \in Listings
       /\ at \in {"subscribe", "turn", "collect"} \/ probe_exit = 0 => Chosen
       /\ at \in {"subscribe", "turn", "collect"} \/ probe_exit = 0 => SamplesInv
       /\ probe_exit = 0 =>
            /\ result = Probing!sourceSamples
            /\ ~expired => \A t \in Probing!AllTopics : Probing!Taken(t)

\* A step of the probe that takes no sample.
LEMMA SamplesKept ==
  ASSUME SamplesInv, UNCHANGED <<heard, samples, topics>>
  PROVE  SamplesInv'
<1>1. /\ \A i, t : Usable(i, t)' <=> Usable(i, t)
      /\ \A t : Probing!Taken(t)' <=> Probing!Taken(t)
      /\ Probing!AllTopics' = Probing!AllTopics
  BY Zenon DEF Usable, Probing!Taken, Probing!AllTopics, Probing!Pose
<1>2. QED
  BY <1>1, Zenon DEF SamplesInv

\* The selection of topics stays.
LEMMA ChosenKept ==
  ASSUME Chosen, UNCHANGED <<options, reply, topics>>
  PROVE  Chosen'
  BY Zenon DEF Chosen, Probing!selected, Probing!AtOrBelow, Probing!Pose

\* The topics of a snapshot are finitely many.
LEMMA TopicsFinite ==
  ASSUME options \in Options, Chosen
  PROVE  IsFiniteSet(Probing!AllTopics)
<1> DEFINE named == UNION {{n.parts : n \in options.sources[i].topics} : i \in DOMAIN options.sources}
           listed == {e.topic : e \in reply.value}
<1>1. IsFiniteSet(named) /\ IsFiniteSet(listed)
  BY NamesAssumption, Zenon DEF Chosen
<1>2. Probing!AllTopics \subseteq named \cup listed
  <2> SUFFICES ASSUME NEW t \in Probing!AllTopics PROVE t \in named \cup listed
    BY Zenon
  <2>1. PICK i \in DOMAIN options.sources : t \in Probing!selected(options.sources[i])
    BY Zenon DEF Chosen, Probing!AllTopics
  <2>2. QED
    BY <2>1, Zenon DEF Probing!selected
<1>3. IsFiniteSet(named \cup listed)
  BY <1>1, FS_Union, Zenon
<1>4. QED
  BY <1>2, <1>3, FS_Subset, Zenon

\* No two samples have one topic: as many samples as topics are one of each.
LEMMA AllTaken ==
  ASSUME options \in Options, Chosen, SamplesInv, HeardInv,
         ~(Cardinality(samples) < Cardinality(Probing!AllTopics))
  PROVE  \A t \in Probing!AllTopics : Probing!Taken(t)
<1> DEFINE f == [s \in samples |-> s.topic]
<1>1. \A s, r \in samples : s.topic = r.topic => s = r
  <2> SUFFICES ASSUME NEW s \in samples, NEW r \in samples, s.topic = r.topic PROVE s = r
    BY Zenon
  <2>1. s.index <= r.index /\ r.index <= s.index
    BY Zenon DEF SamplesInv
  <2>2. s.index \in Nat /\ r.index \in Nat
    BY DEF SamplesInv, HeardInv
  <2>3. s.index = r.index
    BY <2>1, <2>2
  <2>4. QED
    BY <2>3, Zenon DEF SamplesInv
<1>2. f \in Injection(samples, Probing!AllTopics)
  <2>1. f \in [samples -> Probing!AllTopics]
    BY Zenon DEF SamplesInv
  <2>2. QED
    BY <1>1, <2>1, Zenon DEF Injection, IsInjective
<1>3. IsFiniteSet(Probing!AllTopics)
  BY TopicsFinite, Zenon
<1> HIDE DEF f
<1>4. /\ IsFiniteSet(samples)
      /\ Cardinality(samples) <= Cardinality(Probing!AllTopics)
      /\ Cardinality(samples) = Cardinality(Probing!AllTopics) =>
           f \in Surjection(samples, Probing!AllTopics)
  BY <1>2, <1>3, FS_Injection, Zenon
<1>5. Cardinality(samples) \in Nat /\ Cardinality(Probing!AllTopics) \in Nat
  BY <1>3, <1>4, FS_CardinalityType, Zenon
<1>6. f \in Surjection(samples, Probing!AllTopics)
  BY <1>4, <1>5
<1>7. \A t \in Probing!AllTopics : \E s \in samples : f[s] = t
  BY <1>6, Zenon DEF Surjection
<1>8. QED
  BY <1>7, Zenon DEF f, Probing!Taken

\* A callback takes a usable pose only if its topic has none yet.
LEMMA SamplesDelivered ==
  ASSUME SamplesInv, HeardInv, options.mode = "pose-snapshot",
         NEW m \in Messages, Probing!Deliver(m)
  PROVE  SamplesInv'
<1>0. PICK n : n = Len(heard) + 1
  BY Zenon
<1> DEFINE e == [message |-> m, late |-> Probing!Late]
           good == m.type = Probing!Pose /\ m.good
           new == [topic |-> m.topic, index |-> n]
<1>1. /\ heard' = Append(heard, e)
      /\ m.topic \in Probing!AllTopics /\ topics' = topics
      /\ samples' = IF ~Probing!Taken(m.topic) /\ m.type = Probing!Pose /\ m.good
                    THEN samples \cup {[topic |-> m.topic, index |-> Len(heard')]} ELSE samples
  BY Zenon DEF Probing!Deliver, Probing!poseCallback
<1>2. e.message = m /\ e \in [message : Messages, late : BOOLEAN]
  BY DEF Probing!Late
<1> HIDE DEF e
<1>3. /\ n \in Nat \ {0} /\ DOMAIN heard = 1 .. n - 1 /\ DOMAIN heard' = 1 .. n
      /\ heard'[n] = e /\ Len(heard') = n
      /\ \A i \in DOMAIN heard : heard'[i] = heard[i]
  <2>1. heard \in Seq([message : Messages, late : BOOLEAN])
    BY Zenon DEF HeardInv
  <2>2. /\ Len(heard) \in Nat /\ DOMAIN heard = 1 .. Len(heard) /\ DOMAIN heard' = 1 .. n
        /\ heard'[n] = e /\ Len(heard') = n
        /\ \A i \in DOMAIN heard : heard'[i] = heard[i]
    <3>1. /\ Append(heard, e) \in Seq([message : Messages, late : BOOLEAN])
          /\ Len(heard) \in Nat /\ Len(Append(heard, e)) = Len(heard) + 1
          /\ DOMAIN heard = 1 .. Len(heard) /\ DOMAIN Append(heard, e) = 1 .. Len(heard) + 1
          /\ Append(heard, e)[Len(heard) + 1] = e
          /\ \A i \in DOMAIN heard : Append(heard, e)[i] = heard[i]
      BY <1>2, <2>1, AppendedAt
    <3>2. n = Len(heard) + 1 /\ heard' = Append(heard, e)
      BY <1>0, <1>1, Zenon
    <3>3. Len(heard') = n /\ DOMAIN heard' = 1 .. n
      BY <3>1, <3>2, Zenon
    <3>4. heard'[n] = e
      BY <3>1, <3>2, Zenon
    <3>5. \A i \in DOMAIN heard : heard'[i] = heard[i]
      BY <3>1, <3>2, Zenon
    <3> QED
      BY <3>1, <3>3, <3>4, <3>5, Zenon
  <2>3. Len(heard) \in Nat => n \in Nat \ {0} /\ n - 1 = Len(heard)
    BY <1>0
  <2> QED
    BY <2>2, <2>3, Zenon
<1>4. /\ \A i \in DOMAIN heard : \A t : Usable(i, t)' <=> Usable(i, t)
      /\ \A t : Usable(n, t)' <=> t = m.topic /\ good
  BY <1>2, <1>3, Zenon DEF Usable, Probing!Pose
<1>5. Probing!AllTopics' = Probing!AllTopics
  BY <1>1, Zenon DEF Probing!AllTopics
<1>6. \/ ~Probing!Taken(m.topic) /\ good /\ samples' = samples \cup {new}
      \/ (Probing!Taken(m.topic) \/ ~good) /\ samples' = samples
  BY <1>1, <1>3, Zenon
<1>7. \A i \in DOMAIN heard' : i \in DOMAIN heard \/ i = n
  BY <1>3
<1>8. \A s \in samples : /\ s.index \in DOMAIN heard /\ s.index \in DOMAIN heard' /\ s.index <= n
  BY <1>3 DEF SamplesInv
<1>9. ASSUME NEW s \in samples'
      PROVE  /\ s = [topic |-> s.topic, index |-> s.index]
             /\ s.topic \in Probing!AllTopics' /\ s.index \in DOMAIN heard'
             /\ Usable(s.index, s.topic)'
             /\ \A j \in DOMAIN heard' : Usable(j, s.topic)' => s.index <= j
  <2>1. CASE s \in samples
    <3>1. /\ s = [topic |-> s.topic, index |-> s.index]
          /\ s.topic \in Probing!AllTopics /\ Usable(s.index, s.topic)
          /\ \A j \in DOMAIN heard : Usable(j, s.topic) => s.index <= j
      BY <2>1, Zenon DEF SamplesInv
    <3>2. QED
      BY <1>4, <1>5, <1>7, <1>8, <2>1, <3>1, Zenon
  <2>2. CASE s \notin samples
    <3>1. s = new /\ ~Probing!Taken(m.topic) /\ good
      BY <1>6, <1>9, <2>2, Zenon
    <3>2. \A j \in DOMAIN heard : ~Usable(j, m.topic)
      BY <1>1, <3>1, Zenon DEF SamplesInv
    <3>3. s.topic = m.topic /\ s.index = n /\ s = [topic |-> s.topic, index |-> s.index]
      BY <3>1, Zenon
    <3>4. n \in DOMAIN heard' /\ n <= n
      <4>1. n \in Nat \ {0}
        BY <1>3, Zenon
      <4>2. n \in 1 .. n /\ n <= n
        BY <4>1
      <4> QED
        BY <1>3, <4>2, Zenon
    <3>5. QED
      BY <1>1, <1>4, <1>5, <1>7, <3>1, <3>2, <3>3, <3>4, Zenon
  <2>3. QED
    BY <2>1, <2>2, Zenon
<1>10. ASSUME NEW t \in Probing!AllTopics, NEW i \in DOMAIN heard', Usable(i, t)'
       PROVE  \E s \in samples' : s.topic = t
  <2>1. CASE i \in DOMAIN heard
    <3>1. \E s \in samples : s.topic = t
      BY <1>4, <1>10, <2>1, Zenon DEF SamplesInv, Probing!Taken
    <3>2. QED
      BY <1>6, <3>1, Zenon
  <2>2. CASE i = n
    <3>1. t = m.topic /\ good
      BY <1>4, <1>10, <2>2, Zenon
    <3>2. CASE Probing!Taken(m.topic)
      BY <1>6, <3>1, <3>2, Zenon DEF Probing!Taken
    <3>3. CASE ~Probing!Taken(m.topic)
      <4>1. new \in samples' /\ new.topic = t
        BY <1>6, <3>1, <3>3, Zenon
      <4>2. QED
        BY <4>1, Zenon
    <3>4. QED
      BY <3>2, <3>3, Zenon
  <2>3. QED
    BY <1>7, <2>1, <2>2, Zenon
<1>11. QED
  BY <1>5, <1>9, <1>10, Zenon DEF SamplesInv, Probing!Taken

\* The probe counts as everyone does.
LEMMA SameCount == \A S : Probing!Cardinality(S) = Cardinality(S)
  BY Zenon DEF Probing!Cardinality, Cardinality

\* The steps of main() in a snapshot.
LEMMA SnapshotMain ==
  ASSUME ProbeInv, SnapshotInv, Probing!Main
  PROVE  SnapshotInv'
<1> USE DEF Probing!Goto, Probing!Return, Probing!Throw, Probing!Idle, Probing!Quiet, Probing!Ask,
        Probing!surroundings, Probing!found, Probing!NoReply
<1>1. CASE Probing!Parse \/ Probing!Branch \/ Probing!readSnapshotRequest
  <2>1. /\ UNCHANGED <<options, heard, samples>>
        /\ at \in {"parse", "mode", "read"}
        /\ probe_exit' = probe_exit \/ probe_exit' # 0
        /\ \/ at' \in {"mode", "read", "exit"}
           \/ at' = "call" /\ reply' = Probing!NoReply
           \/ at' = "subscribe" /\ options.mode # "pose-snapshot"
    <3>1. CASE Probing!Branch
      BY <3>1 DEF Probing!Branch
    <3>2. CASE Probing!Parse \/ Probing!readSnapshotRequest
      BY <3>2, SMTT(40) DEF Probing!Parse, Probing!readSnapshotRequest
    <3>3. QED
      BY <1>1, <3>1, <3>2, Zenon
  <2>2. QED
    BY <2>1, SMTT(40) DEF ProbeInv, ModeInv, SnapshotInv, Early
<1>2. CASE Probing!AwaitReply
  <2>1. /\ UNCHANGED <<options, heard, samples>>
        /\ at = "call" /\ (probe_exit' = probe_exit \/ probe_exit' # 0)
        /\ options.mode = "pose-snapshot" =>
             \/ at' = "exit"
             \/ at' = "select" /\ reply.state = "answer" /\ reply' = reply
        /\ at' \in {"call", "verify", "select", "exit"}
    BY <1>2 DEF Probing!AwaitReply, Probing!Answered, ProbeInv, CallInv
  <2>2. QED
    BY <2>1, Zenon DEF ProbeInv, ModeInv, SnapshotInv, Early
<1>3. CASE Probing!SelectTopics
  <2>1. /\ UNCHANGED <<options, heard, samples, reply>> /\ at = "select"
        /\ \/ at' = "exit" /\ probe_exit' # 0
           \/ /\ at' = "subscribe" /\ probe_exit' = probe_exit
              /\ topics' = [i \in DOMAIN options.sources |-> Probing!selected(options.sources[i])]
    <3> DEFINE chosen == [i \in DOMAIN options.sources |-> Probing!selected(options.sources[i])]
    <3>1. /\ UNCHANGED <<options, heard, samples, reply>> /\ at = "select"
          /\ \/ at' = "exit" /\ probe_exit' = IF stopped THEN 130 ELSE 1
             \/ at' = "subscribe" /\ probe_exit' = probe_exit /\ topics' = chosen
      BY <1>3, Zenon DEF Probing!SelectTopics
    <3> HIDE DEF chosen
    <3>2. QED
      BY <3>1 DEF chosen
  <2>2. /\ reply.value \in Listings /\ heard = <<>> /\ samples = {} /\ probe_exit # 0
        /\ options.mode = "pose-snapshot" /\ options \in Options
    BY <2>1, Zenon DEF ProbeInv, ModeInv, SnapshotInv, Early
  <2>3. CASE at' = "subscribe"
    <3>1. Chosen'
      BY <2>1, <2>2, <2>3, Zenon DEF Chosen, Probing!selected, Probing!AtOrBelow, Probing!Pose
    <3>2. SamplesInv'
      BY <2>1, <2>2 DEF SamplesInv
    <3>3. QED
      BY <2>1, <2>2, <2>3, <3>1, <3>2, Zenon DEF SnapshotInv, Early
  <2>4. CASE at' = "exit"
    BY <2>1, <2>2, <2>4, Zenon DEF SnapshotInv, Early
  <2>5. QED
    BY <2>1, <2>3, <2>4, Zenon
<1>4. CASE Probing!Collect
  <2>1. /\ UNCHANGED <<options, heard, samples, reply, topics, expired>> /\ at = "collect"
        /\ \/ at' = "turn" /\ probe_exit' = probe_exit
           \/ at' = "exit" /\ probe_exit' # 0
           \/ /\ at' = "exit"
              /\ expired \/ ~(Cardinality(samples) < Cardinality(Probing!AllTopics))
              /\ result' = Probing!sourceSamples
    <3> DEFINE short == Cardinality(samples) < Cardinality(Probing!AllTopics)
    <3>1. /\ UNCHANGED <<options, heard, samples, reply, topics, expired>> /\ at = "collect"
          /\ IF short /\ ros_ok /\ ~(stopped \/ expired)
             THEN at' = "turn" /\ probe_exit' = probe_exit
             ELSE IF stopped \/ ~ros_ok
             THEN at' = "exit" /\ probe_exit' = IF stopped THEN 130 ELSE 1
             ELSE /\ at' = "exit"
                  /\ result' = Probing!sourceSamples
      BY <1>4, SameCount, Zenon DEF Probing!Collect, Probing!Late
    <3> HIDE DEF short
    <3>2. QED
      BY <3>1 DEF short
  <2>2. /\ options.mode = "pose-snapshot" /\ options \in Options /\ Chosen /\ SamplesInv
        /\ probe_exit # 0
    BY <2>1, Zenon DEF ProbeInv, ModeInv, SnapshotInv
  <2>3. Chosen' /\ SamplesInv'
    BY <2>1, <2>2, ChosenKept, SamplesKept, Zenon
  <2>4. CASE at' = "turn" \/ probe_exit' # 0
    BY <2>1, <2>2, <2>3, <2>4, Zenon DEF SnapshotInv, Early
  <2>5. CASE at' = "exit" /\ probe_exit' = 0
    <3>1. ~expired => \A t \in Probing!AllTopics : Probing!Taken(t)
      BY <2>1, <2>2, <2>5, AllTaken, Zenon DEF ProbeInv
    <3>2. ~expired' => \A t \in Probing!AllTopics' : Probing!Taken(t)'
      BY <2>1, <3>1, Zenon DEF Probing!AllTopics, Probing!Taken
    <3>3. result' = Probing!sourceSamples'
      BY <2>1, <2>5, Zenon DEF Probing!sourceSamples
    <3>4. QED
      BY <2>1, <2>2, <2>3, <2>5, <3>2, <3>3, Zenon DEF SnapshotInv, Early
  <2>6. QED
    BY <2>1, <2>4, <2>5, Zenon
<1>5. CASE Probing!Subscribe \/ Probing!TurnEnds
  <2>1. /\ UNCHANGED <<options, heard, samples, reply, topics, expired, probe_exit>>
        /\ at \in {"subscribe", "turn"} /\ at' \in {"collect", "listen"}
    BY <1>5, Zenon DEF Probing!Subscribe, Probing!TurnEnds
  <2>2. probe_exit # 0
    BY <2>1, Zenon DEF ProbeInv, ModeInv
  <2>3. options.mode = "pose-snapshot" => Chosen' /\ SamplesInv'
    BY <2>1, ChosenKept, SamplesKept, Zenon DEF SnapshotInv
  <2>4. QED
    BY <2>1, <2>2, <2>3, Zenon DEF SnapshotInv, Early
<1>6. CASE Probing!Listen \/ Probing!verifyTCP \/ Probing!Connect
  <2>1. /\ options' = options /\ at \in {"listen", "verify", "connect"}
        /\ at' \in {"turn", "verify", "connect", "exit"}
    BY <1>6, Zenon DEF Probing!Listen, Probing!verifyTCP, Probing!Connect
  <2>2. options.mode # "pose-snapshot"
    BY <2>1, Zenon DEF ProbeInv, ModeInv, Asking, Hearing
  <2>3. QED
    BY <2>1, <2>2, Zenon DEF SnapshotInv, Early
<1>7. QED
  BY <1>1, <1>2, <1>3, <1>4, <1>5, <1>6, Zenon DEF Probing!Main, Probing!Work

\* The peers, the clock and the signals in a snapshot.
LEMMA SnapshotSurroundings ==
  ASSUME ProbeInv, SnapshotInv,
         \/ Probing!PeerAnswers \/ Probing!RequestFails \/ Probing!NodeReplaced
         \/ Probing!DeadlinePasses \/ Probing!stop \/ Probing!RosShutdown
  PROVE  SnapshotInv'
<1> USE DEF Probing!Throw, Probing!Return, Probing!Idle, Probing!Quiet, Probing!surroundings,
        Probing!found, Probing!still, Probing!Underway
<1>1. CASE Probing!PeerAnswers
  <2>1. /\ UNCHANGED <<options, at, heard, samples, probe_exit>> /\ at = "call"
        /\ \/ reply'.state # "answer"
           \/ reply'.value \in Probing!Answers
    BY <1>1, SMTT(20) DEF Probing!PeerAnswers
  <2>2. options.mode = "pose-snapshot" => Probing!Answers = Listings
    BY <2>1, Zenon DEF ProbeInv, CallInv, Probing!Answers
  <2>3. probe_exit # 0
    BY <2>1, Zenon DEF ProbeInv, ModeInv
  <2>4. QED
    BY <2>1, <2>2, <2>3, Zenon DEF SnapshotInv, Early
<1>2. CASE Probing!RequestFails
  <2>1. /\ UNCHANGED <<options, heard, samples>> /\ at = "call"
        /\ at' = "exit" /\ probe_exit' # 0
    BY <1>2, SMTT(20) DEF Probing!RequestFails
  <2>2. QED
    BY <2>1, Zenon DEF SnapshotInv, Early
<1>3. CASE ~Probing!PeerAnswers /\ ~Probing!RequestFails
  <2>1. /\ UNCHANGED <<options, at, heard, samples, topics, reply, probe_exit>>
        /\ at # "exit"
    BY <1>3, Zenon
       DEF Probing!NodeReplaced, Probing!DeadlinePasses, Probing!stop, Probing!RosShutdown
  <2>2. probe_exit # 0
    BY <2>1, Zenon DEF ProbeInv, ModeInv
  <2>3. /\ Chosen => Chosen'
        /\ SamplesInv => SamplesInv'
    BY <2>1, ChosenKept, SamplesKept, Zenon
  <2>4. QED
    BY <2>1, <2>2, <2>3, Zenon DEF SnapshotInv, Early
<1>4. QED
  BY <1>1, <1>2, <1>3, Zenon

\* SnapshotInv holds at every step.
LEMMA SnapshotStep ==
  ASSUME ProbeInv, SnapshotInv, [Probing!Next]_probe_vars
  PROVE  SnapshotInv'
<1>1. ASSUME NEW m \in Messages, Probing!Deliver(m) PROVE SnapshotInv'
  <2>1. /\ at = "turn" /\ UNCHANGED <<options, at, reply, topics, probe_exit>>
    BY <1>1, Zenon DEF Probing!Deliver, Probing!Idle
  <2>2. probe_exit # 0
    BY <2>1, Zenon DEF ProbeInv, ModeInv
  <2>3. options.mode = "pose-snapshot" => Chosen' /\ SamplesInv'
    BY <1>1, <2>1, ChosenKept, SamplesDelivered, Zenon DEF ProbeInv, SnapshotInv
  <2>4. QED
    BY <2>1, <2>2, <2>3, Zenon DEF SnapshotInv, Early
<1>2. CASE UNCHANGED probe_vars
  <2>1. UNCHANGED <<options, at, heard, samples, topics, reply, probe_exit, result, expired>>
    BY <1>2, Zenon DEF probe_vars
  <2>2. /\ Chosen => Chosen'
        /\ SamplesInv => SamplesInv'
    BY <2>1, ChosenKept, SamplesKept, Zenon
  <2>3. /\ Probing!sourceSamples' = Probing!sourceSamples
        /\ Probing!AllTopics' = Probing!AllTopics
        /\ \A t : Probing!Taken(t)' <=> Probing!Taken(t)
    BY <2>1, Zenon DEF Probing!sourceSamples, Probing!AllTopics, Probing!Taken
  <2>4. QED
    BY <2>1, <2>2, <2>3, Zenon DEF SnapshotInv, Early
<1>3. QED
  BY <1>1, <1>2, SnapshotMain, SnapshotSurroundings, Zenon DEF Probing!Next

\* The topics selected for a source are those it names and the listed poses at
\* and below its roots.
LEMMA SelectedMeans ==
  ASSUME options \in Options, Chosen, NEW i \in DOMAIN options.sources
  PROVE  topics[i] = {t \in Probing!AllTopics : Probing!InSource(options.sources[i], t)}
<1> DEFINE source == options.sources[i]
<1>1. \A e \in reply.value : e = [topic |-> e.topic, type |-> e.type] /\ e.topic \in Seq(STRING)
  BY NamesAssumption, Zenon DEF Chosen
<1>2. \A n \in source.roots : n.parts \in Seq(STRING)
  BY NamesAssumption, Zenon
<1>3. topics[i] = Probing!selected(source) /\ DOMAIN topics = DOMAIN options.sources
  BY Zenon DEF Chosen
<1>4. \A root, topic \in Seq(STRING) :
        Probing!AtOrBelow(root, topic) <=>
        Len(root) <= Len(topic) /\ root = SubSeq(topic, 1, Len(root))
  <2> SUFFICES ASSUME NEW root \in Seq(STRING), NEW topic \in Seq(STRING),
                      Len(root) <= Len(topic)
               PROVE  (\A k \in DOMAIN root : topic[k] = root[k])
                        <=> root = SubSeq(topic, 1, Len(root))
    BY Zenon DEF Probing!AtOrBelow
  <2> DEFINE head == SubSeq(topic, 1, Len(root))
  <2> DEFINE n == Len(root)
  <2>1. /\ DOMAIN head = 1 .. Len(root) /\ \A k \in 1 .. Len(root) : head[k] = topic[k]
        /\ head = [k \in DOMAIN head |-> head[k]]
    <3>1. n \in 0 .. Len(topic)
      OBVIOUS
    <3> HIDE DEF n
    <3>2. \A k \in 1 .. n : k \in 1 .. Len(topic)
      BY <3>1, SMTT(30)
    <3>3. SubSeq(topic, 1, n) \in Seq(STRING) /\ Len(SubSeq(topic, 1, n)) = n
      BY <3>1, <3>2, SMTT(30)
    <3>4. \A k \in 1 .. n : SubSeq(topic, 1, n)[k] = topic[k]
      BY <3>1, <3>2, SMTT(30)
    <3>5. DOMAIN SubSeq(topic, 1, n) = 1 .. n
      BY <3>3, SMTT(30)
    <3>6. head = SubSeq(topic, 1, n)
      BY Zenon DEF n
    <3>7. head = [k \in DOMAIN head |-> head[k]]
      BY <3>3, <3>6, SMTT(30)
    <3> QED
      BY <3>4, <3>5, <3>6, <3>7, Zenon DEF n
  <2>2. DOMAIN root = 1 .. Len(root) /\ root = [k \in DOMAIN root |-> root[k]]
    OBVIOUS
  <2> HIDE DEF head
  <2>3. QED
    BY <2>1, <2>2, Zenon DEF head
<1>5. topics[i] \subseteq Probing!AllTopics
  BY <1>3, Zenon DEF Probing!AllTopics
<1>6. ASSUME NEW t
      PROVE  t \in Probing!selected(source) <=> Probing!InSource(source, t)
  <2> HIDE DEF source
  <2>1. t \in Probing!selected(source) <=>
          \/ \E n \in source.topics : n.parts = t
          \/ \E e \in reply.value : /\ e.topic = t /\ e.type = Probing!Pose
                                    /\ \E n \in source.roots : Probing!AtOrBelow(n.parts, e.topic)
    BY Zenon DEF Probing!selected
  <2>2. ASSUME [topic |-> t, type |-> Probing!Pose] \in reply.value
        PROVE  t \in Seq(STRING)
    BY <1>1, <2>2, Zenon
  <2>3. \A e \in reply.value : e.topic = t /\ e.type = Probing!Pose =>
          [topic |-> t, type |-> Probing!Pose] \in reply.value
    BY <1>1, Zenon
  <2>4. (\E e \in reply.value : /\ e.topic = t /\ e.type = Probing!Pose
                                /\ \E n \in source.roots : Probing!AtOrBelow(n.parts, e.topic))
        <=> /\ [topic |-> t, type |-> Probing!Pose] \in reply.value
            /\ \E n \in source.roots : Probing!AtOrBelow(n.parts, t)
    BY <2>3, Zenon
  <2>5. t \in Seq(STRING) =>
          \A n \in source.roots :
            Probing!AtOrBelow(n.parts, t) <=>
            Len(n.parts) <= Len(t) /\ n.parts = SubSeq(t, 1, Len(n.parts))
    BY <1>2, <1>4, Zenon DEF source
  <2>6. QED
    BY <2>1, <2>2, <2>4, <2>5, Zenon DEF Probing!InSource
<1>7. QED
  BY <1>3, <1>5, <1>6, Zenon

\* The samples of a source are the first poses of its topics.
LEMMA SamplesAreFirst ==
  ASSUME SamplesInv, HeardInv, NEW T \in SUBSET Probing!AllTopics
  PROVE  /\ {s \in samples : s.topic \in T} = UNION {Probing!FirstPose(t) : t \in T}
         /\ \A t \in T : Probing!Taken(t) => Probing!FirstPose(t) # {}
<1>1. \A t, s : s \in Probing!FirstPose(t) <=>
        \E k \in DOMAIN heard :
          /\ Usable(k, t) /\ \A j \in DOMAIN heard : Usable(j, t) => k <= j
          /\ s = [topic |-> t, index |-> k]
  BY Zenon DEF Probing!FirstPose, Usable
<1>2. \A s \in samples : s \in Probing!FirstPose(s.topic)
  BY <1>1, Zenon DEF SamplesInv
<1>3. ASSUME NEW t \in T, NEW s \in Probing!FirstPose(t)
      PROVE  s \in samples /\ s.topic = t
  <2>1. PICK k \in DOMAIN heard :
          /\ Usable(k, t) /\ \A j \in DOMAIN heard : Usable(j, t) => k <= j
          /\ s = [topic |-> t, index |-> k]
    BY <1>1, <1>3, Zenon
  <2>2. PICK r \in samples : r.topic = t
    BY <1>3, <2>1, Zenon DEF SamplesInv, Probing!Taken
  <2>3. /\ r = [topic |-> t, index |-> r.index] /\ r.index \in DOMAIN heard
        /\ Usable(r.index, t) /\ \A j \in DOMAIN heard : Usable(j, t) => r.index <= j
    BY <2>2, Zenon DEF SamplesInv
  <2>4. r.index <= k /\ k <= r.index /\ k \in Nat /\ r.index \in Nat
    BY <2>1, <2>3, SMTT(30) DEF HeardInv
  <2>5. r.index = k
    BY <2>4
  <2>6. QED
    BY <2>1, <2>2, <2>3, <2>5, Zenon
<1>4. {s \in samples : s.topic \in T} = UNION {Probing!FirstPose(t) : t \in T}
  BY <1>2, <1>3, Zenon
<1>5. \A t \in T : Probing!Taken(t) => Probing!FirstPose(t) # {}
  BY <1>2, Zenon DEF Probing!Taken
<1>6. QED
  BY <1>4, <1>5, Zenon

\* Whatever is published, in whatever order, and whichever sources share topics:
\* a pose snapshot of probe_main.cpp gives every source the first usable pose of
\* each of its topics and nothing else, and leaves one out only at the deadline.
THEOREM SnapshotIsExact == CommandsSpec => []SnapshotExact
<1> DEFINE Inv == ProbeInv /\ SnapshotInv
<1>1. CommandsInit => Inv
  <2>1. CommandsInit => ProbeInv
    BY SMTT(40)
       DEF CommandsInit, Probing!Init, Probing!NoReply, ProbeInv, ModeInv, CallInv, HeardInv,
       EvidenceInv
  <2>2. CommandsInit => SnapshotInv
    BY SMTT(40) DEF CommandsInit, Probing!Init, SnapshotInv
  <2>3. QED
    BY <2>1, <2>2, Zenon
<1>2. Inv /\ [CommandsNext]_all_vars => Inv'
  BY StepsApart, ProbeStep, SnapshotStep, Zenon
<1>3. Inv => SnapshotExact
  <2> SUFFICES ASSUME ProbeInv, SnapshotInv, options.mode = "pose-snapshot", probe_exit = 0,
                      NEW i \in DOMAIN options.sources,
                      NEW mine,
                      mine = {t \in Probing!AllTopics : Probing!InSource(options.sources[i], t)}
               PROVE  /\ result[i] = UNION {Probing!FirstPose(t) : t \in mine}
                      /\ ~expired => \A t \in mine : Probing!FirstPose(t) # {}
    BY Zenon DEF Inv, SnapshotExact, Probing!SnapshotExact
  <2>1. /\ options \in Options /\ Chosen /\ SamplesInv /\ result = Probing!sourceSamples
        /\ ~expired => \A t \in Probing!AllTopics : Probing!Taken(t)
    BY Zenon DEF SnapshotInv
  <2>2. mine = topics[i] /\ mine \subseteq Probing!AllTopics
    BY <2>1, SelectedMeans, Zenon
  <2>3. i \in DOMAIN topics
    BY <2>1, Zenon DEF Chosen
  <2>4. result[i] = {s \in samples : s.topic \in mine}
    BY <2>1, <2>2, <2>3, Zenon DEF Probing!sourceSamples
  <2>5. /\ {s \in samples : s.topic \in mine} = UNION {Probing!FirstPose(t) : t \in mine}
        /\ \A t \in mine : Probing!Taken(t) => Probing!FirstPose(t) # {}
    BY <2>1, <2>2, SamplesAreFirst, Zenon DEF ProbeInv
  <2>6. QED
    BY <2>1, <2>2, <2>4, <2>5, Zenon
<1>4. QED
  BY <1>1, <1>2, <1>3, PTL DEF CommandsSpec
==============================================================================
