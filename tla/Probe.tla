--------------------------------- MODULE Probe ---------------------------------
(***************************************************************************)
(* The finite probe (probe_main.cpp): is a master, a node, a topic or a    *)
(* message there before the deadline, and a snapshot of the poses that are *)
(* published.                                                              *)
(*                                                                         *)
(* One thread runs main() and, inside callAvailable, the callbacks.  The   *)
(* peers answer, publishers send, the node is replaced, the deadline       *)
(* passes, ROS shuts down and signals arrive between any two of its steps. *)
(* A name is [slashes, parts]: how many slashes stand in front of its      *)
(* parts.                                                                  *)
(***************************************************************************)
EXTENDS Integers, Sequences, FiniteSets

CONSTANTS
  Options,       \* command lines: [pairs, mode, master, node, topic, expected,
                 \* timeout, verify, sources]
  Messages,      \* what publishers send: [topic, from, type, good]
  Listings,      \* answers of getPublishedTopics: sets of [topic, type]
  Processes,     \* process ids of the node
  MasterPid,
  MaxTimeout,    \* 86400000 in the code
  MaxSources,    \* 258
  MaxTopics,     \* 256
  MaxMessages    \* bound: messages delivered

VARIABLES
  options, at,
  query,           \* the remote call: [method, peer], peer 0 is the master
  reply,           \* its answer: [state, value, late]
  pid,
  topics,          \* sourceTopics, one set for each source
  samples,         \* [topic, index]: index counts the messages delivered
  received, failure,
  result,          \* the samples printed for each source
  exit,            \* the exit code, -1 before
  \* the surroundings
  node_process,    \* the process registered as the node, 0 for none
  expired, stopped, ros_ok,
  heard            \* history: the messages delivered, [message, late]

surroundings == <<node_process, expired, stopped, ros_ok>>
found == <<pid, topics, samples, received, failure, result>>
vars == <<options, at, query, reply, found, exit, surroundings, heard>>

Pose == "geometry_msgs/PoseStamped"
State == "mavros_msgs/State"
Absent == [slashes |-> 0, parts |-> <<>>]
NoReply == [state |-> "none", value |-> 0, late |-> FALSE]

\* checkDeadline throws.
Late == stopped \/ expired

\* absoluteName: one slash in front, and no part that ROS refuses.
validName(name) == name.parts # <<>> /\ \A i \in DOMAIN name.parts : name.parts[i] # "?"

Init ==
  /\ options \in Options
  /\ at = "parse"
  /\ query = [method |-> "none", peer |-> 0]
  /\ reply = NoReply
  /\ pid = 0
  /\ topics = <<>>
  /\ samples = {}
  /\ received = FALSE
  /\ failure = FALSE
  /\ result = <<>>
  /\ exit = -1
  /\ node_process \in Processes \cup {0}
  /\ expired = FALSE
  /\ stopped = FALSE
  /\ ros_ok = TRUE
  /\ heard = <<>>

-----------------------------------------------------------------------------
(* Steps of main().                                                        *)

Goto(step) == at' = step /\ UNCHANGED exit
Return(code) == at' = "exit" /\ exit' = code

\* The catch clause.
Throw == Return(IF stopped THEN 130 ELSE 1)

Idle == UNCHANGED <<query, reply>>
Quiet == UNCHANGED <<options, surroundings, heard>>

validOptions ==
  /\ options.pairs /\ options.master
  /\ options.expected # "?"
  /\ options.timeout \in 1..MaxTimeout
  /\ options.node = Absent \/ validName(options.node)

\* Up to ros::init: the options, the deadline, the signal handlers.
Parse ==
  /\ at = "parse"
  /\ IF validOptions THEN Goto("mode") ELSE Throw
  /\ Idle /\ Quiet /\ UNCHANGED found

\* call(): the request is on its way.
Ask(method, peer) ==
  /\ query' = [method |-> method, peer |-> peer]
  /\ reply' = NoReply
  /\ Goto("call")

\* The branch of the mode, up to its first wait.
Branch ==
  LET Node == options.node # Absent IN
  /\ at = "mode"
  /\ CASE options.mode = "pose-snapshot" -> Goto("read") /\ Idle
       [] options.mode = "master" -> Ask("getPid", 0)
       [] options.mode = "node" -> IF Node THEN Ask("lookupNode", 0) ELSE Throw /\ Idle
       [] options.mode \in {"topic", "message", "mavros-connected"} ->
            IF ~validName(options.topic) THEN Throw /\ Idle
            ELSE IF options.mode # "topic" THEN Goto("subscribe") /\ Idle
            ELSE IF Node THEN Ask("lookupNode", 0) ELSE Ask("getSystemState", 0)
       [] OTHER -> Throw /\ Idle
  /\ Quiet /\ UNCHANGED found

\* What becomes of an answer in time.
Answered ==
  LET good == reply.state = "answer" IN
  CASE good /\ query.method = "lookupNode" ->
         /\ Ask(IF options.mode = "node" THEN "getPid" ELSE "requestTopic", reply.value)
         /\ UNCHANGED pid
    [] good /\ query.method = "getPid" ->
         /\ IF reply.value > 0 THEN Goto("verify") /\ pid' = reply.value
                               ELSE Throw /\ UNCHANGED pid
         /\ Idle
    [] good /\ query.method \in {"requestTopic", "getSystemState"} ->
         /\ IF reply.value THEN Goto("verify") ELSE Throw
         /\ Idle /\ UNCHANGED pid
    [] good /\ query.method = "getPublishedTopics" ->
         Goto("select") /\ Idle /\ UNCHANGED pid
    [] OTHER -> Throw /\ Idle /\ UNCHANGED pid

\* The loop of call(): both looks at the deadline, and the answer.
AwaitReply ==
  /\ at = "call"
  /\ \/ Late /\ Throw /\ Idle /\ UNCHANGED pid
     \/ reply.state # "none" /\ ~Late /\ Answered
  /\ Quiet /\ UNCHANGED <<topics, samples, received, failure, result>>

\* readSnapshotRequest: standard input to its end, whatever the time.
readSnapshotRequest ==
  /\ at = "read"
  /\ IF Len(options.sources) \in 1..MaxSources THEN Ask("getPublishedTopics", 0)
                                               ELSE Throw /\ Idle
  /\ Quiet /\ UNCHANGED found

\* graphNames takes a name only as absoluteName would write it.
graphNames(names) == \A n \in names : validName(n) /\ n.slashes = 1

validSource(source) ==
  /\ source.fields
  /\ graphNames(source.roots) /\ graphNames(source.topics)
  /\ source.roots \cup source.topics # {}

AtOrBelow(root, topic) ==
  Len(root) <= Len(topic) /\ \A i \in DOMAIN root : topic[i] = root[i]

\* The exact topics of a source, and the published poses at and below its roots.
selected(source) ==
  {n.parts : n \in source.topics} \cup
  {e.topic : e \in {p \in reply.value :
      p.type = Pose /\ \E root \in source.roots : AtOrBelow(root.parts, p.topic)}}

\* The loop over the sources, and the subscriptions' topics.
SelectTopics ==
  LET chosen == [i \in DOMAIN options.sources |-> selected(options.sources[i])] IN
  /\ at = "select"
  /\ IF /\ \A i \in DOMAIN chosen : validSource(options.sources[i])
        /\ \A e \in reply.value : e.type # "?"
        /\ Cardinality(UNION {chosen[i] : i \in DOMAIN chosen}) <= MaxTopics
     THEN Goto("subscribe") /\ topics' = chosen
     ELSE Throw /\ UNCHANGED topics
  /\ Idle /\ Quiet /\ UNCHANGED <<pid, samples, received, failure, result>>

\* The NodeHandle starts ROS and subscribe() returns.  Both register with the
\* master: they return when it has answered, or when ROS is shut down, and
\* nothing looks at the deadline or at the signal until then.
Subscribe ==
  /\ at = "subscribe"
  /\ Goto(IF options.mode = "pose-snapshot" THEN "collect" ELSE "listen")
  /\ Idle /\ Quiet /\ UNCHANGED found

AllTopics == UNION {topics[i] : i \in DOMAIN topics}

\* Each source with the samples of its topics.
sourceSamples == [i \in DOMAIN topics |-> {s \in samples : s.topic \in topics[i]}]

\* The loop of the snapshot, and behind it the samples go to their sources.
Collect ==
  /\ at = "collect"
  /\ IF Cardinality(samples) < Cardinality(AllTopics) /\ ros_ok /\ ~Late
     THEN Goto("turn") /\ UNCHANGED result
     ELSE IF stopped \/ ~ros_ok THEN Throw /\ UNCHANGED result
     ELSE Return(0) /\ result' = sourceSamples
  /\ Idle /\ Quiet /\ UNCHANGED <<pid, topics, samples, received, failure>>

\* Mutant: the loop waits for its message whatever the time.
ListenUntimed ==
  /\ at = "listen"
  /\ IF ~received /\ ~failure /\ ros_ok THEN Goto("turn")
     ELSE IF received /\ ~Late THEN Goto("verify") ELSE Throw
  /\ Idle /\ Quiet /\ UNCHANGED found

\* The loop for one message, and behind it the last look at the deadline.
Listen ==
  /\ at = "listen"
  /\ IF Late THEN Throw
     ELSE IF ~received /\ ~failure /\ ros_ok THEN Goto("turn")
     ELSE IF received THEN Goto("verify") ELSE Throw
  /\ Idle /\ Quiet /\ UNCHANGED found

Taken(topic) == \E s \in samples : s.topic = topic

\* Mutant: the latest pose of a topic replaces the one before.
poseCallbackLatest(m) ==
  samples' = IF m.type = Pose /\ m.good
             THEN {s \in samples : s.topic # m.topic}
                  \cup {[topic |-> m.topic, index |-> Len(heard')]}
             ELSE samples

\* The callback of the snapshot.
poseCallback(m) ==
  samples' = IF ~Taken(m.topic) /\ m.type = Pose /\ m.good
             THEN samples \cup {[topic |-> m.topic, index |-> Len(heard')]}
             ELSE samples

\* Mutant: any publisher of the topic will do.
messageCallbackAnyone(m) ==
  LET wanted == /\ options.expected \in {"", m.type}
                /\ options.mode = "mavros-connected" => m.type = State /\ m.good
      ignored == received \/ failure
  IN /\ received' = (received \/ (~ignored /\ wanted))
     /\ failure' = (failure \/ (~ignored /\ ~wanted))

\* The callback of the other modes: the first message of the node decides.
messageCallback(m) ==
  LET wanted == /\ options.expected \in {"", m.type}
                /\ options.mode = "mavros-connected" => m.type = State /\ m.good
      ignored == \/ options.node # Absent /\ m.from # options.node.parts
                 \/ received \/ failure
  IN /\ received' = (received \/ (~ignored /\ wanted))
     /\ failure' = (failure \/ (~ignored /\ ~wanted))

\* callAvailable runs a callback,
Deliver(m) ==
  /\ at = "turn" /\ Len(heard) < MaxMessages
  /\ heard' = Append(heard, [message |-> m, late |-> Late])
  /\ IF options.mode = "pose-snapshot"
     THEN m.topic \in AllTopics /\ poseCallback(m) /\ UNCHANGED <<received, failure>>
     ELSE m.topic = options.topic.parts /\ messageCallback(m) /\ UNCHANGED samples
  /\ Idle /\ UNCHANGED <<options, at, pid, topics, result, exit, surroundings>>

\* and returns.
TurnEnds ==
  /\ at = "turn"
  /\ Goto(IF options.mode = "pose-snapshot" THEN "collect" ELSE "listen")
  /\ Idle /\ Quiet /\ UNCHANGED found

\* verifyTCP, up to a turn of its loop; without an address the probe is over.
verifyTCP ==
  /\ at = "verify"
  /\ CASE options.verify = "" -> Return(0)
       [] options.verify = "?" -> Throw
       [] OTHER -> IF Late THEN Throw ELSE Goto("connect")
  /\ Idle /\ Quiet /\ UNCHANGED found

\* The turn ends with a connection, with an error, or with neither.
Connect ==
  /\ at = "connect"
  /\ Return(0) \/ Throw \/ Goto("verify")
  /\ Idle /\ Quiet /\ UNCHANGED found

\* The steps main() takes by itself; it waits for a master in Subscribe.
Work ==
  \/ Parse \/ Branch \/ AwaitReply \/ readSnapshotRequest \/ SelectTopics
  \/ Collect \/ Listen \/ TurnEnds \/ verifyTCP \/ Connect
Main == Work \/ Subscribe

-----------------------------------------------------------------------------
(* The surroundings.                                                       *)

\* What a peer may answer; a node that was replaced does not.
Answers ==
  CASE query.method = "lookupNode" -> {node_process} \ {0}
    [] query.method = "getPid" ->
         IF query.peer = 0 THEN {MasterPid, 0} ELSE {node_process} \cap {query.peer}
    [] query.method = "requestTopic" -> IF node_process = query.peer THEN BOOLEAN ELSE {}
    [] query.method = "getSystemState" -> BOOLEAN
    [] query.method = "getPublishedTopics" -> Listings

PeerAnswers ==
  /\ at = "call" /\ reply.state = "none"
  /\ \/ reply' = [state |-> "fault", value |-> 0, late |-> Late]
     \/ \E v \in Answers : reply' = [state |-> "answer", value |-> v, late |-> Late]
  /\ UNCHANGED <<options, at, query, found, exit, surroundings, heard>>

\* The request cannot be sent.
RequestFails ==
  /\ at = "call" /\ reply.state = "none"
  /\ Throw
  /\ Idle /\ Quiet /\ UNCHANGED found

\* main() has set its deadline and its handlers, and has not returned.
Underway == at \notin {"parse", "exit"}
still == <<options, at, query, reply, found, exit, heard>>

NodeReplaced ==
  /\ Underway
  /\ \E p \in (Processes \cup {0}) \ {node_process} : node_process' = p
  /\ UNCHANGED <<still, expired, stopped, ros_ok>>

DeadlinePasses ==
  /\ Underway /\ ~expired
  /\ expired' = TRUE
  /\ UNCHANGED <<still, node_process, stopped, ros_ok>>

stop ==
  /\ Underway /\ ~stopped
  /\ stopped' = TRUE
  /\ UNCHANGED <<still, node_process, expired, ros_ok>>

RosShutdown ==
  /\ Underway /\ ros_ok
  /\ ros_ok' = FALSE
  /\ UNCHANGED <<still, node_process, expired, stopped>>

Next ==
  \/ Main \/ (\E m \in Messages : Deliver(m)) \/ PeerAnswers \/ RequestFails
  \/ NodeReplaced \/ DeadlinePasses \/ stop \/ RosShutdown

Spec == Init /\ [][Next]_vars

-----------------------------------------------------------------------------
(* Properties.                                                             *)

FromNode(m) == options.node = Absent \/ m.from = options.node.parts

\* Success is evidence from before the deadline and the first signal: the
\* answer of the process that was asked, or a message that the node sent, of
\* the right type and content, and no message of the node came before it.
ProbeTruthful ==
  exit = 0 =>
    /\ options.mode \in {"master", "node", "topic"} =>
         reply.state = "answer" /\ ~reply.late
    /\ options.mode = "master" => pid = MasterPid
    /\ options.mode = "node" => pid = query.peer /\ pid \in Processes
    /\ options.mode \in {"message", "mavros-connected"} =>
         \E i \in DOMAIN heard :
           LET m == heard[i].message IN
           /\ ~heard[i].late /\ FromNode(m)
           /\ options.expected \in {"", m.type}
           /\ options.mode = "mavros-connected" => m.type = State /\ m.good
           /\ \A j \in 1 .. i - 1 : ~FromNode(heard[j].message)

\* The first usable pose of a topic, as a set of at most one sample.
FirstPose(topic) ==
  LET usable == {i \in DOMAIN heard : LET m == heard[i].message IN
                   m.topic = topic /\ m.type = Pose /\ m.good}
  IN {[topic |-> topic, index |-> i] : i \in {k \in usable : \A j \in usable : k <= j}}

InSource(source, topic) ==
  \/ \E n \in source.topics : n.parts = topic
  \/ /\ [topic |-> topic, type |-> Pose] \in reply.value
     /\ \E n \in source.roots :
          Len(n.parts) <= Len(topic) /\ n.parts = SubSeq(topic, 1, Len(n.parts))

\* "collects the first valid message per topic": every source gets the first
\* usable pose of each of its topics and nothing else, also when sources share
\* topics; a topic is left out only at the deadline.
SnapshotExact ==
  options.mode = "pose-snapshot" /\ exit = 0 =>
    \A i \in DOMAIN options.sources :
      LET mine == {t \in AllTopics : InSource(options.sources[i], t)} IN
      /\ result[i] = UNION {FirstPose(t) : t \in mine}
      /\ ~expired => \A t \in mine : FirstPose(t) # {}
=============================================================================
