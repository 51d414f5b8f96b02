------------------------------ MODULE MCCommands ------------------------------
(* An instance of Commands for TLC. *)
EXTENDS Commands

-----------------------------------------------------------------------------
(* The recorder: small sizes, every check on both of its sides.            *)

Numbers(s, m, f, d, b, c) ==
  [n \in NumberNames |-> CASE n = "splitSizeMiB" -> s [] n = "maxSplits" -> m
     [] n = "minFreeSpaceGiB" -> f [] n = "expectedDurationMinutes" -> d
     [] n = "estimatedVideoBitrateMbps" -> b [] n = "capacitySafetyFactor" -> c]
MCLow == Numbers(2, 1, 1, 1, 0, 1)
MCHigh == Numbers(8, 3, 3, 4, 4, 2)
MCGeneral == Numbers(3, 2, 2, 2, 0, 1)
MCScientific == Numbers(6, 1, 2, 2, 2, 1)

General == [fields |-> TRUE, network |-> TRUE, identities |-> TRUE, session |-> FALSE,
  recordingProfile |-> "", numbers |-> Numbers(0, 0, 0, 0, 0, 0), compression |-> "",
  globalGiven |-> FALSE, globalTopics |-> {}, robotTopics |-> {}, slotIds |-> {}, cameras |-> <<>>,
  includeMotionCapture |-> FALSE, recordAllTopics |-> FALSE, excludedTopics |-> <<>>]
Camera == [root |-> <<"cam">>, topics |-> {<<"image">>, <<"info", "x">>}]
Study == [General EXCEPT !.recordingProfile = "camera_scientific", !.cameras = <<Camera>>, !.session = TRUE]
Not(topic, reason) == [topic |-> topic, reason |-> reason]
Copy == Append(Display, "copy")

MCParameters ==
  {[General EXCEPT !.numbers = [MCGeneral EXCEPT ![n] = v]] : n \in NumberNames, v \in 0..9}
  \cup {[g EXCEPT !.numbers = Numbers(2, m, 1, d, b, c)] :
          g \in {General, Study}, m \in 1..2, d \in 1..2, b \in 0..3, c \in 1..2}
  \cup {[g EXCEPT !.fields = f, !.network = n, !.identities = i, !.session = s, !.compression = c] :
          g \in {General, Study}, f, n, i, s \in BOOLEAN, c \in {"", "none", "bz2", "?"}}
  \cup {[g EXCEPT !.recordingProfile = r] : g \in {General, Study}, r \in {"", "general", "camera_scientific", "?"}}
  \cup {[Study EXCEPT !.cameras = c] :
          c \in {<<Camera, Camera>>, <<[Camera EXCEPT !.topics = {}]>>, <<[Camera EXCEPT !.root = <<"?">>]>>,
                 <<[Camera EXCEPT !.topics = {<<"?">>}]>>}}
  \cup {[General EXCEPT !.globalGiven = TRUE, !.globalTopics = g, !.robotTopics = r, !.slotIds = s,
            !.includeMotionCapture = m] :
          g \in {{}, {<<"clock">>}}, r \in {{}, {<<"state">>}, {<<"?">>}},
          s \in {{}, {"r1"}, {"r1", "r2"}, {"r9"}}, m \in BOOLEAN}
  \cup {[General EXCEPT !.globalGiven = TRUE, !.globalTopics = g, !.recordAllTopics = a, !.excludedTopics = x] :
          g \in {{<<"clock">>}, {Copy}, {Display}, {Copy, Append(Copy, "more"), <<"clock">>}},
          a \in BOOLEAN,
          x \in {<<>>, <<Not(<<"clock">>, TRUE)>>, <<Not(<<"other">>, FALSE)>>, <<Not(<<"other">>, TRUE)>>,
                 <<Not(Append(Display, "other"), TRUE), Not(<<"?">>, TRUE)>>,
                 <<Not(<<"other">>, TRUE), Not(Append(Display, "other"), TRUE)>>,
                 <<Not(<<"other">>, TRUE), Not(<<"other">>, TRUE)>>}}

Robot(id, ns) == [id |-> id, namespace |-> ns, extension |-> FALSE, profile |-> "kind", hybridSource |-> "",
  bodyProjected |-> FALSE, runtimeBody |-> "", assetBody |-> "rigid", poseTopic |-> <<>>, twistTopic |-> <<>>]
R1 == Robot("r1", <<"uav1">>)
R2 == Robot("r2", <<"uav", "two">>)
MCRobots ==
  {<<>>, <<R1>>, <<R1, R2>>, <<R1, [R1 EXCEPT !.namespace = <<"uav3">>]>>, <<[R1 EXCEPT !.extension = TRUE], R2>>, <<[R1 EXCEPT !.extension = TRUE]>>,
   <<[R1 EXCEPT !.namespace = <<"?">>]>>, <<[R1 EXCEPT !.profile = "other"]>>,
   <<[R1 EXCEPT !.profile = "mocap-rotor", !.bodyProjected = TRUE]>>,
   <<[R1 EXCEPT !.bodyProjected = TRUE, !.runtimeBody = "body", !.hybridSource = "physical"]>>,
   <<[R1 EXCEPT !.hybridSource = "simulation", !.poseTopic = <<"sim", "p">>, !.twistTopic = <<"sim", "t">>]>>}

Doc(p) == [readable |-> TRUE, parameters |-> p, robots |-> <<R1>>, runMode |-> "physical", simulator |-> "",
           sameExperiment |-> TRUE, archive |-> TRUE, path |-> TRUE, recordId |-> TRUE, directory |-> "empty"]
Moving == [General EXCEPT !.globalGiven = TRUE, !.includeMotionCapture = TRUE, !.robotTopics = {<<"state">>}]
MCDocuments ==
  {Doc(p) : p \in MCParameters}
  \cup {[Doc(p) EXCEPT !.robots = r, !.runMode = m, !.simulator = s] :
          p \in {General, Moving, [Moving EXCEPT !.slotIds = {"r1"}]}, r \in MCRobots,
          m \in {"physical", "simulation", "hybrid", "?"}, s \in {"", "xsim"}}
  \cup {[Doc(General) EXCEPT !.readable = r, !.sameExperiment = e, !.archive = a, !.path = p, !.recordId = i,
           !.directory = d] :
          r, e, a, p, i \in BOOLEAN, d \in {"empty", "used", "unfinished"}}

-----------------------------------------------------------------------------
(* The clock wait: binary texts of up to five characters, one digit behind *)
(* the point and two as the last second of ROS time, so that every text,   *)
(* right and wrong, is short, and one character too long is possible.      *)

MCTexts == UNION {[1..n -> 0..(Base + 1)] : n \in 0..5}

MCStamps ==
  {[sec |-> s, nsec |-> n] : s \in {0, 2}, n \in {0, 1}}
  \cup {[sec |-> 1, nsec |-> 0], [sec |-> 1, nsec |-> Base ^ FractionDigits]}

-----------------------------------------------------------------------------
(* The probe: every mode, with and without a node and an address; names    *)
(* and sources on both sides of their checks; topics at, below and beside  *)
(* a root.                                                                 *)

NoName == [slashes |-> 0, parts |-> <<>>]
PoseType == "geometry_msgs/PoseStamped"
StateType == "mavros_msgs/State"
N(p) == [slashes |-> 1, parts |-> p]
Opt == [pairs |-> TRUE, mode |-> "master", master |-> TRUE, node |-> NoName, topic |-> NoName,
        expected |-> "", timeout |-> 1, verify |-> "", sources |-> <<>>]
Src(r, t) == [fields |-> TRUE, roots |-> r, topics |-> t]
Bad == [slashes |-> 1, parts |-> <<"?">>]
Rel == [slashes |-> 0, parts |-> <<"a">>]
MCOptions ==
  {[Opt EXCEPT !.mode = m, !.node = n, !.topic = N(<<"a">>), !.verify = v] :
      m \in {"master", "node", "topic", "other"}, n \in {NoName, N(<<"n">>)}, v \in {"", "?", "host"}}
  \cup {[Opt EXCEPT !.mode = m, !.node = n, !.topic = t, !.expected = e] :
      m \in {"message", "mavros-connected"}, n \in {NoName, N(<<"n">>)},
      t \in {Rel, Bad}, e \in {"", StateType, PoseType}}
  \cup {[Opt EXCEPT !.mode = "pose-snapshot", !.sources = s] :
      s \in {<<>>, <<Src({}, {})>>, <<Src({}, {Rel})>>, <<[Src({N(<<"a">>)}, {}) EXCEPT !.fields = FALSE]>>,
             <<Src({N(<<"a">>)}, {}), Src({}, {N(<<"a">>)})>>,
             <<Src({N(<<"a">>)}, {N(<<"b">>)}), Src({N(<<"a">>)}, {})>>,
             <<Src({}, {N(<<"b">>)}), Src({}, {N(<<"b">>)}), Src({}, {N(<<"b">>)})>>}}
  \cup {[Opt EXCEPT !.pairs = FALSE], [Opt EXCEPT !.master = FALSE], [Opt EXCEPT !.expected = "?"],
        [Opt EXCEPT !.timeout = 0], [Opt EXCEPT !.timeout = 3], [Opt EXCEPT !.node = Bad]}
MCMessages ==
  {[topic |-> <<"a">>, from |-> <<"n">>, type |-> StateType, good |-> TRUE],
   [topic |-> <<"a">>, from |-> <<"n">>, type |-> StateType, good |-> FALSE],
   [topic |-> <<"a">>, from |-> <<"other">>, type |-> StateType, good |-> TRUE],
   [topic |-> <<"a">>, from |-> <<"n">>, type |-> PoseType, good |-> TRUE],
   [topic |-> <<"a">>, from |-> <<"n">>, type |-> PoseType, good |-> FALSE],
   [topic |-> <<"b">>, from |-> <<"n">>, type |-> PoseType, good |-> TRUE]}
L(t, y) == [topic |-> t, type |-> y]
MCListings == {{}, {L(<<"a">>, PoseType), L(<<"a", "x">>, PoseType), L(<<"ab">>, PoseType)},
               {L(<<"a">>, PoseType), L(<<"b">>, StateType)}, {L(<<"a">>, "?")}}

-----------------------------------------------------------------------------
(* One input for each command.                                             *)

MCOneDocument == {Doc(General)}
MCOneText == {<<1>>}
MCOneOption == {[Opt EXCEPT !.mode = "message", !.topic = N(<<"a">>)]}
=============================================================================
