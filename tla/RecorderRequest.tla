--------------------------- MODULE RecorderRequest ---------------------------
(***************************************************************************)
(* From a frozen request to the command line of the native recorder        *)
(* (rosbag_recorder.py before the launch): normalize_parameters, prepare,  *)
(* resolve_recording_topics and record_arguments, and the checks that the  *)
(* recording half of the script makes anew on what it was given.           *)
(*                                                                         *)
(* A topic is the sequence of its parts, "?" a part that no ROS name has.  *)
(* A document is a record; a field whose checks are only about its own     *)
(* text (paths, URIs, identities, side-car declarations) is a Boolean that *)
(* says whether they pass.  Sizes are in units of one minute at one Mbps.  *)
(***************************************************************************)
EXTENDS Integers, Sequences, FiniteSets

CONSTANTS
  Low, High,                  \* bounds of the numeric parameters
  GeneralDefaults, ScientificDefaults,
  ScientificLimit,            \* scientificTotalLimitBytes
  MaxTopics,                  \* 512 in the code
  MaxTopicParts,              \* 32768 bytes of all topics, counted in parts
  MaxPattern,                 \* names that fit into the exclusion pattern
  UnitsPerGiB

NumberNames == {"splitSizeMiB", "maxSplits", "minFreeSpaceGiB",
                "expectedDurationMinutes", "estimatedVideoBitrateMbps",
                "capacitySafetyFactor"}

ASSUME DefaultsAssumption ==
  \A n \in NumberNames : {GeneralDefaults[n], ScientificDefaults[n]} \subseteq Low[n] .. High[n]

\* The limit of a scientific session is a constant (10 GiB), far above the
\* least volume (64 MiB) that the recording half takes it for.
ASSUME LimitsAssumption ==
  /\ \A n \in NumberNames : {Low[n], High[n]} \subseteq Nat
  /\ ScientificLimit \in Nat /\ ScientificLimit >= Low["splitSizeMiB"]
  /\ {MaxTopics, MaxTopicParts} \subseteq Nat

validName(topic) == topic # <<>> /\ \A i \in DOMAIN topic : topic[i] # "?"
validNames(topics) == \A t \in topics : validName(t)

-----------------------------------------------------------------------------
(* normalize_parameters.                                                   *)

Scientific(p) == p.recordingProfile = "camera_scientific"
DefaultTopics == {<<"tf">>, <<"tf_static">>, <<"clock">>}

\* The defaults: a number that is absent or zero, an empty text, no profile,
\* no list of global topics.
withDefaults(p) ==
  LET profile == IF p.recordingProfile = "" THEN "general" ELSE p.recordingProfile
      scientific == profile = "camera_scientific"
      defaults == IF scientific THEN ScientificDefaults ELSE GeneralDefaults
  IN [p EXCEPT
       !.recordingProfile = profile,
       !.numbers = [n \in NumberNames |-> IF p.numbers[n] = 0 THEN defaults[n]
                                                              ELSE p.numbers[n]],
       !.compression = IF p.compression # "" THEN p.compression
                       ELSE IF scientific THEN "none" ELSE "lz4",
       !.globalTopics = IF p.globalGiven THEN p.globalTopics ELSE DefaultTopics]

\* The two sizes, from the same numbers.
estimatedBytes(n) ==
  n["expectedDurationMinutes"] * n["estimatedVideoBitrateMbps"] * n["capacitySafetyFactor"]
plannedCapacity(n) == n["splitSizeMiB"] * n["maxSplits"]

validCameras(cameras) ==
  /\ \A i \in DOMAIN cameras :
       /\ validName(cameras[i].root) /\ validNames(cameras[i].topics)
       /\ cameras[i].topics # {}
  /\ \A i, j \in DOMAIN cameras : cameras[i].root = cameras[j].root => i = j

validExcluded(excluded) ==
  /\ \A i \in DOMAIN excluded : validName(excluded[i].topic) /\ excluded[i].reason
  /\ \A i, j \in DOMAIN excluded : excluded[i].topic = excluded[j].topic => i = j

\* Mutant: whether the volumes can hold the session is left to the recording.
validParametersAnySize(p, preview) ==
  /\ p.fields /\ p.network /\ p.identities
  /\ p.recordingProfile \in {"general", "camera_scientific"}
  /\ \A n \in NumberNames : p.numbers[n] \in Low[n] .. High[n]
  /\ p.compression \in {"none", "lz4", "bz2"}
  /\ Scientific(p) => p.compression = "none"
  /\ validNames(p.robotTopics \cup p.globalTopics)
  /\ validCameras(p.cameras)
  /\ Scientific(p) <=> p.cameras # <<>>
  /\ Scientific(p) \/ p.includeMotionCapture \/ p.robotTopics \cup p.globalTopics # {}
  /\ Scientific(p) /\ ~preview => p.session
  /\ validExcluded(p.excludedTopics)

\* No check raises.
validParameters(p, preview) ==
  /\ p.fields /\ p.network /\ p.identities
  /\ p.recordingProfile \in {"general", "camera_scientific"}
  /\ \A n \in NumberNames : p.numbers[n] \in Low[n] .. High[n]
  /\ p.compression \in {"none", "lz4", "bz2"}
  /\ Scientific(p) => p.compression = "none"
  /\ validNames(p.robotTopics \cup p.globalTopics)
  /\ validCameras(p.cameras)
  /\ Scientific(p) <=> p.cameras # <<>>
  /\ Scientific(p) \/ p.includeMotionCapture \/ p.robotTopics \cup p.globalTopics # {}
  /\ Scientific(p) /\ ~preview => p.session
  /\ validExcluded(p.excludedTopics)
  /\ Scientific(p) \/ estimatedBytes(p.numbers) <= plannedCapacity(p.numbers)

-----------------------------------------------------------------------------
(* resolve_recording_topics.                                               *)

\* Every robot, or for each requested slot the first robot of that id.
Selects(p, robots, i) ==
  \/ p.slotIds = {}
  \/ robots[i].id \in p.slotIds /\ \A j \in 1 .. i - 1 : robots[j].id # robots[i].id
selectedRobots(p, robots) ==
  {robots[i] : i \in {j \in DOMAIN robots : Selects(p, robots, j)}}

\* A robot with an extension and none of the known kinds is not measured.
Measured(robot) == ~robot.extension

\* The profile that the run mode and the simulator make of the robot's own;
\* "other" has no projection.
localization(robot, mode, simulator) ==
  CASE robot.profile = "other" -> "none"
    [] robot.profile = "mocap-rotor" -> "physical"
    [] OTHER -> IF mode = "physical" \/ (mode = "hybrid" /\ robot.hybridSource = "physical")
                THEN "physical"
                ELSE IF simulator = "xsim" THEN "xsim" ELSE "gazebo"

\* The rigid body under which the robot is measured, "" for none.
rigidBody(robot, profile) ==
  CASE profile = "gazebo" -> IF Len(robot.namespace) = 1 THEN robot.namespace[1] ELSE ""
    [] profile = "physical" -> IF robot.bodyProjected THEN robot.runtimeBody ELSE robot.assetBody
    [] OTHER -> ""

vrpnRoot(robot, mode) ==
  IF mode # "hybrid" THEN "vrpn_client_node"
  ELSE IF robot.hybridSource = "physical" THEN "vrpn_client_node_physical"
  ELSE "vrpn_client_node_simulation"

measurement(robot, mode, simulator) ==
  LET profile == localization(robot, mode, simulator) IN
  IF profile = "xsim" THEN {IF robot.poseTopic # <<>> THEN robot.poseTopic ELSE Append(robot.namespace, "pose"),
                            IF robot.twistTopic # <<>> THEN robot.twistTopic ELSE Append(robot.namespace, "twist")}
  ELSE {<<vrpnRoot(robot, mode), rigidBody(robot, profile), m>> : m \in {"pose", "twist"}}

canMeasure(robot, mode, simulator) ==
  LET profile == localization(robot, mode, simulator) IN
  /\ mode \in {"physical", "simulation", "hybrid"}
  /\ mode = "hybrid" => robot.hybridSource \in {"physical", "simulation"}
  /\ profile # "none"
  /\ profile # "xsim" => rigidBody(robot, profile) # ""
  /\ validNames(measurement(robot, mode, simulator))

cameraTopics(p) ==
  UNION {{p.cameras[i].root \o t : t \in p.cameras[i].topics} : i \in DOMAIN p.cameras}
namespacedTopics(d, p) ==
  UNION {{r.namespace \o t : t \in p.robotTopics} : r \in selectedRobots(p, d.robots)}
measuredTopics(d, p) ==
  UNION {measurement(r, d.runMode, d.simulator) :
           r \in {s \in selectedRobots(p, d.robots) : Measured(s)}}

resolvedTopics(d, p) ==
  p.globalTopics \cup cameraTopics(p) \cup namespacedTopics(d, p)
  \cup IF p.includeMotionCapture THEN measuredTopics(d, p) ELSE {}

excludedNames(p) == {p.excludedTopics[i].topic : i \in DOMAIN p.excludedTopics}

allParts(topics) == UNION {{<<t, i>> : i \in DOMAIN t} : t \in topics}

canResolve(d, p) ==
  LET robots == selectedRobots(p, d.robots)
      measured == {r \in robots : Measured(r)}
      topics == resolvedTopics(d, p)
  IN /\ p.slotIds \subseteq {r.id : r \in robots}
     /\ p.robotTopics # {} => robots # {}
     /\ \A r \in robots : validName(r.namespace)
     /\ p.includeMotionCapture =>
          measured # {} /\ \A r \in measured : canMeasure(r, d.runMode, d.simulator)
     /\ excludedNames(p) \cap topics = {}
     /\ Cardinality(topics) \in 1 .. MaxTopics /\ validNames(topics)
     /\ Cardinality(allParts(topics)) <= MaxTopicParts

\* prepare: nothing raises, up to what is printed or passed on.
canPrepare(d, preview) ==
  LET p == withDefaults(d.parameters) IN
  validParameters(p, preview) /\ d.sameExperiment /\ canResolve(d, p)

-----------------------------------------------------------------------------
(* record_arguments, and the checks of the recording half on them.         *)

\* The words of the command line, and the fields of the manifest among them.
record_arguments(d) ==
  LET p == withDefaults(d.parameters) IN
  [topics |-> resolvedTopics(d, p),
   numbers |-> p.numbers,
   compression |-> p.compression,
   profile |-> p.recordingProfile,
   all |-> p.recordAllTopics,
   excluded |-> excludedNames(p),
   estimated |-> estimatedBytes(p.numbers),
   limit |-> IF Scientific(p) THEN ScientificLimit ELSE 0]

\* The lower bounds of the second check.
trusted(a) ==
  /\ a.topics # {} /\ <<>> \notin a.topics
  /\ a.excluded \cap a.topics = {}
  /\ a.profile \in {"general", "camera_scientific"}
  /\ a.compression \in {"none", "lz4", "bz2"}
  /\ \A n \in NumberNames : a.numbers[n] >= Low[n]
  /\ a.profile = "camera_scientific" => a.limit >= Low["splitSizeMiB"]
  /\ a.estimated = estimatedBytes(a.numbers)
  /\ a.profile = "general" => a.estimated <= plannedCapacity(a.numbers)

\* The topic is the root or has its parts in front.
Under(root, topic) == Len(root) <= Len(topic) /\ SubSeq(topic, 1, Len(root)) = root
Below(root, topic) == Under(root, topic) /\ topic # root
Display == <<"xgc", "display">>
explicitCopies(a) == {t \in a.topics : Below(Display, t)}

\* Mutant: an explicitly selected copy is excluded with the others.
exclusionPatternAllCopies(a, topic) ==
  topic \in a.excluded \/ Under(Display, topic)

\* What the --exclude pattern matches.
exclusionPattern(a, topic) ==
  \/ topic \in a.excluded
  \/ Under(Display, topic) /\ topic \notin explicitCopies(a)

patternFits(a) ==
  a.all => Cardinality(a.excluded) + Cardinality(explicitCopies(a)) <= MaxPattern

\* The topics a native recorder with these words records.
Records(a, topic) == IF a.all THEN ~exclusionPattern(a, topic) ELSE topic \in a.topics

\* The free space over the reserve is enough.
hasRoom(a, free) ==
  LET stop == IF a.profile = "camera_scientific" THEN a.limit ELSE plannedCapacity(a.numbers)
      needed == IF a.estimated < stop THEN a.estimated ELSE stop
      reserve == a.numbers["minFreeSpaceGiB"] * UnitsPerGiB
  IN free > reserve /\ needed <= free - reserve
=============================================================================
