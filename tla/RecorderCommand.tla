--------------------------- MODULE RecorderCommand ---------------------------
(***************************************************************************)
(* rosbag_recorder.py as a command: the entry (--prepare or --record), the *)
(* checks before the launch (RecorderRequest), and the recording itself    *)
(* (RecorderProcess).                                                      *)
(***************************************************************************)
EXTENDS RecorderProcess, RecorderRequest

CONSTANTS
  Documents,     \* the requests, with what the archive and the directory hold
  FreeSpace      \* free bytes of the archive's disk

\* The parameters are a record with at least the fields that have a default.
ASSUME DocumentsAssumption ==
  \A d \in Documents :
    {"recordingProfile", "numbers", "compression", "globalTopics"} \subseteq DOMAIN d.parameters

VARIABLES
  argv,
  document,      \* Forgotten once the native recorder was started
  free,
  refusal        \* observation: which check ended the command

request_vars == <<argv, document, free, refusal>>
command_vars == <<vars, request_vars>>

Forgotten == [forgotten |-> TRUE]

CommandInit ==
  /\ InitAt("entry")
  /\ argv \in {"--prepare", "--record", "other"}
  /\ document \in Documents
  /\ free \in FreeSpace
  /\ refusal = "none"

Refuse(check, code) ==
  /\ refusal' = check
  /\ exit' = code
  /\ Goto("exited")

Continue(step) == Goto(step) /\ UNCHANGED <<refusal, exit>>
Aside == UNCHANGED <<childVars, signalVars, full, exit_code, raised, manifest,
                     argv, document, free>>

\* The try clause: a preview ends here, and so does every ValueError.
Entry ==
  /\ pc = "entry"
  /\ CASE argv = "--prepare" ->
            IF document.readable /\ canPrepare(document, TRUE)
            THEN exit' = 0 /\ Goto("exited") /\ UNCHANGED refusal
            ELSE Refuse("request", 2)
       [] argv = "--record" ->
            IF document.readable /\ canPrepare(document, FALSE) /\ document.archive
            THEN Continue("arguments") ELSE Refuse("request", 2)
       [] OTHER -> Refuse("usage", 2)
  /\ Aside

Arguments == record_arguments(document)

\* The path of the archive, and the words of the command line.
CheckArguments ==
  /\ pc = "arguments"
  /\ IF ~document.path THEN Refuse("path", 1)
     ELSE IF ~trusted(Arguments) THEN Refuse("trusted", 1)
     ELSE IF ~patternFits(Arguments) THEN Refuse("pattern", 1)
     ELSE IF ~document.recordId THEN Refuse("identity", 1)
     ELSE Continue("space")
  /\ Aside

\* A directory with a manifest or with volumes is never recorded into (an
\* unfinished one is finalized, see ArchiveFinalization); then the free space.
CheckSpace ==
  /\ pc = "space"
  /\ \/ /\ document.directory = "unfinished"
        /\ Refuse("finalized", 0) \/ Refuse("finalized", FailureCode) \/ Refuse("exists", 1)
     \/ document.directory = "used" /\ Refuse("exists", 1)
     \/ /\ document.directory = "empty"
        /\ IF hasRoom(Arguments, free) THEN Continue("launch") ELSE Refuse("space", 1)
  /\ Aside

\* Its arguments are not looked at again once the recording has a child.
KeepRequest ==
  /\ document' = IF pc = "popen" /\ pc' # pc THEN Forgotten ELSE document
  /\ UNCHANGED <<argv, free, refusal>>

Record == Next /\ KeepRequest

CommandMain == Entry \/ CheckArguments \/ CheckSpace \/ (Main /\ KeepRequest)
CommandNext == Entry \/ CheckArguments \/ CheckSpace \/ Record

\* The script runs, and a native recorder that was told to stop exits.
StoppedChildExits == signalled # {} /\ ChildExits /\ KeepRequest

CommandSpec ==
  /\ CommandInit /\ [][CommandNext]_command_vars
  /\ WF_command_vars(CommandMain) /\ WF_command_vars(StoppedChildExits)

-----------------------------------------------------------------------------
(* Properties.                                                             *)

\* The two halves of the script agree: what prepare and record_arguments let
\* pass, the trusted checks of the recording half never refuse, but for the
\* length of the exclusion pattern, the identity, the path and the disk, which
\* only the recording half can look at.
TrustedAccepts == refusal # "trusted"

\* The topics that the document names, one by one.
Asked(topic) ==
  LET p == document.parameters
      global == IF p.globalGiven THEN p.globalTopics ELSE DefaultTopics
  IN \/ topic \in global
     \/ \E i \in DOMAIN p.cameras : \E t \in p.cameras[i].topics : topic = p.cameras[i].root \o t
     \/ \E i \in DOMAIN document.robots :
          LET r == document.robots[i] IN
          /\ \/ p.slotIds = {}
             \/ r.id \in p.slotIds /\ \A j \in 1 .. i - 1 : document.robots[j].id # r.id
          /\ \/ \E t \in p.robotTopics : topic = r.namespace \o t
             \/ /\ p.includeMotionCapture /\ Measured(r)
                /\ topic \in measurement(r, document.runMode, document.simulator)

\* When the native recorder is started it is told to record every topic the
\* document names, of every robot or of the first one of each slot it asks
\* for, and none that it excludes; with recordAllTopics also every other topic
\* but the display copies nobody named ("explicitly selected copies and
\* scientific sources remain recorded", rosbag_recorder.py:819).  The one topic
\* for which this is not so is the root /xgc/display itself.
RecordsAsAsked ==
  pc = "popen" =>
    LET p == document.parameters
        excluded == {p.excludedTopics[i].topic : i \in DOMAIN p.excludedTopics}
        near == (Arguments.topics \cup excluded \cup
                 {<<"other">>, <<"xgc">>, <<"xgc", "displays">>, Append(Display, "copy"),
                  Append(Display, "other")}) \ {Display}
    IN /\ \A t \in excluded : ~Asked(t)
       /\ \A t \in near :
            Records(Arguments, t) <=>
              \/ Asked(t)
              \/ p.recordAllTopics /\ t \notin excluded /\ ~Under(Display, t)
=============================================================================
