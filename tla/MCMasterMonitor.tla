--------------------------- MODULE MCMasterMonitor ---------------------------
(* Instances of MasterMonitor for TLC. *)
EXTENDS MasterMonitor

CONSTANTS c1

MCCalls1 == {c1}
MCTopics == {"t1"}
MCRequests == {[topic |-> "t1", config |-> "a", count |-> 1]}
==============================================================================
