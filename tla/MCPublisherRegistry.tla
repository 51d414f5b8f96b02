------------------------- MODULE MCPublisherRegistry -------------------------
(* Instances of PublisherRegistry for TLC.                                 *)
EXTENDS PublisherRegistry, TLC

CONSTANTS c1, c2

Req(t, k, n) == [topic |-> t, config |-> k, count |-> n]

\* Two configurations of one topic, a second topic that competes for the only
\* slot, and a request for two messages.
MCRequests == {Req("t1", "a", 2), Req("t1", "b", 1), Req("t2", "a", 1)}

\* One topic requested by everybody, so that calls wait for each other.
MCSharedRequests == {Req("t1", "a", 1)}

MCTopics == {"t1", "t2"}
MCOneTopic == {"t1"}
MCPids == {1, 2}
MCOnePid == {1}
MCOneInterrupt == {"cancelled"}
MCCalls2 == {c1, c2}
Symmetry2 == Permutations(MCCalls2)
=============================================================================
