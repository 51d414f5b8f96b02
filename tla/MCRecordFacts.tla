----------------------------- MODULE MCRecordFacts -----------------------------
(* One producer and two declared sources: every continuity a report can     *)
(* have, a text that is refused, a conflict, and each kind of queue item.   *)
EXTENDS RecordFacts

R(sequence, event, mono, ros) ==
  [source |-> "camera", sequence |-> sequence, event |-> event, mono |-> mono,
   ros |-> ros]

MCReport ==
  [text \in {"first", "second", "other", "third"} |->
     CASE text = "first"  -> R(1, "applied", 1, 1)
       [] text = "second" -> R(2, "applied", 2, 2)
       [] text = "other"  -> R(2, "applied", 0, 1)
       [] text = "third"  -> R(3, "stopped", 2, 1)]

MCInbound ==
  {[kind |-> "producer", source |-> "facts", value |-> text] :
     text \in DOMAIN MCReport \cup {"garbage"}}
  \cup {[kind |-> "camera-info", source |-> "cam", value |-> "a"],
        [kind |-> "unavailable", source |-> "ros", value |-> "lost"]}

MCDeclarations == <<<<"calibration-file", "lens">>, <<"parameter", "gain">>>>
=============================================================================
