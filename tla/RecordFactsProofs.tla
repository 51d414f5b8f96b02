--------------------------- MODULE RecordFactsProofs --------------------------
(***************************************************************************)
(* Proofs about RecordFacts, for any queue, any limits, any declared       *)
(* sources and whatever the ROS process sends: the manifest follows the    *)
(* state, its blobs are durable, the validity of the producers' reports,   *)
(* what the samples of the declared sources show, and the account of the   *)
(* items at the end.                                                       *)
(***************************************************************************)
EXTENDS RecordFacts, FiniteSetTheorems, SequenceTheorems, WellFoundedInduction, TLAPS

-----------------------------------------------------------------------------
(* Types.                                                                  *)

Evidences == {"snapshot-observed", "producer-applied", "unavailable"}
Failures == {"invalid", "budget", "write-failed", "sequence-replay"}
Continuities == {None, "first-observed", "prior-events-unobserved", "sequence-gap",
                 "producer-clock-regression", "ros-clock-regression",
                 "consecutive-producer-reports"}

Events == [kind : {k[1] : k \in Keys}, source : {k[2] : k \in Keys},
           evidence : Evidences, value : Payloads \cup Reasons \cup Failures,
           continuity : Continuities, until : {<<>>} \cup (Nat \X Nat),
           endReason : Continuities \cup {"end-not-observed", "applied", "stopped"}]

\* The worker holds an item.
Busy == worker.pc \in {"store", "sync", "append"}

\* What the item at hand is: of the queue, then none of a declared source; or
\* a sample, then of one.  Only a payload is stored, and only a well-formed
\* text of a producer.
ItemInv ==
  Busy =>
    /\ worker.item.evidence \in Evidences
    /\ worker.item.from \in {"messages", "poll"}
    /\ Key(worker.item) \in Keys
    /\ worker.item.from = "messages" => \E m \in Inbound : worker.item.source = m.source
    /\ worker.item.from = "poll" <=> Key(worker.item) \in DeclarationSet
    /\ worker.item.from = "poll" => worker.item.evidence # "producer-applied"
    /\ worker.item.evidence # "unavailable" => worker.item.value \in Payloads
    /\ worker.item.value \in Payloads \cup Reasons \cup Failures
    /\ worker.pc # "append" => worker.item.evidence # "unavailable"
    /\ worker.pc # "store" /\ worker.item.evidence = "producer-applied" =>
         worker.item.value \in DOMAIN Report

ReaderTyped ==
  /\ messages \in Seq(Inbound)
  /\ reader = [pc |-> reader.pc, item |-> reader.item]
  /\ reader.pc \in {"recv", "put", "full", "done"}
  /\ reader.pc \in {"put", "full"} => reader.item \in Inbound

WorkerTyped ==
  /\ worker = [pc |-> worker.pc, item |-> worker.item, left |-> worker.left,
               index |-> worker.index, final |-> worker.final]
  /\ worker.item = [kind |-> worker.item.kind, source |-> worker.item.source,
                    evidence |-> worker.item.evidence, value |-> worker.item.value,
                    from |-> worker.item.from]
  /\ worker.pc \in {"messages", "poll", "store", "sync", "append", "done"}
  /\ worker.index \in Nat \ {0}
  /\ outcome = [d \in DeclarationSet |-> outcome[d]]
  /\ ItemInv

StateTyped ==
  /\ state = [events |-> state.events, status |-> state.status,
              pending |-> state.pending, still |-> state.still]
  /\ state.events \in Seq(Events)
  /\ state.pending \in Nat
  /\ dropped \in Nat
  /\ refused \in Nat
  /\ producers \in [Producers -> 0..Len(state.events)]

PreviousTyped ==
  /\ previous = [seen |-> previous.seen, missing |-> previous.missing]
  /\ previous.seen = [k \in Keys |-> previous.seen[k]]
  /\ previous.missing = [k \in Keys |-> previous.missing[k]]

DiskTyped ==
  /\ blobs = [p \in Payloads |-> blobs[p]]
  /\ stored \subseteq Payloads

Typed == ReaderTyped /\ WorkerTyped /\ StateTyped /\ PreviousTyped /\ DiskTyped

\* What the ROS process sends is never of a declared source.
LEMMA InboundKeys ==
  \A m \in Inbound :
    /\ <<"observer", m.source>> \in Keys \ DeclarationSet
    /\ <<m.kind, m.source>> \in Keys \ DeclarationSet
    /\ m.value \in Payloads
  BY SourcesAssumption, Zenon DEF Keys, Payloads

\* A declaration is a key, and one of the declared ones.
LEMMA DeclaredKeys ==
  \A i \in 1..Len(Declarations) :
    /\ Declarations[i] \in DeclarationSet
    /\ Declarations[i] \in Keys
    /\ Declarations[i] = <<Declarations[i][1], Declarations[i][2]>>
<1> DEFINE S == {d[1] : d \in DeclarationSet} \X {d[2] : d \in DeclarationSet}
<1>1. Declarations \in Seq(S)
  BY SourcesAssumption, Zenon
<1>2. \A i \in 1..Len(Declarations) : Declarations[i] \in S
  BY <1>1, ElementOfSeq, Zenon
<1>3. DOMAIN Declarations = 1..Len(Declarations)
  BY <1>1, LenProperties, Zenon
<1>4. \A i \in 1..Len(Declarations) : Declarations[i] \in DeclarationSet
  BY <1>3, Zenon DEF DeclarationSet
<1>5. \A i \in 1..Len(Declarations) :
        Declarations[i] = <<Declarations[i][1], Declarations[i][2]>>
  BY <1>2
<1>. QED
  BY <1>4, <1>5, Zenon DEF Keys

\* The recorder starts with everything empty.
LEMMA Initially == Init => Typed
  BY BoundsAssumption, EmptySeq DEF Init, Typed, ReaderTyped, WorkerTyped, StateTyped,
     PreviousTyped, DiskTyped, ItemInv, Busy, NoItem

-----------------------------------------------------------------------------
(* The parts of the worker's steps.                                        *)

\* A failure makes an "unavailable" item of the one at hand, which stays of a
\* declared source or of none.
LEMMA FailTyped ==
  ASSUME WorkerTyped, Busy, worker.pc # "append" \/ worker.item.evidence # "unavailable",
         NEW reason \in Failures, Fail(reason)
  PROVE  WorkerTyped'
<1>1. worker' = [pc |-> "append", left |-> worker.left, index |-> worker.index,
                 final |-> worker.final,
                 item |-> [kind |-> IF worker.item.from = "messages" THEN "observer"
                                    ELSE worker.item.kind,
                           source |-> worker.item.source, evidence |-> "unavailable",
                           value |-> reason, from |-> worker.item.from]]
  BY Zenon DEF Fail, WorkerTyped
<1>2. outcome' = [d \in DeclarationSet |-> outcome'[d]]
  BY Zenon DEF Fail, WorkerTyped
<1>3. CASE worker.item.from = "messages"
  <2>1. Key(worker'.item) \in Keys \ DeclarationSet
    BY <1>1, <1>3, InboundKeys, Zenon DEF WorkerTyped, ItemInv, Key
  <2>. QED
    BY <1>1, <1>2, <1>3, <2>1, Zenon DEF WorkerTyped, ItemInv, Busy, Evidences
<1>4. CASE worker.item.from = "poll"
  <2>1. Key(worker'.item) = Key(worker.item)
    BY <1>1, <1>4, Zenon DEF Key
  <2>. QED
    BY <1>1, <1>2, <1>4, <2>1, Zenon DEF WorkerTyped, ItemInv, Busy, Evidences
<1>. QED
  BY <1>3, <1>4, Zenon DEF WorkerTyped, ItemInv

\* The worker goes back to where the item came from.
LEMMA ReturnTyped ==
  ASSUME WorkerTyped, Busy, Return, outcome' = outcome
  PROVE  WorkerTyped'
<1>1. worker' = [pc |-> worker.item.from, item |-> NoItem, left |-> worker.left,
                 index |-> worker.index, final |-> worker.final]
  BY Zenon DEF Return, WorkerTyped
<1>. QED
  BY <1>1, Zenon DEF WorkerTyped, ItemInv, Busy, NoItem

\* The item at hand makes a well-formed event.
LEMMA EventTyped ==
  ASSUME WorkerTyped, worker.pc = "append", NEW continuity \in Continuities,
         NEW endReason \in Continuities \cup {"end-not-observed"}
  PROVE  Event(continuity, endReason) \in Events
<1>1. worker.item.kind \in {k[1] : k \in Keys} /\ worker.item.source \in {k[2] : k \in Keys}
  <2>1. <<worker.item.kind, worker.item.source>> \in Keys
    BY Zenon DEF WorkerTyped, ItemInv, Busy, Key
  <2>. QED
    BY <2>1
<1>2. worker.item.evidence \in Evidences /\ worker.item.value \in Payloads \cup Reasons \cup Failures
  BY Zenon DEF WorkerTyped, ItemInv, Busy
<1>. QED
  BY <1>1, <1>2, Zenon DEF Event, Events

\* An event that is refused is only counted.
LEMMA RefuseTyped ==
  ASSUME StateTyped, Refuse
  PROVE  StateTyped'
  BY DEF StateTyped, Refuse

\* An accepted event is the last one; those before it are as given.
LEMMA AcceptTyped ==
  ASSUME StateTyped, NEW events \in Seq(Events), Len(events) = Len(state.events),
         NEW e \in Events, Accept(Append(events, e)),
         producers' \in [Producers -> 0..(Len(state.events) + 1)]
  PROVE  /\ StateTyped'
         /\ Len(state'.events) = Len(state.events) + 1
         /\ state'.events[Len(state.events) + 1] = e
         /\ \A i \in 1..Len(state.events) : state'.events[i] = events[i]
<1>1. state' = [events |-> Append(events, e), status |-> state.status,
                pending |-> state.pending, still |-> state.still]
  BY Zenon DEF StateTyped, Accept
<1>2. /\ Append(events, e) \in Seq(Events)
      /\ Len(Append(events, e)) = Len(events) + 1
      /\ Append(events, e)[Len(events) + 1] = e
      /\ \A i \in 1..Len(events) : Append(events, e)[i] = events[i]
  BY AppendProperties
<1>. QED
  BY <1>1, <1>2, Zenon DEF StateTyped, Accept

\* A step of the worker that takes up an item, or leaves the one at hand, keeps
\* the types.
LEMMA WorkerUnchanged ==
  ASSUME WorkerTyped, UNCHANGED <<worker, outcome>>
  PROVE  WorkerTyped'
  BY Zenon DEF WorkerTyped, ItemInv, Busy, Key

\* The worker takes the first message of the queue.
LEMMA GetMessageTyped ==
  ASSUME Typed, GetMessage
  PROVE  ReaderTyped' /\ WorkerTyped'
<1>1. messages # <<>> /\ messages \in Seq(Inbound)
  BY Zenon DEF Typed, ReaderTyped, GetMessage
<1> DEFINE m == Head(messages)
<1>2. m \in Inbound /\ Tail(messages) \in Seq(Inbound)
  BY <1>1, HeadTailProperties, Zenon
<1>3. ReaderTyped'
  BY <1>2, Zenon DEF Typed, ReaderTyped, GetMessage
<1>4. worker' = [pc |-> IF ItemOf(m).evidence = "unavailable" THEN "append" ELSE "store",
                 item |-> ItemOf(m), left |-> worker'.left, index |-> worker.index,
                 final |-> worker.final]
  BY Zenon DEF Typed, WorkerTyped, GetMessage
<1>5. /\ <<ItemOf(m).kind, ItemOf(m).source>> \in Keys \ DeclarationSet
      /\ ItemOf(m).source = m.source
      /\ ItemOf(m).value \in Payloads
  BY <1>2, InboundKeys, Zenon DEF ItemOf
<1>6. ItemOf(m).from = "messages" /\ ItemOf(m).evidence \in Evidences
  BY Zenon DEF ItemOf, Evidences
<1>7. ItemOf(m) = [kind |-> ItemOf(m).kind, source |-> ItemOf(m).source,
                   evidence |-> ItemOf(m).evidence, value |-> ItemOf(m).value,
                   from |-> ItemOf(m).from]
  BY Zenon DEF ItemOf
<1> HIDE DEF m
<1>8. WorkerTyped'
  <2>1. UNCHANGED outcome
    BY Zenon DEF GetMessage
  <2>2. Key(worker'.item) \in Keys \ DeclarationSet /\ worker'.item = ItemOf(m)
    BY <1>4, <1>5 DEF Key
  <2>3. worker'.pc = IF ItemOf(m).evidence = "unavailable" THEN "append" ELSE "store"
    BY <1>4
  <2>4. ItemInv'
    BY <1>2, <1>5, <1>6, <2>2, <2>3, Zenon DEF ItemInv, Busy
  <2>. QED
    BY <1>4, <1>7, <2>1, <2>4 DEF Typed, WorkerTyped
<1>. QED
  BY <1>3, <1>8, Zenon

\* The worker reads the next declared source.
LEMMA SampleTyped ==
  ASSUME Typed, Sample
  PROVE  WorkerTyped'
<1> DEFINE d == Declarations[worker.index]
<1>1. worker.index \in 1..Len(Declarations)
  <2>1. Len(Declarations) \in Nat
    BY SourcesAssumption, LenProperties, Zenon
  <2>. QED
    BY <2>1 DEF Typed, WorkerTyped, Sample
<1>2. d \in DeclarationSet /\ d \in Keys /\ d = <<d[1], d[2]>>
  BY <1>1, DeclaredKeys, Zenon
<1> HIDE DEF d
<1>3. ASSUME NEW evidence \in {"snapshot-observed", "unavailable"}, NEW v,
             Read(d, evidence, v),
             evidence = "unavailable" => v \in Reasons,
             evidence # "unavailable" => v \in Payloads
      PROVE  WorkerTyped'
  <2>1. worker' = [pc |-> IF evidence = "unavailable" THEN "append" ELSE "store",
                   item |-> [kind |-> d[1], source |-> d[2], evidence |-> evidence,
                             value |-> v, from |-> "poll"],
                   left |-> worker.left, index |-> worker.index + 1,
                   final |-> worker.final]
    BY <1>3, Zenon DEF Typed, WorkerTyped, Read
  <2>2. outcome' = [x \in DeclarationSet |-> outcome'[x]]
    BY <1>3, Zenon DEF Typed, WorkerTyped, Read
  <2>3. Key(worker'.item) = d
    BY <2>1, <1>2, Zenon DEF Key
  <2>4. ItemInv'
    BY <1>2, <1>3, <2>1, <2>3, Zenon DEF ItemInv, Busy, Evidences
  <2>. QED
    BY <2>1, <2>2, <2>4 DEF Typed, WorkerTyped
<1>4. ASSUME NEW v \in Values, Read(d, "snapshot-observed", v)
      PROVE  WorkerTyped'
  BY <1>3, <1>4, Zenon DEF Payloads
<1>5. ASSUME NEW reason \in Reasons, Read(d, "unavailable", reason)
      PROVE  WorkerTyped'
  BY <1>3, <1>5, Zenon
<1>. QED
  BY <1>4, <1>5, Zenon DEF Sample, d

\* The steps of the worker between two items.
LEMMA StepsBetween ==
  ASSUME WorkerTyped, PassEnds \/ PollEnds
  PROVE  WorkerTyped'
<1>1. \E step \in {"done", "poll", "messages"} :
        worker' = [pc |-> step, item |-> worker.item, left |-> worker'.left,
                   index |-> worker'.index, final |-> worker'.final]
  BY Zenon DEF PassEnds, PollEnds, NextPass, WorkerTyped
<1>2. worker'.index \in Nat \ {0}
  <2>1. NextPass => worker'.index = 1
    BY Zenon DEF NextPass, WorkerTyped
  <2>2. worker' = [worker EXCEPT !.pc = "done", !.left = 0] => worker'.index = worker.index
    BY Zenon DEF WorkerTyped
  <2>3. worker' = [worker EXCEPT !.pc = "poll", !.left = 0] => worker'.index = worker.index
    BY Zenon DEF WorkerTyped
  <2>. QED
    BY <2>1, <2>2, <2>3 DEF PassEnds, PollEnds, WorkerTyped
<1>3. UNCHANGED outcome
  BY Zenon DEF PassEnds, PollEnds
<1>. QED
  BY <1>1, <1>2, <1>3 DEF WorkerTyped, ItemInv, Busy

\* Ending the validity of the last report leaves the events what they are, but
\* for the two fields of that report.
LEMMA EndValidityKeeps ==
  ASSUME Typed, Producing
  PROVE  LET new == EndValidity(state.events)
             ends == LastOf # 0 /\ Before.event = "applied"
             known == Continuity = "consecutive-producer-reports"
         IN /\ new \in Seq(Events)
            /\ Len(new) = Len(state.events)
            /\ \A i \in 1..Len(state.events) :
                 /\ new[i].kind = state.events[i].kind
                 /\ new[i].source = state.events[i].source
                 /\ new[i].evidence = state.events[i].evidence
                 /\ new[i].value = state.events[i].value
                 /\ ~ends \/ i # LastOf => new[i] = state.events[i]
            /\ ends =>
                 /\ new[LastOf].until = IF known THEN <<Now.mono, Now.ros>>
                                                 ELSE state.events[LastOf].until
                 /\ new[LastOf].endReason = IF known THEN Now.event ELSE Continuity
<1> DEFINE L == LastOf
           old == state.events
           new == EndValidity(state.events)
           ends == LastOf # 0 /\ Before.event = "applied"
           known == Continuity = "consecutive-producer-reports"
<1>1. Continuity \in Continuities
  BY Zenon DEF Continuity, Continuities
<1>2. Now.event \in {"applied", "stopped"} /\ <<Now.mono, Now.ros>> \in Nat \X Nat
  BY ReportAssumption, Zenon DEF Now, Producing, At, Typed, WorkerTyped, ItemInv, Busy
<1>3. old \in Seq(Events) /\ DOMAIN old = 1..Len(old)
  BY LenProperties, Zenon DEF Typed, StateTyped
<1>0. L \in 0..Len(old)
  BY Zenon DEF LastOf, Producers, Producing, At, Typed, StateTyped, WorkerTyped, ItemInv, Busy
<1> DEFINE Changed(u, r) ==
             /\ new \in Seq(Events) /\ Len(new) = Len(old)
             /\ \A i \in 1..Len(old) :
                  /\ new[i].kind = old[i].kind /\ new[i].source = old[i].source
                  /\ new[i].evidence = old[i].evidence /\ new[i].value = old[i].value
                  /\ i # L => new[i] = old[i]
             /\ new[L].until = u /\ new[L].endReason = r
<1>4. ASSUME NEW u \in {<<>>} \cup (Nat \X Nat),
             NEW r \in Continuities \cup {"applied", "stopped"},
             L # 0, new = [old EXCEPT ![L] = [@ EXCEPT !.until = u, !.endReason = r]]
      PROVE  Changed(u, r)
  <2> DEFINE e == [old[L] EXCEPT !.until = u, !.endReason = r]
  <2>1. L \in 1..Len(old) /\ old[L] \in Events
    BY <1>0, <1>3, <1>4, ElementOfSeq
  <2>2. e \in Events
    BY <2>1, <1>4, Zenon DEF Events
  <2>3. /\ e.kind = old[L].kind /\ e.source = old[L].source
        /\ e.evidence = old[L].evidence /\ e.value = old[L].value
        /\ e.until = u /\ e.endReason = r
    BY <2>1, Zenon DEF Events
  <2>4. new = [old EXCEPT ![L] = e]
    BY <1>4, Zenon
  <2> HIDE DEF e, new, old, L
  <2>5. /\ new \in Seq(Events) /\ Len(new) = Len(old)
        /\ \A i \in 1..Len(old) : new[i] = IF i = L THEN e ELSE old[i]
    BY <1>3, <2>1, <2>2, <2>4, ExceptSeq
  <2>. QED
    BY <2>1, <2>3, <2>5, Zenon
<1>5. CASE ends /\ known
  <2>1. new = [old EXCEPT ![L] = [@ EXCEPT !.until = <<Now.mono, Now.ros>>,
                                           !.endReason = Now.event]]
    BY <1>0, <1>3, <1>5, Zenon DEF EndValidity
  <2>2. Changed(<<Now.mono, Now.ros>>, Now.event)
    <3> HIDE DEF Changed, new, old
    <3>. QED
      BY <1>2, <1>4, <1>5, <2>1, Zenon
  <2>. QED
    BY <1>5, <2>2, Zenon
<1>6. CASE ends /\ ~known
  <2>1. new = [old EXCEPT ![L] = [@ EXCEPT !.until = old[L].until,
                                           !.endReason = Continuity]]
    BY <1>0, <1>3, <1>6, Zenon DEF EndValidity
  <2>2. old[L].until \in {<<>>} \cup (Nat \X Nat)
    <3>1. old[L] \in Events
      BY <1>0, <1>3, <1>6, ElementOfSeq
    <3>. QED
      BY <3>1, Zenon DEF Events
  <2>3. Changed(old[L].until, Continuity)
    <3> HIDE DEF Changed, new, old, known
    <3>. QED
      BY <1>1, <1>4, <1>6, <2>1, <2>2, Zenon
  <2>. QED
    BY <1>6, <2>3, Zenon
<1>7. CASE ~ends
  BY <1>3, <1>7, Zenon DEF EndValidity
<1>. QED
  BY <1>5, <1>6, <1>7, Zenon

-----------------------------------------------------------------------------
(* What the steps of the worker do to the events.                          *)

\* Event e was appended; the events before it still say what they said.
Appended(e) ==
  /\ e \in Events
  /\ Len(state'.events) = Len(state.events) + 1
  /\ state'.events[Len(state.events) + 1] = e
  /\ \A i \in 1..Len(state.events) :
       /\ state'.events[i].kind = state.events[i].kind
       /\ state'.events[i].source = state.events[i].source
       /\ state'.events[i].evidence = state.events[i].evidence
       /\ state'.events[i].value = state.events[i].value

\* A sample, a queue item or a failure is recorded: no earlier event changes.
LEMMA ObservedAppends ==
  ASSUME Typed, worker.pc = "append",
         Accept(Append(state.events, Event(None, None))), UNCHANGED producers
  PROVE  /\ StateTyped'
         /\ Appended(Event(None, None))
         /\ \A i \in 1..Len(state.events) : state'.events[i] = state.events[i]
<1>1. Event(None, None) \in Events
  BY EventTyped, Zenon DEF Typed, Continuities
<1>2. state.events \in Seq(Events) /\ Len(state.events) \in Nat
  BY LenProperties, Zenon DEF Typed, StateTyped
<1>3. producers' \in [Producers -> 0..(Len(state.events) + 1)]
  BY <1>2 DEF Typed, StateTyped
<1>4. /\ StateTyped'
      /\ Len(state'.events) = Len(state.events) + 1
      /\ state'.events[Len(state.events) + 1] = Event(None, None)
      /\ \A i \in 1..Len(state.events) : state'.events[i] = state.events[i]
  BY <1>1, <1>2, <1>3, AcceptTyped, Zenon DEF Typed
<1>. QED
  BY <1>1, <1>4, Zenon DEF Appended

\* The step that records the report at hand.
RecordReport(endReason) ==
  /\ Producing
  /\ Accept(Append(EndValidity(state.events), Event(Continuity, endReason)))
  /\ producers' = [producers EXCEPT ![Now.source] = Len(state.events) + 1]

\* A producer's report is appended, and closes the validity of the one before.
LEMMA ReportAppends ==
  ASSUME Typed, NEW endReason \in {None, "end-not-observed"}, RecordReport(endReason)
  PROVE  /\ StateTyped'
         /\ Appended(Event(Continuity, endReason))
         /\ \A i \in 1..Len(state.events) :
              state'.events[i] = EndValidity(state.events)[i]
<1>1. Event(Continuity, endReason) \in Events
  <2>1. Continuity \in Continuities
    BY Zenon DEF Continuity, Continuities
  <2>. QED
    BY <2>1, EventTyped, Zenon DEF Typed, RecordReport, Producing, At, Continuities
<1> DEFINE new == EndValidity(state.events)
<1>2. /\ new \in Seq(Events) /\ Len(new) = Len(state.events)
      /\ \A i \in 1..Len(state.events) :
           /\ new[i].kind = state.events[i].kind
           /\ new[i].source = state.events[i].source
           /\ new[i].evidence = state.events[i].evidence
           /\ new[i].value = state.events[i].value
  BY EndValidityKeeps, Zenon DEF RecordReport
<1>3. Len(state.events) \in Nat
  BY LenProperties, Zenon DEF Typed, StateTyped
<1>4. producers' \in [Producers -> 0..(Len(state.events) + 1)]
  <2> DEFINE n == Len(state.events)
  <2>1. producers \in [Producers -> 0..n]
    BY Zenon DEF Typed, StateTyped
  <2>2. producers' = [producers EXCEPT ![Now.source] = n + 1]
    BY Zenon DEF RecordReport
  <2>3. n \in Nat
    BY <1>3, Zenon
  <2> HIDE DEF n
  <2>4. producers' \in [Producers -> 0..(n + 1)]
    <3>1. \A p \in Producers : producers[p] \in 0..(n + 1)
      BY <2>1, <2>3
    <3>2. n + 1 \in 0..(n + 1)
      BY <2>3
    <3>. QED
      BY <2>1, <2>2, <3>1, <3>2, Zenon
  <2>. QED
    BY <2>4, Zenon DEF n
<1> HIDE DEF new
<1>5. Accept(Append(new, Event(Continuity, endReason)))
  BY Zenon DEF RecordReport, new
<1>6. /\ StateTyped'
      /\ Len(state'.events) = Len(state.events) + 1
      /\ state'.events[Len(state.events) + 1] = Event(Continuity, endReason)
      /\ \A i \in 1..Len(state.events) : state'.events[i] = new[i]
  BY <1>1, <1>2, <1>4, <1>5, AcceptTyped, Zenon DEF Typed
<1>. QED
  BY <1>1, <1>2, <1>6, Zenon DEF Appended, new

-----------------------------------------------------------------------------
(* Every step keeps the types.                                             *)

\* The steps of the reader thread.
LEMMA ReaderSteps ==
  ASSUME Typed, Reader
  PROVE  Typed'
<1>1. UNCHANGED <<worker, outcome, state, refused, producers, previous, blobs, stored>>
  BY Zenon DEF Reader, Recv, Put, Drop, ReaderEnds, eventVars, diskVars
<1>2. WorkerTyped' /\ PreviousTyped' /\ DiskTyped'
  BY <1>1, WorkerUnchanged, Zenon DEF Typed, PreviousTyped, DiskTyped
<1>3. StateTyped'
  <2>1. dropped' \in Nat
    BY DEF Typed, StateTyped, Reader, Recv, Put, Drop, ReaderEnds, eventVars
  <2>. QED
    BY <1>1, <2>1, Zenon DEF Typed, StateTyped
<1>4. ReaderTyped'
  <2>1. ASSUME NEW m \in Inbound, Recv(m) PROVE ReaderTyped'
    BY <2>1, Zenon DEF Recv, Typed, ReaderTyped
  <2>2. CASE Put
    <3>1. reader.item \in Inbound /\ messages \in Seq(Inbound)
      BY <2>2, Zenon DEF Put, Typed, ReaderTyped
    <3>2. Append(messages, reader.item) \in Seq(Inbound)
      BY <3>1, AppendProperties, Zenon
    <3>. QED
      BY <2>2, <3>1, <3>2, SMTT(30) DEF Put, Typed, ReaderTyped
  <2>3. CASE Drop
    BY <2>3, Zenon DEF Drop, Typed, ReaderTyped
  <2>4. CASE ReaderEnds
    BY <2>4, Zenon DEF ReaderEnds, Typed, ReaderTyped
  <2>. QED
    BY <2>1, <2>2, <2>3, <2>4, Zenon DEF Reader
<1>. QED
  BY <1>2, <1>3, <1>4, Zenon DEF Typed

\* The steps of the main thread, which records no event.
LEMMA MainSteps ==
  ASSUME Typed, Main
  PROVE  Typed' /\ state'.events = state.events
<1>1. UNCHANGED <<worker, outcome, messages, reader, previous, producers, blobs, stored>>
  BY Zenon DEF Main, TakeSnapshot, LeaveLoop, Close, Seal, LookAtThreads, LastSnapshot, Save,
     readerVars, eventVars, diskVars
<1>2. UNCHANGED <<dropped, refused>>
  BY Zenon DEF Main, TakeSnapshot, LeaveLoop, Close, Seal, LookAtThreads, LastSnapshot, Save,
     eventVars
<1>3. Len(messages) \in Nat
  BY LenProperties, Zenon DEF Typed, ReaderTyped
<1>4. \E status, pending, still :
        /\ state' = [events |-> state.events, status |-> status, pending |-> pending,
                     still |-> still]
        /\ pending \in Nat
  <2>1. CASE Seal
    BY <2>1, <1>3, Zenon DEF Seal, Typed, StateTyped
  <2>2. CASE LookAtThreads
    BY <2>2, Zenon DEF LookAtThreads, Typed, StateTyped
  <2>3. CASE UNCHANGED state
    BY <2>3, Zenon DEF Typed, StateTyped
  <2>. QED
    BY <2>1, <2>2, <2>3, Zenon
       DEF Main, TakeSnapshot, LeaveLoop, Close, LastSnapshot, Save, eventVars
<1>5. StateTyped' /\ state'.events = state.events
  BY <1>1, <1>2, <1>4 DEF Typed, StateTyped
<1>. QED
  BY <1>1, <1>5, WorkerUnchanged, Zenon DEF Typed, ReaderTyped, PreviousTyped, DiskTyped

\* The steps of the worker that record nothing.
Silent ==
  \/ GetMessage \/ PassEnds \/ Sample \/ PollEnds
  \/ RejectText \/ SameAsBefore \/ StoreBegins \/ StoreEnds
  \/ ReportRepeated \/ ReportReplayed

\* The steps of the worker that record nothing.
LEMMA SilentSteps ==
  ASSUME Typed, Silent
  PROVE  Typed' /\ UNCHANGED <<state, dropped, changed, producers, refused>>
<1>1. UNCHANGED <<state, dropped, changed, producers, refused>>
  BY Zenon DEF Silent, GetMessage, PassEnds, Sample, PollEnds, RejectText, SameAsBefore,
     StoreBegins, StoreEnds, ReportRepeated, ReportReplayed, eventVars
<1>2. StateTyped'
  BY <1>1, Zenon DEF Typed, StateTyped
<1>3. PreviousTyped'
  <2>1. SameAsBefore \/ UNCHANGED previous
    BY Zenon DEF Silent, GetMessage, PassEnds, Sample, PollEnds, RejectText,
       StoreBegins, StoreEnds, ReportRepeated, ReportReplayed, eventVars
  <2>2. CASE SameAsBefore
    BY <2>2, Zenon DEF SameAsBefore, Typed, PreviousTyped
  <2>. QED
    BY <2>1, <2>2, Zenon DEF Typed, PreviousTyped
<1>4. ReaderTyped'
  <2>1. CASE GetMessage
    BY <2>1, GetMessageTyped, Zenon
  <2>2. CASE UNCHANGED readerVars
    BY <2>2, Zenon DEF readerVars, Typed, ReaderTyped
  <2>. QED
    BY <2>1, <2>2, Zenon DEF Silent, PassEnds, Sample, PollEnds, RejectText, SameAsBefore,
       StoreBegins, StoreEnds, ReportRepeated, ReportReplayed
<1>5. DiskTyped'
  <2>1. CASE StoreBegins
    BY <2>1, Zenon DEF StoreBegins, Typed, DiskTyped
  <2>2. CASE StoreEnds
    <3>1. worker.item.value \in Payloads
      BY <2>2, Zenon DEF StoreEnds, At, Typed, WorkerTyped, ItemInv, Busy
    <3>. QED
      BY <2>2, <3>1, Zenon DEF StoreEnds, Typed, DiskTyped
  <2>3. CASE UNCHANGED diskVars
    BY <2>3, Zenon DEF diskVars, Typed, DiskTyped
  <2>. QED
    BY <2>1, <2>2, <2>3, Zenon DEF Silent, GetMessage, PassEnds, Sample, PollEnds, RejectText,
       SameAsBefore, ReportRepeated, ReportReplayed
<1>6. WorkerTyped'
  <2>1. CASE GetMessage
    BY <2>1, GetMessageTyped, Zenon
  <2>2. CASE PassEnds \/ PollEnds
    BY <2>2, StepsBetween, Zenon DEF Typed
  <2>3. CASE Sample
    BY <2>3, SampleTyped, Zenon
  <2>4. CASE RejectText \/ ReportReplayed
    <3>1. "invalid" \in Failures /\ "sequence-replay" \in Failures
      BY Zenon DEF Failures
    <3>2. Busy /\ worker.item.evidence # "unavailable"
      BY <2>4, Zenon DEF RejectText, ReportReplayed, Producing, At, Busy
    <3>3. Fail("invalid") \/ Fail("sequence-replay")
      BY <2>4, Zenon DEF RejectText, ReportReplayed
    <3>. QED
      BY <3>1, <3>2, <3>3, FailTyped, Zenon DEF Typed
  <2>5. CASE SameAsBefore \/ ReportRepeated
    BY <2>5, ReturnTyped, Zenon DEF SameAsBefore, ReportRepeated, Producing, At, Busy, Typed
  <2>6. CASE StoreBegins
    <3>1. Busy /\ worker.pc = "store" /\ {"budget", "write-failed"} \subseteq Failures
      BY <2>6, Zenon DEF StoreBegins, Storing, At, Busy, Failures
    <3>2. CASE Fail("budget") \/ Fail("write-failed")
      BY <3>1, <3>2, FailTyped, Zenon DEF Typed
    <3>3. ASSUME NEW step \in {"append", "sync"},
                 worker' = [worker EXCEPT !.pc = step], UNCHANGED outcome
          PROVE  WorkerTyped'
      <4>1. worker' = [pc |-> step, item |-> worker.item, left |-> worker.left,
                       index |-> worker.index, final |-> worker.final]
        BY <3>3, Zenon DEF Typed, WorkerTyped
      <4>2. worker.item.evidence = "producer-applied" => worker.item.value \in DOMAIN Report
        BY <2>6, Zenon DEF StoreBegins, Storing
      <4>3. ItemInv'
        BY <3>1, <4>1, <4>2, Zenon DEF Typed, WorkerTyped, ItemInv, Busy, Key
      <4>. QED
        BY <4>1, <4>3, <3>3, Zenon DEF Typed, WorkerTyped
    <3>. QED
      BY <2>6, <3>2, <3>3, Zenon DEF StoreBegins
  <2>7. CASE StoreEnds
    <3>1. Busy /\ worker.pc = "sync" /\ "write-failed" \in Failures
      BY <2>7, Zenon DEF StoreEnds, At, Busy, Failures
    <3>2. CASE Fail("write-failed")
      BY <3>1, <3>2, FailTyped, Zenon DEF Typed
    <3>3. CASE worker' = [worker EXCEPT !.pc = "append"] /\ UNCHANGED outcome
      <4>1. worker' = [pc |-> "append", item |-> worker.item, left |-> worker.left,
                       index |-> worker.index, final |-> worker.final]
        BY <3>3, Zenon DEF Typed, WorkerTyped
      <4>2. ItemInv'
        BY <3>1, <4>1, Zenon DEF Typed, WorkerTyped, ItemInv, Busy, Key
      <4>. QED
        BY <4>1, <4>2, <3>3, Zenon DEF Typed, WorkerTyped
    <3>. QED
      BY <2>7, <3>2, <3>3, Zenon DEF StoreEnds
  <2>. QED
    BY <2>1, <2>2, <2>3, <2>4, <2>5, <2>6, <2>7, Zenon DEF Silent
<1>. QED
  BY <1>1, <1>2, <1>3, <1>4, <1>5, <1>6, Zenon DEF Typed

\* The steps of the worker that record an event, or are refused.
Recording == AppendObservation \/ AppendUnavailable \/ AppendReport

\* What the steps that record an event have in common.
LEMMA RecordingStep ==
  ASSUME Typed, Recording
  PROVE  /\ worker.pc = "append" /\ Busy /\ Return
         /\ UNCHANGED <<readerVars, diskVars, mainVars, outcome, inputs>>
         /\ AppendObservation => worker.item.evidence = "snapshot-observed"
         /\ AppendUnavailable => worker.item.evidence = "unavailable"
         /\ AppendReport => worker.item.evidence = "producer-applied"
  BY Zenon
     DEF Recording, AppendObservation, AppendUnavailable, AppendReport, Producing, At, Busy

\* Whatever a recording step does, it refuses the item, appends its event, or
\* finds nothing new to say.
LEMMA RecordingCases ==
  ASSUME Recording
  PROVE  \/ Refuse
         \/ AppendUnavailable /\ UNCHANGED eventVars
         \/ /\ AppendObservation \/ AppendUnavailable
            /\ Accept(Append(state.events, Event(None, None))) /\ UNCHANGED producers
         \/ /\ AppendReport
            /\ \E endReason \in {None, "end-not-observed"} :
                 /\ RecordReport(endReason)
                 /\ endReason = IF Now.event = "stopped" THEN None ELSE "end-not-observed"
<1>1. CASE AppendObservation
  BY <1>1, Zenon DEF AppendObservation
<1>2. CASE AppendUnavailable
  BY <1>2, Zenon DEF AppendUnavailable
<1>3. CASE AppendReport
  BY <1>3, Zenon DEF AppendReport, RecordReport
<1>. QED
  BY <1>1, <1>2, <1>3, Zenon DEF Recording

\* The steps that record an event keep the types.
LEMMA RecordingTyped ==
  ASSUME Typed, Recording
  PROVE  Typed'
<1>1. /\ worker.pc = "append" /\ Busy /\ Return
      /\ UNCHANGED <<messages, reader, blobs, stored, outcome>>
  BY RecordingStep, Zenon DEF readerVars, diskVars
<1>2. WorkerTyped'
  BY <1>1, ReturnTyped, Zenon DEF Typed
<1>3. StateTyped'
  <2>1. CASE Refuse
    BY <2>1, RefuseTyped, Zenon DEF Typed
  <2>2. CASE UNCHANGED eventVars
    BY <2>2, Zenon DEF eventVars, Typed, StateTyped
  <2>3. CASE Accept(Append(state.events, Event(None, None))) /\ UNCHANGED producers
    BY <2>3, <1>1, ObservedAppends, Zenon
  <2>4. ASSUME NEW endReason \in {None, "end-not-observed"}, RecordReport(endReason)
        PROVE  StateTyped'
    BY <2>4, ReportAppends, Zenon
  <2>. QED
    BY <2>1, <2>2, <2>3, <2>4, RecordingCases, Zenon
<1>4. PreviousTyped'
  <2>1. CASE AppendObservation
    BY <2>1, ZenonT(30) DEF AppendObservation, Typed, PreviousTyped
  <2>2. CASE AppendUnavailable
    BY <2>2, Zenon DEF AppendUnavailable, eventVars, Typed, PreviousTyped
  <2>3. CASE AppendReport
    BY <2>3, Zenon DEF AppendReport, Typed, PreviousTyped
  <2>. QED
    BY <2>1, <2>2, <2>3, Zenon DEF Recording
<1>. QED
  BY <1>1, <1>2, <1>3, <1>4, Zenon DEF Typed, ReaderTyped, DiskTyped

\* Every step is one of the reader, of the worker or of the main thread.
LEMMA NextCases == Next <=> Reader \/ Silent \/ Recording \/ Main
  BY Zenon DEF Next, Worker, Silent, Recording

\* A step that changes nothing.
LEMMA Stuttering ==
  ASSUME Typed, UNCHANGED vars
  PROVE  Typed'
  BY WorkerUnchanged, Zenon
     DEF vars, readerVars, eventVars, diskVars, Typed, ReaderTyped, StateTyped,
     PreviousTyped, DiskTyped

\* Every variable of the recorder keeps its shape: queue, item at hand, events,
\* memory of the last samples and blobs on disk.
THEOREM TypesHold == Spec => []Typed
<1>1. Typed /\ [Next]_vars => Typed'
  BY ReaderSteps, SilentSteps, RecordingTyped, MainSteps, Stuttering, NextCases, Zenon
<1>. QED
  BY <1>1, Initially, PTL DEF Spec

-----------------------------------------------------------------------------
(* The manifest and the state.                                             *)

\* The revision is advanced with every change another thread could miss: when
\* it is the persisted one, the manifest in memory is the state as it is.
THEOREM ManifestCurrent == Spec => []SnapshotCurrent
<1>1. Init => SnapshotCurrent
  BY Zenon DEF Init, SnapshotCurrent
<1>2. Typed /\ SnapshotCurrent /\ [Next]_vars => SnapshotCurrent'
  <2> SUFFICES ASSUME Typed, SnapshotCurrent, [Next]_vars
               PROVE  SnapshotCurrent'
    BY Zenon
  <2>1. CASE Reader
    BY <2>1, Zenon
       DEF Reader, Recv, Put, Drop, ReaderEnds, SnapshotCurrent, Current, mainVars, eventVars
  <2>2. CASE Silent
    <3>1. UNCHANGED mainVars
      BY <2>2, Zenon
         DEF Silent, GetMessage, PassEnds, Sample, PollEnds, RejectText, SameAsBefore,
         StoreBegins, StoreEnds, ReportRepeated, ReportReplayed
    <3>. QED
      BY <2>2, <3>1, SilentSteps, Zenon DEF SnapshotCurrent, Current, mainVars
  <2>3. CASE Recording
    <3>1. UNCHANGED mainVars
      BY <2>3, RecordingStep, Zenon
    <3>2. changed' = TRUE \/ UNCHANGED <<state, dropped, changed>>
      BY <2>3, RecordingCases, Zenon DEF Refuse, Accept, RecordReport, eventVars
    <3>. QED
      BY <3>1, <3>2, Zenon DEF SnapshotCurrent, Current, mainVars
  <2>4. CASE Main
    <3>1. CASE TakeSnapshot \/ LastSnapshot
      BY <3>1, Zenon DEF TakeSnapshot, LastSnapshot, Save, SnapshotCurrent, Current
    <3>2. CASE LeaveLoop \/ Close
      BY <3>2, Zenon DEF LeaveLoop, Close, SnapshotCurrent, Current, eventVars
    <3>3. CASE Seal \/ LookAtThreads
      BY <3>3, Zenon DEF Seal, LookAtThreads, SnapshotCurrent
    <3>. QED
      BY <2>4, <3>1, <3>2, <3>3, Zenon DEF Main
  <2>5. CASE UNCHANGED vars
    BY <2>5, Zenon DEF vars, eventVars, mainVars, SnapshotCurrent, Current
  <2>. QED
    BY <2>1, <2>2, <2>3, <2>4, <2>5, NextCases, Zenon
<1>. QED
  BY <1>1, <1>2, TypesHold, PTL DEF Spec

-----------------------------------------------------------------------------
(* The blobs.                                                              *)

EventsStored(events) ==
  \A j \in DOMAIN events : events[j].evidence # "unavailable" => events[j].value \in stored

\* Stored is what is durable; every payload an event names, in the state, in
\* memory and on disk, is stored; the payload being written is not.
BlobInv ==
  /\ \A p \in Payloads : p \in stored <=> blobs[p] = "durable"
  /\ worker.pc = "sync" => worker.item.value \notin stored
  /\ worker.pc = "append" /\ worker.item.evidence # "unavailable" =>
       worker.item.value \in stored
  /\ EventsStored(state.events)
  /\ \A i \in DOMAIN document : EventsStored(document[i].state.events)
  /\ \A i \in DOMAIN saved : EventsStored(saved[i].state.events)

\* A failure names no payload.
LEMMA FailMakes ==
  ASSUME WorkerTyped, NEW reason, Fail(reason)
  PROVE  worker'.pc = "append" /\ worker'.item.evidence = "unavailable"
  BY Zenon DEF Fail, WorkerTyped

\* A payload is named by an item only once its blob is durable.
LEMMA BlobSilent ==
  ASSUME Typed, BlobInv, Silent
  PROVE  BlobInv'
<1>0. UNCHANGED <<state, document, saved>>
  <2>1. UNCHANGED <<document, saved>>
    BY Zenon DEF Silent, GetMessage, PassEnds, Sample, PollEnds, RejectText, SameAsBefore,
       StoreBegins, StoreEnds, ReportRepeated, ReportReplayed, mainVars
  <2>. QED
    BY <2>1, SilentSteps, Zenon
<1> DEFINE Handed == /\ worker'.pc = "sync" => worker'.item.value \notin stored'
                     /\ worker'.pc = "append" /\ worker'.item.evidence # "unavailable" =>
                          worker'.item.value \in stored'
           Files == \A p \in Payloads : p \in stored' <=> blobs'[p] = "durable"
<1>1. stored \subseteq stored' /\ Handed /\ Files
  <2>1. CASE StoreBegins
    <3>1. worker.item.value \in Payloads
      BY <2>1, Zenon DEF StoreBegins, Storing, At, Typed, WorkerTyped, ItemInv, Busy
    <3>2. UNCHANGED stored
      BY <2>1, Zenon DEF StoreBegins
    <3>3. Files
      BY <2>1, <3>1, <3>2, Zenon DEF StoreBegins, BlobInv, Typed, DiskTyped
    <3>4. CASE Fail("budget") \/ Fail("write-failed")
      <4>1. worker'.pc = "append" /\ worker'.item.evidence = "unavailable"
        BY <3>4, FailMakes, Zenon DEF Typed
      <4>. QED
        BY <3>2, <3>3, <4>1, Zenon
    <3>5. CASE worker.item.value \in stored /\ worker' = [worker EXCEPT !.pc = "append"]
      BY <3>2, <3>3, <3>5, Zenon DEF Typed, WorkerTyped
    <3>6. CASE worker.item.value \notin stored /\ worker' = [worker EXCEPT !.pc = "sync"]
      BY <3>2, <3>3, <3>6, Zenon DEF Typed, WorkerTyped
    <3>. QED
      BY <2>1, <3>4, <3>5, <3>6, Zenon DEF StoreBegins
  <2>2. CASE StoreEnds
    <3>1. worker.item.value \in Payloads /\ worker.item.value \notin stored
      BY <2>2, Zenon DEF StoreEnds, At, Typed, WorkerTyped, ItemInv, Busy, BlobInv
    <3>2. CASE Fail("write-failed") /\ UNCHANGED stored
               /\ blobs' = [blobs EXCEPT ![worker.item.value] = "absent"]
      <4>1. worker'.pc = "append" /\ worker'.item.evidence = "unavailable"
        BY <3>2, FailMakes, Zenon DEF Typed
      <4>2. Files
        BY <3>1, <3>2, Zenon DEF BlobInv, Typed, DiskTyped
      <4>. QED
        BY <3>2, <4>1, <4>2, Zenon
    <3>3. CASE /\ worker' = [worker EXCEPT !.pc = "append"]
               /\ stored' = stored \cup {worker.item.value}
               /\ blobs' = [blobs EXCEPT ![worker.item.value] = "durable"]
      <4>1. worker'.pc = "append" /\ worker'.item.value = worker.item.value
        BY <3>3, Zenon DEF Typed, WorkerTyped
      <4>2. Files
        BY <3>1, <3>3, Zenon DEF BlobInv, Typed, DiskTyped
      <4>. QED
        BY <3>3, <4>1, <4>2
    <3>. QED
      BY <2>2, <3>2, <3>3, Zenon DEF StoreEnds
  <2>3. ASSUME UNCHANGED <<blobs, stored>>,
               \/ worker'.pc \notin {"sync", "append"}
               \/ worker'.pc = "append" /\ worker'.item.evidence = "unavailable"
        PROVE  stored \subseteq stored' /\ Handed /\ Files
    BY <2>3, Zenon DEF BlobInv
  <2>4. CASE GetMessage
    <3>1. \/ worker'.pc = "store"
          \/ worker'.pc = "append" /\ worker'.item.evidence = "unavailable"
      BY <2>4, Zenon DEF GetMessage, Typed, WorkerTyped
    <3>. QED
      BY <2>3, <2>4, <3>1, Zenon DEF GetMessage, diskVars
  <2>5. CASE Sample
    <3>1. ASSUME NEW d, NEW evidence, NEW v, Read(d, evidence, v)
          PROVE  \/ worker'.pc = "store"
                 \/ worker'.pc = "append" /\ worker'.item.evidence = "unavailable"
      BY <3>1, Zenon DEF Read, Typed, WorkerTyped
    <3>2. \/ worker'.pc = "store"
          \/ worker'.pc = "append" /\ worker'.item.evidence = "unavailable"
      BY <2>5, <3>1, Zenon DEF Sample
    <3>. QED
      BY <2>3, <2>5, <3>2, Zenon DEF Sample, diskVars
  <2>6. CASE PassEnds \/ PollEnds
    <3>1. worker'.pc \in {"messages", "poll", "done"}
      BY <2>6, Zenon DEF PassEnds, PollEnds, NextPass, Typed, WorkerTyped
    <3>. QED
      BY <2>3, <2>6, <3>1, Zenon DEF PassEnds, PollEnds, diskVars
  <2>7. CASE RejectText \/ ReportReplayed
    <3>1. worker'.pc = "append" /\ worker'.item.evidence = "unavailable"
      BY <2>7, FailMakes, Zenon DEF RejectText, ReportReplayed, Typed
    <3>. QED
      BY <2>3, <2>7, <3>1, Zenon DEF RejectText, ReportReplayed, diskVars
  <2>8. CASE SameAsBefore \/ ReportRepeated
    <3>1. worker'.pc \in {"messages", "poll"}
      BY <2>8, Zenon
         DEF SameAsBefore, ReportRepeated, Producing, At, Return, Typed, WorkerTyped,
         ItemInv, Busy
    <3>. QED
      BY <2>3, <2>8, <3>1, Zenon DEF SameAsBefore, ReportRepeated, diskVars
  <2>. QED
    BY <2>1, <2>2, <2>4, <2>5, <2>6, <2>7, <2>8, Zenon DEF Silent
<1>. QED
  BY <1>0, <1>1, Zenon DEF BlobInv, EventsStored

\* An event names the payload of the item at hand.
LEMMA BlobRecording ==
  ASSUME Typed, BlobInv, Recording
  PROVE  BlobInv'
<1>1. /\ worker.pc = "append" /\ Busy /\ Return
      /\ UNCHANGED <<blobs, stored, document, saved>>
  BY RecordingStep, Zenon DEF diskVars, mainVars
<1>2. worker'.pc \in {"messages", "poll"}
  BY <1>1, Zenon DEF Return, Typed, WorkerTyped, ItemInv
<1>3. DOMAIN state.events = 1..Len(state.events) /\ Len(state.events) \in Nat
  BY LenProperties, Zenon DEF Typed, StateTyped
<1>4. EventsStored(state.events)'
  <2>1. CASE UNCHANGED state
    BY <1>1, <2>1, Zenon DEF BlobInv, EventsStored
  <2>2. ASSUME NEW e, Appended(e), StateTyped', e.evidence = worker.item.evidence,
               e.value = worker.item.value
        PROVE  EventsStored(state.events)'
    <3>1. DOMAIN state'.events = 1..(Len(state.events) + 1)
      BY <2>2, LenProperties, Zenon DEF StateTyped, Appended
    <3>2. \A i \in 1..Len(state.events) :
            state'.events[i].evidence # "unavailable" => state'.events[i].value \in stored
      BY <2>2, <1>3, Zenon DEF Appended, BlobInv, EventsStored
    <3>3. LET n == Len(state.events) + 1 IN
            state'.events[n].evidence # "unavailable" => state'.events[n].value \in stored
      BY <1>1, <2>2, Zenon DEF Appended, BlobInv
    <3>. QED
      BY <1>1, <1>3, <3>1, <3>2, <3>3, SMTT(20) DEF EventsStored
  <2>3. \A c, r : /\ Event(c, r).evidence = worker.item.evidence
                  /\ Event(c, r).value = worker.item.value
    BY Zenon DEF Event
  <2>4. CASE Accept(Append(state.events, Event(None, None))) /\ UNCHANGED producers
    BY <1>1, <2>2, <2>3, <2>4, ObservedAppends, Zenon
  <2>5. ASSUME NEW r \in {None, "end-not-observed"}, RecordReport(r)
        PROVE  EventsStored(state.events)'
    BY <2>2, <2>3, <2>5, ReportAppends, Zenon
  <2>. QED
    BY <2>1, <2>4, <2>5, RecordingCases, Zenon DEF Refuse, eventVars
<1>. QED
  BY <1>1, <1>2, <1>4, Zenon DEF BlobInv, EventsStored

\* A snapshot names what the state names.
LEMMA BlobMain ==
  ASSUME Typed, BlobInv, Main
  PROVE  BlobInv'
<1>1. UNCHANGED <<worker, blobs, stored>> /\ state'.events = state.events
  BY MainSteps, Zenon
     DEF Main, TakeSnapshot, LeaveLoop, Close, Seal, LookAtThreads, LastSnapshot,
     Save, diskVars
<1>2. \/ UNCHANGED <<document, saved>>
      \/ document' = <<Current>> /\ (saved' = <<Current>> \/ UNCHANGED saved)
  BY Zenon DEF Main, TakeSnapshot, LeaveLoop, Close, Seal, LookAtThreads, LastSnapshot, Save
<1>3. \A i \in DOMAIN <<Current>> : EventsStored(<<Current>>[i].state.events)
  BY DEF BlobInv, Current
<1>4. \A i \in DOMAIN document' : EventsStored(document'[i].state.events)
  BY <1>2, <1>3, Zenon DEF BlobInv
<1>5. \A i \in DOMAIN saved' : EventsStored(saved'[i].state.events)
  BY <1>2, <1>3, Zenon DEF BlobInv
<1>6. \A i \in DOMAIN document' : (EventsStored(document[i].state.events))'
  BY <1>1, <1>4, Zenon DEF EventsStored
<1>7. \A i \in DOMAIN saved' : (EventsStored(saved[i].state.events))'
  BY <1>1, <1>5, Zenon DEF EventsStored
<1>8. (EventsStored(state.events))'
  BY <1>1, Zenon DEF BlobInv, EventsStored
<1>. QED
  BY <1>1, <1>6, <1>7, <1>8, Zenon DEF BlobInv

\* BlobInv is invariant: _store_blob has synced a payload, and its directory,
\* before any event, snapshot or file on disk names it.
THEOREM BlobsHold == Spec => []BlobInv
<1>1. Init => BlobInv
  BY SMTT(40) DEF Init, BlobInv, EventsStored
<1>2. Typed /\ BlobInv /\ [Next]_vars => BlobInv'
  <2> SUFFICES ASSUME Typed, BlobInv, [Next]_vars
               PROVE  BlobInv'
    BY Zenon
  <2>1. CASE Reader \/ UNCHANGED vars
    <3>1. UNCHANGED <<worker, blobs, stored, state, document, saved>>
      BY <2>1, Zenon
         DEF Reader, Recv, Put, Drop, ReaderEnds, vars, mainVars, eventVars, diskVars
    <3>. QED
      BY <3>1, Zenon DEF BlobInv, EventsStored
  <2>. QED
    BY <2>1, BlobSilent, BlobRecording, BlobMain, NextCases, Zenon
<1>. QED
  BY <1>1, <1>2, TypesHold, PTL DEF Spec

\* "A partial blob is never referenced by the manifest": the events of whatever
\* manifest is on disk name only blobs whose file and directory were synced,
\* after a kill in any state too.
THEOREM ReferencedBlobsDurable == Spec => []BlobsDurable
<1>1. Typed /\ BlobInv => BlobsDurable
  BY Zenon DEF Typed, DiskTyped, BlobInv, EventsStored, BlobsDurable
<1>. QED
  BY <1>1, TypesHold, BlobsHold, PTL
-----------------------------------------------------------------------------
(* The reports of the producers.                                           *)

\* producers[p] is the last report of p.
LastReport ==
  \A p \in Producers :
    LET reports == ReportsOf(state.events, p) IN
      IF producers[p] = 0 THEN reports = {}
      ELSE producers[p] \in reports /\ \A i \in reports : i <= producers[p]

ReportValues ==
  \A i \in DOMAIN state.events :
    state.events[i].evidence = "producer-applied" => state.events[i].value \in DOMAIN Report

\* Report j of events is the first one after i.
Successor(reports, i, j) ==
  /\ j \in reports /\ j > i
  /\ \A k \in reports : k > i => j <= k

\* The validity written into report e says what report f, its successor, was.
EndedBy(e, f) ==
  LET r == Report[e.value]
      next == Report[f.value]
      follows == /\ next.sequence = r.sequence + 1
                 /\ next.mono >= r.mono /\ next.ros >= r.ros
  IN /\ next.sequence > r.sequence
     /\ e.until = IF follows THEN <<next.mono, next.ros>> ELSE <<>>
     /\ e.endReason # "end-not-observed"

ReportInv ==
  \A p \in Producers : \A i \in ReportsOf(state.events, p) :
    Report[state.events[i].value].event = "applied" =>
      /\ i = producers[p] =>
           /\ state.events[i].until = <<>>
           /\ state.events[i].endReason = "end-not-observed"
      /\ \A j \in ReportsOf(state.events, p) :
           Successor(ReportsOf(state.events, p), i, j) =>
             EndedBy(state.events[i], state.events[j])

\* The reports of a producer among the events after a step of the worker: the
\* same as before, and the new event if it is one.
LEMMA ReportsAfter ==
  ASSUME Typed, StateTyped', NEW e, Appended(e), NEW p
  PROVE  ReportsOf(state'.events, p) =
           ReportsOf(state.events, p) \cup
             {i \in {Len(state.events) + 1} : /\ e.evidence = "producer-applied"
                                              /\ Report[e.value].source = p}
<1>1. Len(state.events) \in Nat /\ DOMAIN state.events = 1..Len(state.events)
  BY LenProperties, Zenon DEF Typed, StateTyped
<1>2. DOMAIN state'.events = 1..(Len(state.events) + 1)
  BY LenProperties, Zenon DEF StateTyped, Appended
<1>3. DOMAIN state'.events = DOMAIN state.events \cup {Len(state.events) + 1}
  BY <1>1, <1>2
<1>. QED
  BY <1>1, <1>3, Zenon DEF ReportsOf, Appended

\* The reports, their values and their validity together.
ReportsInv == LastReport /\ ReportValues /\ ReportInv

\* Steps that touch neither the events nor the index of reports.
LEMMA ReportsKept ==
  ASSUME ReportsInv, state'.events = state.events, UNCHANGED producers
  PROVE  ReportsInv'
  BY Zenon DEF ReportsInv, LastReport, ReportValues, ReportInv

\* An event that is no producer's report.
LEMMA ReportsObserved ==
  ASSUME Typed, ReportsInv, worker.pc = "append", worker.item.evidence # "producer-applied",
         Accept(Append(state.events, Event(None, None))), UNCHANGED producers
  PROVE  ReportsInv'
<1> DEFINE e == Event(None, None)
<1>1. /\ StateTyped' /\ Appended(e)
      /\ \A i \in 1..Len(state.events) : state'.events[i] = state.events[i]
  BY ObservedAppends, Zenon
<1>2. e.evidence # "producer-applied"
  BY Zenon DEF Event
<1> HIDE DEF e
<1>3. \A p : ReportsOf(state'.events, p) = ReportsOf(state.events, p)
  <2> TAKE p
  <2>1. ReportsOf(state'.events, p) =
          ReportsOf(state.events, p) \cup
            {i \in {Len(state.events) + 1} : /\ e.evidence = "producer-applied"
                                             /\ Report[e.value].source = p}
    BY <1>1, ReportsAfter, Zenon
  <2>. QED
    BY <1>2, <2>1, Zenon
<1>4. LastReport'
  BY <1>3 DEF ReportsInv, LastReport
<1>5. Len(state.events) \in Nat /\ DOMAIN state.events = 1..Len(state.events)
  BY LenProperties, Zenon DEF Typed, StateTyped
<1>6. DOMAIN state'.events = 1..(Len(state.events) + 1)
  BY <1>1, LenProperties, Zenon DEF StateTyped, Appended
<1>7. ReportValues'
  BY <1>1, <1>2, <1>5, <1>6 DEF ReportsInv, ReportValues, Appended
<1>8. ReportInv'
  <2>1. \A p : \A i \in ReportsOf(state.events, p) : state'.events[i] = state.events[i]
    BY <1>1, <1>5, Zenon DEF ReportsOf
  <2>. QED
    BY <1>3, <2>1, SMTT(40) DEF ReportsInv, ReportInv
<1>. QED
  BY <1>4, <1>7, <1>8, Zenon DEF ReportsInv

\* A new report ends the validity of the one before it of the same producer and
\* of no other.
LEMMA ReportsRecorded ==
  ASSUME Typed, ReportsInv, LastOf # 0 => Now.sequence > Before.sequence,
         NEW endReason \in {None, "end-not-observed"},
         endReason = IF Now.event = "stopped" THEN None ELSE "end-not-observed",
         RecordReport(endReason)
  PROVE  ReportsInv'
<1> DEFINE e == Event(Continuity, endReason)
           n == Len(state.events)
           p == Now.source
           L == LastOf
           old(q) == ReportsOf(state.events, q)
           new(q) == ReportsOf(state'.events, q)
<1>1. /\ StateTyped' /\ Appended(e)
      /\ \A i \in 1..n : state'.events[i] = EndValidity(state.events)[i]
  BY ReportAppends, Zenon
<1>2. /\ worker.item.evidence = "producer-applied" /\ worker.item.value \in DOMAIN Report
      /\ p \in Producers /\ L = producers[p]
  BY Zenon
     DEF RecordReport, Producing, At, Typed, WorkerTyped, ItemInv, Busy, Producers, Now, LastOf
<1>3. /\ e.evidence = "producer-applied" /\ e.value = worker.item.value
      /\ e.until = <<>> /\ e.endReason = endReason /\ Report[e.value] = Now
  BY <1>2, Zenon DEF Event, Now
<1>4. n \in Nat /\ DOMAIN state.events = 1..n /\ DOMAIN state'.events = 1..(n + 1)
  BY <1>1, LenProperties, Zenon DEF Typed, StateTyped, Appended
<1>5. state'.events[n + 1] = e
  BY <1>1, Zenon DEF Appended
<1>6. \A i \in 1..n : /\ state'.events[i].evidence = state.events[i].evidence
                      /\ state'.events[i].value = state.events[i].value
  BY <1>1, Zenon DEF Appended
<1>7. \A q \in Producers : new(q) = IF q = p THEN old(q) \cup {n + 1} ELSE old(q)
  <2> TAKE q \in Producers
  <2>1. new(q) = old(q) \cup {i \in {n + 1} : /\ e.evidence = "producer-applied"
                                              /\ Report[e.value].source = q}
    BY <1>1, ReportsAfter, Zenon
  <2>. QED
    BY <1>3, <2>1, Zenon
<1>8. \A q : old(q) \subseteq 1..n
  BY <1>4, Zenon DEF ReportsOf
<1>9. producers' = [producers EXCEPT ![p] = n + 1] /\ producers \in [Producers -> 0..n]
  BY Zenon DEF RecordReport, Typed, StateTyped
<1>10. LastReport'
  <2>1. LastReport
    BY Zenon DEF ReportsInv
  <2>2. ASSUME NEW q \in Producers
        PROVE  IF producers'[q] = 0 THEN new(q) = {}
               ELSE producers'[q] \in new(q) /\ \A i \in new(q) : i <= producers'[q]
    <3> HIDE DEF n, p, old, new
    <3>1. CASE q = p
      BY <1>2, <1>4, <1>7, <1>8, <1>9, <3>1
    <3>2. CASE q # p
      <4>1. producers'[q] = producers[q] /\ new(q) = old(q)
        BY <1>7, <1>9, <3>2, Zenon
      <4>. QED
        BY <2>1, <4>1, Zenon DEF LastReport, old
    <3>. QED
      BY <3>1, <3>2, Zenon
  <2>. QED
    BY <2>2, Zenon DEF LastReport
<1>11. ReportValues'
  BY <1>2, <1>3, <1>4, <1>5, <1>6, SMTT(30) DEF ReportsInv, ReportValues
<1>12. L # 0 => /\ L \in old(p) /\ \A i \in old(p) : i <= L
                /\ Report[state.events[L].value].source = p /\ Before = Report[state.events[L].value]
  BY <1>2, Zenon DEF ReportsInv, LastReport, ReportsOf, Before
<1>13. old(p) # {} => L # 0
  BY <1>2, Zenon DEF ReportsInv, LastReport
<1>14. ASSUME NEW q \in Producers, NEW i \in old(q), i # L
       PROVE  state'.events[i] = state.events[i]
  BY <1>1, <1>8, <1>14, EndValidityKeeps, Zenon DEF RecordReport
<1>15. ASSUME L # 0, Before.event = "applied"
       PROVE  EndedBy(state'.events[L], e)
  <2>1. L \in 1..n
    BY <1>8, <1>12, <1>15, Zenon
  <2>2. state.events[L].until = <<>>
    BY <1>2, <1>12, <1>15, Zenon DEF ReportsInv, ReportInv
  <2>3. /\ state'.events[L].until = IF Continuity = "consecutive-producer-reports"
                                   THEN <<Now.mono, Now.ros>> ELSE <<>>
        /\ state'.events[L].endReason = IF Continuity = "consecutive-producer-reports"
                                       THEN Now.event ELSE Continuity
    BY <1>1, <1>15, <2>1, <2>2, EndValidityKeeps, Zenon DEF RecordReport
  <2>4. Report[state'.events[L].value] = Before
    BY <1>6, <1>12, <1>15, <2>1, Zenon
  <2>5. state.events[L].value \in DOMAIN Report
    BY <1>4, <1>12, <1>15, Zenon DEF ReportsInv, ReportValues, ReportsOf
  <2>6. /\ Now.sequence \in Nat /\ Before.sequence \in Nat /\ Now.mono \in Nat
        /\ Before.mono \in Nat /\ Now.ros \in Nat /\ Before.ros \in Nat
        /\ Now.event \in {"applied", "stopped"}
    BY <1>2, <1>12, <1>15, <2>5, ReportAssumption, Zenon DEF Now
  <2>7. Continuity = "consecutive-producer-reports" <=>
          /\ Now.sequence = Before.sequence + 1
          /\ Now.mono >= Before.mono /\ Now.ros >= Before.ros
    BY <1>15, <2>6 DEF Continuity
  <2>8. Continuity # "end-not-observed"
    BY Zenon DEF Continuity
  <2>. QED
    BY <1>3, <1>15, <2>3, <2>4, <2>6, <2>7, <2>8, Zenon DEF EndedBy
<1>16. ReportInv'
  <2> SUFFICES ASSUME NEW q \in Producers, NEW i \in new(q),
                      Report[state'.events[i].value].event = "applied"
               PROVE  /\ i = producers'[q] =>
                           /\ state'.events[i].until = <<>>
                           /\ state'.events[i].endReason = "end-not-observed"
                      /\ \A j \in new(q) : Successor(new(q), i, j) =>
                           EndedBy(state'.events[i], state'.events[j])
    BY Zenon DEF ReportInv
  <2> HIDE DEF e, n, p, L, old, new
  <2>1. CASE q = p /\ i = n + 1
    <3>1. Now.event = "applied"
      BY <1>3, <1>5, <2>1, Zenon
    <3>2. \A j \in new(q) : ~(j > i)
      BY <1>4, <1>7, <1>8, <2>1
    <3>. QED
      BY <1>3, <1>5, <2>1, <3>1, <3>2, Zenon DEF Successor
  <2>2. CASE q = p /\ i # n + 1 /\ i = L
    <3>1. Before.event = "applied" /\ L # 0
      BY <1>6, <1>7, <1>8, <1>12, <1>13, <2>2, Zenon
    <3>2. producers'[q] = n + 1
      BY <1>2, <1>9, <2>2, Zenon
    <3>3. \A j \in new(q) : j > i => j = n + 1
      BY <1>4, <1>7, <1>8, <1>12, <2>2, <3>1
    <3>. QED
      BY <1>5, <1>15, <2>2, <3>1, <3>2, <3>3, Zenon DEF Successor
  <2>3. CASE q = p /\ i # n + 1 /\ i # L
    <3>1. i \in old(p) /\ L \in old(p) /\ i < L /\ L \in 1..n
      BY <1>4, <1>7, <1>8, <1>12, <1>13, <2>3, SMTT(20)
    <3>2. producers'[q] = n + 1
      BY <1>2, <1>9, <2>3, Zenon
    <3>3. state'.events[i] = state.events[i]
      BY <1>14, <2>3, <3>1, Zenon
    <3>4. ASSUME NEW j \in new(q), Successor(new(q), i, j)
          PROVE  EndedBy(state'.events[i], state'.events[j])
      <4>1. j \in old(p) /\ Successor(old(p), i, j)
        BY <1>4, <1>7, <1>8, <2>3, <3>1, <3>4 DEF Successor
      <4>2. EndedBy(state.events[i], state.events[j])
        <5>1. \A k \in old(p) : Successor(old(p), i, k) =>
                 EndedBy(state.events[i], state.events[k])
          BY <1>2, <2>3, <3>1, <3>3, Zenon DEF ReportsInv, ReportInv, old
        <5>. QED
          BY <4>1, <5>1, Zenon
      <4>3. state'.events[j].value = state.events[j].value
        BY <1>6, <1>8, <4>1, Zenon
      <4>. QED
        BY <3>3, <4>2, <4>3, Zenon DEF EndedBy
    <3>. QED
      BY <2>3, <3>2, <3>4, Zenon
  <2>4. CASE q # p
    <3>1. new(q) = old(q) /\ i \in old(q) /\ producers'[q] = producers[q]
      BY <1>7, <1>9, <2>4, Zenon
    <3>2. i # L
      <4>1. Report[state.events[i].value].source = q
        BY <3>1, Zenon DEF ReportsOf, old
      <4>2. i \in 1..n
        BY <1>8, <3>1, Zenon
      <4>. QED
        BY <1>4, <1>12, <2>4, <4>1, <4>2
    <3>3. state'.events[i] = state.events[i]
      BY <1>14, <3>1, <3>2, Zenon
    <3>4. \A j \in old(q) : state'.events[j].value = state.events[j].value
      BY <1>6, <1>8, Zenon
    <3>5. /\ i = producers[q] =>
               /\ state.events[i].until = <<>>
               /\ state.events[i].endReason = "end-not-observed"
          /\ \A j \in old(q) : Successor(old(q), i, j) =>
               EndedBy(state.events[i], state.events[j])
      BY <3>1, <3>3, Zenon DEF ReportsInv, ReportInv, old
    <3>. QED
      BY <3>1, <3>3, <3>4, <3>5, Zenon DEF EndedBy
  <2>. QED
    BY <2>1, <2>2, <2>3, <2>4, Zenon
<1>. QED
  BY <1>10, <1>11, <1>16, Zenon DEF ReportsInv

\* ReportsInv is invariant: the index names the last report of each producer, and
\* a report's validity is closed by the next one and by nothing else.
THEOREM ReportsHold == Spec => []ReportsInv
<1>1. Init => ReportsInv
  BY SMTT(40) DEF Init, ReportsInv, LastReport, ReportValues, ReportInv, ReportsOf
<1>2. Typed /\ ReportsInv /\ [Next]_vars => ReportsInv'
  <2> SUFFICES ASSUME Typed, ReportsInv, [Next]_vars
               PROVE  ReportsInv'
    BY Zenon
  <2>1. CASE Reader \/ UNCHANGED vars
    <3>1. UNCHANGED <<state, producers>>
      BY <2>1, Zenon DEF Reader, Recv, Put, Drop, ReaderEnds, vars, eventVars
    <3>. QED
      BY <3>1, ReportsKept, Zenon
  <2>2. CASE Silent
    BY <2>2, SilentSteps, ReportsKept, Zenon
  <2>3. CASE Main
    <3>1. UNCHANGED producers
      BY <2>3, Zenon
         DEF Main, TakeSnapshot, LeaveLoop, Close, Seal, LookAtThreads, LastSnapshot,
         Save, eventVars
    <3>. QED
      BY <2>3, <3>1, MainSteps, ReportsKept, Zenon
  <2>4. CASE Recording
    <3>1. worker.pc = "append"
      BY <2>4, RecordingStep, Zenon
    <3>2. CASE Refuse \/ UNCHANGED eventVars
      BY <3>2, ReportsKept, Zenon DEF Refuse, eventVars
    <3>3. CASE /\ AppendObservation \/ AppendUnavailable
               /\ Accept(Append(state.events, Event(None, None))) /\ UNCHANGED producers
      BY <2>4, <3>1, <3>3, RecordingStep, ReportsObserved, Zenon
    <3>4. ASSUME AppendReport, NEW endReason \in {None, "end-not-observed"},
                 RecordReport(endReason),
                 endReason = IF Now.event = "stopped" THEN None ELSE "end-not-observed"
          PROVE  ReportsInv'
      BY <3>4, ReportsRecorded, Zenon DEF AppendReport
    <3>. QED
      BY <2>4, <3>2, <3>3, <3>4, RecordingCases, Zenon
  <2>. QED
    BY <2>1, <2>2, <2>3, <2>4, NextCases, Zenon
<1>. QED
  BY <1>1, <1>2, TypesHold, PTL DEF Spec

\* A set of numbers has a least one.
LEMMA LeastOf ==
  ASSUME NEW S \in SUBSET Nat, S # {}
  PROVE  LET j == CHOOSE j \in S : \A k \in S : j <= k
         IN  j \in S /\ \A k \in S : j <= k
<1>1. PICK m \in S : \A k \in S : <<k, m>> \notin OpToRel(<, Nat)
  BY NatLessThanWellFounded, WFMin, Zenon
<1>2. \A k \in S : ~(k < m)
  BY <1>1, Zenon DEF OpToRel
<1>3. \E j \in S : \A k \in S : j <= k
  BY <1>2
<1>. QED
  BY <1>3, Zenon

\* The validity of an applied report ends at a known time exactly when the next
\* report of the same producer follows it with both clocks going forward; any
\* other successor leaves the end unknown, and the last report is open.
THEOREM ValidityHolds == Spec => []ValiditySound
<1>1. Typed /\ ReportsInv => ValiditySound
  <2> SUFFICES ASSUME Typed, ReportsInv, NEW p \in Producers,
                      NEW i \in ReportsOf(state.events, p),
                      Report[state.events[i].value].event = "applied"
               PROVE  LET later == {j \in ReportsOf(state.events, p) : j > i}
                          j == CHOOSE j \in later : \A k \in later : j <= k
                      IN IF later = {}
                         THEN /\ state.events[i].until = <<>>
                              /\ state.events[i].endReason = "end-not-observed"
                         ELSE EndedBy(state.events[i], state.events[j])
    BY Zenon DEF ValiditySound, EndedBy
  <2> DEFINE reports == ReportsOf(state.events, p)
             later == {j \in reports : j > i}
             j == CHOOSE j \in later : \A k \in later : j <= k
  <2>1. reports \subseteq Nat
    BY LenProperties DEF Typed, StateTyped, ReportsOf
  <2>2. /\ i = producers[p] => /\ state.events[i].until = <<>>
                               /\ state.events[i].endReason = "end-not-observed"
        /\ \A k \in reports : Successor(reports, i, k) =>
             EndedBy(state.events[i], state.events[k])
    BY Zenon DEF ReportsInv, ReportInv
  <2>3. producers[p] \in reports /\ \A k \in reports : k <= producers[p]
    BY Zenon DEF ReportsInv, LastReport
  <2> HIDE DEF reports
  <2>4. i \in reports
    BY Zenon DEF reports
  <2>5. CASE later = {}
    <3>1. i = producers[p]
      <4>1. producers[p] \notin later
        BY <2>5, Zenon
      <4>2. ~(producers[p] > i)
        BY <2>3, <4>1, Zenon
      <4>3. i \in Nat /\ producers[p] \in Nat /\ i <= producers[p]
        BY <2>1, <2>3, <2>4, Zenon
      <4>. QED
        BY <4>2, <4>3
    <3>. QED
      BY <2>2, <2>5, <3>1, Zenon DEF reports
  <2>6. CASE later # {}
    <3>1. j \in later /\ \A k \in later : j <= k
      <4> HIDE DEF j
      <4>1. later \in SUBSET Nat
        BY <2>1, Zenon
      <4> HIDE DEF later
      <4>. QED
        BY <2>6, <4>1, LeastOf, Zenon DEF j
    <3> HIDE DEF j
    <3>2. Successor(reports, i, j)
      BY <3>1, Zenon DEF Successor
    <3>3. EndedBy(state.events[i], state.events[j])
      BY <2>2, <3>1, <3>2, Zenon
    <3>. QED
      BY <2>6, <3>3, Zenon DEF j, reports
  <2>. QED
    BY <2>5, <2>6, Zenon
<1>. QED
  BY <1>1, TypesHold, ReportsHold, PTL

-----------------------------------------------------------------------------
(* The samples of the declared sources.                                    *)

Own(events, d) == {i \in DOMAIN events : <<events[i].kind, events[i].source>> = d}

\* The last of the events of source d has value v.
LastShows(events, d, v) ==
  \E i \in Own(events, d) : /\ \A j \in Own(events, d) : j <= i
                            /\ events[i].value = v

\* The item at hand is a sample of d.
Sampling(d) == Busy /\ Key(worker.item) = d

\* What `previous` remembers of a declared source is what its last event says,
\* and so is the outcome of its last sample, but for the one at hand.
SampleInv ==
  dropped = 0 /\ ~sealed =>
    \A d \in DeclarationSet :
      /\ previous.seen[d] # None => LastShows(state.events, d, previous.seen[d])
      /\ previous.missing[d] # None => LastShows(state.events, d, previous.missing[d])
      /\ Sampling(d) => outcome[d] = worker.item.value
      /\ ~Sampling(d) /\ outcome[d] # None => LastShows(state.events, d, outcome[d])

\* An event is the last of its own source and leaves the other sources alone.
LEMMA ShownAfter ==
  ASSUME Typed, StateTyped', NEW e, Appended(e), NEW d, NEW v
  PROVE  /\ <<e.kind, e.source>> = d => LastShows(state'.events, d, e.value)
         /\ <<e.kind, e.source>> # d /\ LastShows(state.events, d, v) =>
              LastShows(state'.events, d, v)
<1> DEFINE n == Len(state.events)
<1>1. n \in Nat /\ DOMAIN state.events = 1..n
  BY LenProperties, Zenon DEF Typed, StateTyped
<1>2. DOMAIN state'.events = 1..(n + 1)
  BY LenProperties, Zenon DEF StateTyped, Appended
<1>3. /\ state'.events[n + 1] = e
      /\ \A i \in 1..n : /\ state'.events[i].kind = state.events[i].kind
                         /\ state'.events[i].source = state.events[i].source
                         /\ state'.events[i].value = state.events[i].value
  BY Zenon DEF Appended
<1> HIDE DEF n
<1>4. CASE <<e.kind, e.source>> = d
  <2>1. n + 1 \in Own(state'.events, d)
    BY <1>1, <1>2, <1>3, <1>4 DEF Own
  <2>2. \A j \in Own(state'.events, d) : j <= n + 1
    BY <1>1, <1>2 DEF Own
  <2>. QED
    BY <1>3, <1>4, <2>1, <2>2, Zenon DEF LastShows
<1>5. CASE <<e.kind, e.source>> # d
  <2>1. Own(state'.events, d) = Own(state.events, d)
    <3>1. \A i \in 1..n : i \in Own(state'.events, d) <=> i \in Own(state.events, d)
      BY <1>1, <1>2, <1>3 DEF Own
    <3>2. n + 1 \notin Own(state'.events, d) /\ n + 1 \notin Own(state.events, d)
      BY <1>1, <1>3, <1>5, Zenon DEF Own
    <3>3. Own(state'.events, d) \subseteq 1..(n + 1) /\ Own(state.events, d) \subseteq 1..n
      BY <1>1, <1>2, Zenon DEF Own
    <3>4. 1..(n + 1) = (1..n) \cup {n + 1}
      BY <1>1
    <3>. QED
      BY <3>1, <3>2, <3>3, <3>4, Zenon
  <2>2. \A i \in Own(state.events, d) : state'.events[i].value = state.events[i].value
    BY <1>1, <1>3, Zenon DEF Own
  <2>. QED
    BY <1>5, <2>1, <2>2, Zenon DEF LastShows
<1>. QED
  BY <1>4, <1>5, Zenon

\* A step that changes neither the events nor what is remembered of them keeps
\* the invariant if it keeps the last two conjuncts.
LEMMA SampleFrame ==
  ASSUME SampleInv, state'.events = state.events, UNCHANGED previous,
         dropped' = 0 /\ ~sealed' => dropped = 0 /\ ~sealed,
         dropped = 0 /\ ~sealed => \A d \in DeclarationSet :
           /\ Sampling(d)' => outcome'[d] = worker'.item.value
           /\ ~Sampling(d)' => ~Sampling(d) /\ outcome'[d] = outcome[d]
  PROVE  SampleInv'
  BY Zenon DEF SampleInv

\* Silent steps, but for the one that skips a sample seen before.
LEMMA SampleSilent ==
  ASSUME Typed, Typed', SampleInv, Silent, ~SameAsBefore
  PROVE  SampleInv'
<1>1. UNCHANGED <<state, dropped, sealed, previous>>
  <2>1. UNCHANGED <<sealed, previous>>
    BY Zenon DEF Silent, GetMessage, PassEnds, Sample, PollEnds, RejectText,
       StoreBegins, StoreEnds, ReportRepeated, ReportReplayed, mainVars, eventVars
  <2>. QED
    BY <2>1, SilentSteps, Zenon
<1> DEFINE Frame == \A d \in DeclarationSet :
             /\ Sampling(d)' => outcome'[d] = worker'.item.value
             /\ ~Sampling(d)' => ~Sampling(d) /\ outcome'[d] = outcome[d]
<1> SUFFICES ASSUME dropped = 0 /\ ~sealed PROVE Frame
  BY <1>1, SampleFrame, Zenon
<1>2. \A d \in DeclarationSet : Sampling(d) => outcome[d] = worker.item.value
  BY Zenon DEF SampleInv
<1>3. CASE GetMessage
  <2>1. ~Busy /\ outcome' = outcome
    BY <1>3, Zenon DEF GetMessage, At, Busy
  <2>2. worker'.item.from = "messages"
    BY <1>3, Zenon DEF GetMessage, ItemOf, Typed, WorkerTyped
  <2>3. \A d \in DeclarationSet : ~Sampling(d)'
    BY <2>2, Zenon DEF Typed, WorkerTyped, ItemInv, Sampling, Busy
  <2>. QED
    BY <2>1, <2>3, Zenon DEF Sampling
<1>4. CASE PassEnds \/ PollEnds
  <2>1. ~Busy /\ outcome' = outcome
    BY <1>4, Zenon DEF PassEnds, PollEnds, At, Busy
  <2>2. worker'.pc \in {"messages", "poll", "done"}
    BY <1>4, Zenon DEF PassEnds, PollEnds, NextPass, Typed, WorkerTyped
  <2>. QED
    BY <2>1, <2>2, Zenon DEF Sampling, Busy
<1>5. CASE Sample
  <2>1. ~Busy
    BY <1>5, Zenon DEF Sample, At, Busy
  <2> DEFINE k == Declarations[worker.index]
  <2>2. k \in DeclarationSet /\ k = <<k[1], k[2]>>
    <3>1. Len(Declarations) \in Nat
      BY SourcesAssumption, LenProperties, Zenon
    <3>2. worker.index \in 1..Len(Declarations)
      BY <1>5, <3>1, SMTT(40) DEF Sample, Typed, WorkerTyped
    <3>. QED
      BY <3>2, DeclaredKeys, Zenon
  <2> HIDE DEF k
  <2>3. ASSUME NEW evidence, NEW v, Read(k, evidence, v)
        PROVE  Frame
    <3>1. worker'.item.value = v /\ Key(worker'.item) = k /\ Busy'
      BY <2>2, <2>3, Zenon DEF Read, Key, Busy, Typed, WorkerTyped
    <3>2. outcome' = [outcome EXCEPT ![k] = v]
      BY <2>3, Zenon DEF Read
    <3>3. outcome'[k] = v /\ \A d \in DeclarationSet : d # k => outcome'[d] = outcome[d]
      BY <2>2, <3>2, Zenon DEF Typed, WorkerTyped
    <3>. QED
      BY <2>1, <3>1, <3>3, Zenon DEF Sampling
  <2>. QED
    BY <1>5, <2>3, Zenon DEF Sample, k
<1>6. ASSUME NEW reason, Fail(reason), Busy PROVE Frame
  <2>1. /\ worker'.item.value = reason /\ worker'.item.from = worker.item.from /\ Busy'
        /\ worker'.item.source = worker.item.source
        /\ worker'.item.kind = IF worker.item.from = "messages" THEN "observer"
                               ELSE worker.item.kind
    BY <1>6, Zenon DEF Fail, Busy, Typed, WorkerTyped
  <2>2. CASE worker.item.from = "messages"
    <3>1. \A d \in DeclarationSet : ~Sampling(d) /\ ~Sampling(d)'
      BY <1>6, <2>1, <2>2, Zenon DEF Typed, WorkerTyped, ItemInv, Sampling, Busy
    <3>. QED
      BY <1>6, <2>2, <3>1, Zenon DEF Fail
  <2>3. CASE worker.item.from = "poll"
    <3>1. Key(worker'.item) = Key(worker.item) /\ Key(worker.item) \in DeclarationSet
      BY <1>6, <2>1, <2>3, Zenon DEF Key, Typed, WorkerTyped, ItemInv
    <3>2. outcome' = [outcome EXCEPT ![Key(worker.item)] = reason]
      BY <1>6, <2>3, Zenon DEF Fail
    <3>3. /\ outcome'[Key(worker.item)] = reason
          /\ \A d \in DeclarationSet : d # Key(worker.item) => outcome'[d] = outcome[d]
      BY <3>1, <3>2, Zenon DEF Typed, WorkerTyped
    <3>. QED
      BY <1>6, <2>1, <3>1, <3>3, Zenon DEF Sampling
  <2>. QED
    BY <1>6, <2>2, <2>3, Zenon DEF Typed, WorkerTyped, ItemInv
<1>7. CASE RejectText \/ ReportReplayed
  BY <1>6, <1>7, Zenon DEF RejectText, ReportReplayed, Producing, At, Busy
<1>8. ASSUME NEW step \in {"append", "sync"}, worker' = [worker EXCEPT !.pc = step],
             UNCHANGED outcome, Busy
      PROVE  Frame
  <2>1. worker'.item = worker.item /\ Busy'
    BY <1>8, Zenon DEF Busy, Typed, WorkerTyped
  <2>. QED
    BY <1>2, <1>8, <2>1, Zenon DEF Sampling
<1>9. CASE StoreBegins
  <2>1. Busy
    BY <1>9, Zenon DEF StoreBegins, Storing, At, Busy
  <2>. QED
    BY <1>6, <1>8, <1>9, <2>1, Zenon DEF StoreBegins
<1>10. CASE StoreEnds
  <2>1. Busy
    BY <1>10, Zenon DEF StoreEnds, At, Busy
  <2>. QED
    BY <1>6, <1>8, <1>10, <2>1, Zenon DEF StoreEnds
<1>11. CASE ReportRepeated
  <2>1. /\ Busy /\ worker.item.evidence = "producer-applied" /\ Return
        /\ UNCHANGED outcome
    BY <1>11, Zenon DEF ReportRepeated, Producing, At, Busy
  <2>2. ~Busy'
    BY <2>1, Zenon DEF Return, Busy, Typed, WorkerTyped, ItemInv
  <2>3. \A d \in DeclarationSet : ~Sampling(d)
    BY <2>1, Zenon DEF Sampling, Typed, WorkerTyped, ItemInv
  <2>. QED
    BY <2>1, <2>2, <2>3, Zenon DEF Sampling
<1>. QED
  BY <1>3, <1>4, <1>5, <1>7, <1>9, <1>10, <1>11, Zenon DEF Silent

\* Nothing new is said of a source whose last event says it already.
LEMMA SampleRepeated ==
  ASSUME Typed, SampleInv, Busy, Return, UNCHANGED <<state, outcome>>,
         dropped' = 0 /\ ~sealed' => dropped = 0 /\ ~sealed,
         \/ previous.seen[Key(worker.item)] = worker.item.value
         \/ previous.missing[Key(worker.item)] = worker.item.value,
         \A d \in DeclarationSet : /\ previous'.seen[d] = previous.seen[d]
                                   /\ previous'.missing[d] \in {previous.missing[d], None}
  PROVE  SampleInv'
<1>1. ~Busy'
  BY Zenon DEF Return, Busy, Typed, WorkerTyped, ItemInv
<1> SUFFICES ASSUME dropped = 0, ~sealed, NEW d \in DeclarationSet
             PROVE  /\ previous'.seen[d] # None =>
                         LastShows(state.events, d, previous'.seen[d])
                    /\ previous'.missing[d] # None =>
                         LastShows(state.events, d, previous'.missing[d])
                    /\ outcome[d] # None => LastShows(state.events, d, outcome[d])
  BY <1>1, Zenon DEF SampleInv, Sampling
<1>2. /\ previous.seen[d] # None => LastShows(state.events, d, previous.seen[d])
      /\ previous.missing[d] # None => LastShows(state.events, d, previous.missing[d])
      /\ Sampling(d) => outcome[d] = worker.item.value
      /\ ~Sampling(d) /\ outcome[d] # None => LastShows(state.events, d, outcome[d])
  BY Zenon DEF SampleInv
<1>3. outcome[d] # None => LastShows(state.events, d, outcome[d])
  <2>1. CASE Sampling(d)
    <3>1. Key(worker.item) = d
      BY <2>1, Zenon DEF Sampling
    <3>2. previous.seen[d] = worker.item.value \/ previous.missing[d] = worker.item.value
      BY <3>1, Zenon
    <3>3. outcome[d] = worker.item.value
      BY <1>2, <2>1, Zenon
    <3>4. CASE previous.seen[d] = worker.item.value
      BY <1>2, <3>3, <3>4, Zenon
    <3>5. CASE previous.missing[d] = worker.item.value
      BY <1>2, <3>3, <3>5, Zenon
    <3>6. QED
      BY <3>2, <3>4, <3>5, Zenon
  <2>2. CASE ~Sampling(d)
    BY <1>2, <2>2, Zenon
  <2>3. QED
    BY <2>1, <2>2, Zenon
<1>. QED
  BY <1>2, <1>3, Zenon

\* A recorded event becomes what its source shows; the others show what they
\* showed.
LEMMA SampleRecorded ==
  ASSUME Typed, SampleInv, Busy, Return, UNCHANGED <<outcome, dropped, sealed>>,
         StateTyped', NEW e, Appended(e), <<e.kind, e.source>> = Key(worker.item),
         e.value = worker.item.value,
         \A d \in DeclarationSet :
           IF d = Key(worker.item)
           THEN /\ previous'.seen[d] \in {None, worker.item.value}
                /\ previous'.missing[d] \in {None, worker.item.value}
           ELSE /\ previous'.seen[d] = previous.seen[d]
                /\ previous'.missing[d] = previous.missing[d]
  PROVE  SampleInv'
<1>1. ~Busy'
  BY Zenon DEF Return, Busy, Typed, WorkerTyped, ItemInv
<1> SUFFICES ASSUME dropped = 0, ~sealed, NEW d \in DeclarationSet
             PROVE  /\ previous'.seen[d] # None =>
                         LastShows(state'.events, d, previous'.seen[d])
                    /\ previous'.missing[d] # None =>
                         LastShows(state'.events, d, previous'.missing[d])
                    /\ outcome[d] # None => LastShows(state'.events, d, outcome[d])
  BY <1>1, Zenon DEF SampleInv, Sampling
<1>2. /\ previous.seen[d] # None => LastShows(state.events, d, previous.seen[d])
      /\ previous.missing[d] # None => LastShows(state.events, d, previous.missing[d])
      /\ Sampling(d) => outcome[d] = worker.item.value
      /\ ~Sampling(d) /\ outcome[d] # None => LastShows(state.events, d, outcome[d])
  BY Zenon DEF SampleInv
<1>3. CASE d = Key(worker.item)
  <2>1. LastShows(state'.events, d, worker.item.value)
    BY <1>3, ShownAfter, Zenon
  <2>2. outcome[d] = worker.item.value
    BY <1>2, <1>3, Zenon DEF Sampling
  <2>. QED
    BY <1>3, <2>1, <2>2, Zenon
<1>4. CASE d # Key(worker.item)
  <2>1. \A v : LastShows(state.events, d, v) => LastShows(state'.events, d, v)
    BY <1>4, ShownAfter, Zenon
  <2>. QED
    BY <1>2, <1>4, <2>1, Zenon DEF Sampling
<1>. QED
  BY <1>3, <1>4, Zenon

\* Steps that record an event.
LEMMA SampleRecording ==
  ASSUME Typed, Typed', SampleInv, Recording
  PROVE  SampleInv'
<1>1. /\ worker.pc = "append" /\ Busy /\ Return /\ UNCHANGED <<outcome, sealed>>
      /\ AppendReport => worker.item.evidence = "producer-applied"
  BY RecordingStep, Zenon DEF mainVars
<1>2. CASE Refuse
  BY <1>1, <1>2, SMTT(40) DEF Refuse, Room, SampleInv, Typed, StateTyped
<1>3. CASE AppendUnavailable /\ UNCHANGED eventVars
  <2>1. previous.missing[Key(worker.item)] = worker.item.value
    <3>1. CASE Refuse
      BY <1>3, <3>1 DEF Refuse, eventVars, Typed, StateTyped
    <3>2. CASE Accept(Append(state.events, Event(None, None))) /\ UNCHANGED producers
      BY <1>1, <1>3, <3>2, ObservedAppends, SMTT(40) DEF Appended, eventVars, Typed, StateTyped
    <3>. QED
      BY <1>3, <3>1, <3>2, Zenon DEF AppendUnavailable
  <2>. QED
    BY <1>1, <1>3, <2>1, SampleRepeated, Zenon DEF eventVars
<1>4. CASE /\ AppendObservation \/ AppendUnavailable
           /\ Accept(Append(state.events, Event(None, None))) /\ UNCHANGED producers
  <2> DEFINE k == Key(worker.item)
             e == Event(None, None)
  <2>1. StateTyped' /\ Appended(e)
    BY <1>1, <1>4, ObservedAppends, Zenon
  <2>2. <<e.kind, e.source>> = Key(worker.item) /\ e.value = worker.item.value
    BY Zenon DEF Event, Key
  <2>3. UNCHANGED dropped /\ state' # state
    <3>1. Len(state'.events) # Len(state.events)
      BY <2>1, LenProperties DEF Appended, Typed, StateTyped
    <3>. QED
      BY <1>4, <3>1, Zenon DEF Accept
  <2>4. \A d \in DeclarationSet :
          IF d = k
          THEN /\ previous'.seen[d] \in {None, worker.item.value}
               /\ previous'.missing[d] \in {None, worker.item.value}
          ELSE /\ previous'.seen[d] = previous.seen[d]
               /\ previous'.missing[d] = previous.missing[d]
    <3>1. k \in Keys /\ DeclarationSet \subseteq Keys
      BY <1>1 DEF Typed, WorkerTyped, ItemInv, Keys
    <3> HIDE DEF k
    <3>2. CASE AppendObservation
      <4>1. previous' = [(IF k \in DeclarationSet THEN [previous EXCEPT !.missing[k] = None]
                          ELSE previous) EXCEPT !.seen[k] = worker.item.value]
        BY <2>3, <3>2, Zenon DEF AppendObservation, Refuse, k
      <4>2. CASE k \in DeclarationSet
        BY <3>1, <4>1, <4>2, Zenon DEF Typed, PreviousTyped
      <4>3. CASE k \notin DeclarationSet
        BY <3>1, <4>1, <4>3, Zenon DEF Typed, PreviousTyped
      <4>. QED
        BY <4>2, <4>3, Zenon
    <3>3. CASE AppendUnavailable
      <4>1. previous' = [previous EXCEPT !.missing[k] = worker.item.value, !.seen[k] = None]
        BY <2>3, <3>3, Zenon DEF AppendUnavailable, Refuse, eventVars, k
      <4>. QED
        BY <3>1, <4>1, Zenon DEF Typed, PreviousTyped
    <3>. QED
      BY <1>4, <3>2, <3>3, Zenon
  <2> HIDE DEF e
  <2>. QED
    BY <1>1, <2>1, <2>2, <2>3, <2>4, SampleRecorded, Zenon
<1>5. ASSUME AppendReport, NEW endReason \in {None, "end-not-observed"},
             RecordReport(endReason)
      PROVE  SampleInv'
  <2> DEFINE e == Event(Continuity, endReason)
  <2>1. StateTyped' /\ Appended(e)
    BY <1>5, ReportAppends, Zenon
  <2>2. <<e.kind, e.source>> = Key(worker.item) /\ e.value = worker.item.value
    BY Zenon DEF Event, Key
  <2>3. UNCHANGED <<dropped, previous>>
    BY <1>5, Zenon DEF RecordReport, Accept, AppendReport
  <2>4. Key(worker.item) \notin DeclarationSet
    BY <1>1, <1>5, Zenon DEF Typed, WorkerTyped, ItemInv
  <2> HIDE DEF e
  <2>. QED
    BY <1>1, <2>1, <2>2, <2>3, <2>4, SampleRecorded, Zenon
<1>. QED
  BY <1>2, <1>3, <1>4, <1>5, RecordingCases, Zenon

\* SampleInv is invariant: what the worker remembers of a declared source, and
\* the outcome of its last sample, are what the last event of the source shows.
THEOREM SamplesHold == Spec => []SampleInv
<1>1. Init => SampleInv
  <2> SUFFICES ASSUME Init PROVE SampleInv
    BY Zenon
  <2>1. \A d \in DeclarationSet :
          previous.seen[d] = None /\ previous.missing[d] = None /\ outcome[d] = None
    BY Zenon DEF Init, Keys
  <2>2. ~Busy
    BY Zenon DEF Init, Busy
  <2> QED
    BY <2>1, <2>2, Zenon DEF SampleInv, Sampling
<1>2. Typed /\ Typed' /\ SampleInv /\ [Next]_vars => SampleInv'
  <2> SUFFICES ASSUME Typed, Typed', SampleInv, [Next]_vars
               PROVE  SampleInv'
    BY Zenon
  <2>1. CASE Reader \/ UNCHANGED vars
    <3>1. UNCHANGED <<worker, outcome, state, previous, sealed>>
      BY <2>1, Zenon DEF Reader, Recv, Put, Drop, ReaderEnds, vars, eventVars, mainVars
    <3>2. dropped' = dropped \/ dropped' = dropped + 1
      BY <2>1, Zenon DEF Reader, Recv, Put, Drop, ReaderEnds, vars, eventVars
    <3>. QED
      BY <3>1, <3>2, SMTT(40) DEF SampleInv, Sampling, Busy, Typed, StateTyped
  <2>2. CASE SameAsBefore
    <3>1. /\ Busy /\ Return /\ UNCHANGED <<state, outcome, dropped, sealed>>
          /\ previous.seen[Key(worker.item)] = worker.item.value
      BY <2>2, Zenon DEF SameAsBefore, At, Busy, mainVars
    <3>2. \A d \in DeclarationSet : /\ previous'.seen[d] = previous.seen[d]
                                    /\ previous'.missing[d] \in {previous.missing[d], None}
      BY <2>2, Zenon DEF SameAsBefore, Typed, PreviousTyped, Keys
    <3>. QED
      BY <3>1, <3>2, SampleRepeated, Zenon
  <2>3. CASE Silent /\ ~SameAsBefore
    BY <2>3, SampleSilent, Zenon
  <2>4. CASE Recording
    BY <2>4, SampleRecording, Zenon
  <2>5. CASE Main
    <3>1. UNCHANGED <<worker, outcome, previous, dropped>> /\ state'.events = state.events
      BY <2>5, MainSteps, Zenon DEF Main, TakeSnapshot, LeaveLoop, Close, Seal, LookAtThreads,
         LastSnapshot, Save, eventVars
    <3>2. sealed' = sealed \/ sealed'
      BY <2>5, Zenon
         DEF Main, TakeSnapshot, LeaveLoop, Close, Seal, LookAtThreads, LastSnapshot,
         Save
    <3>. QED
      BY <3>1, <3>2, Zenon DEF SampleInv, Sampling, Busy
  <2>. QED
    BY <2>1, <2>2, <2>3, <2>4, <2>5, NextCases, Zenon
<1>. QED
  BY <1>1, <1>2, TypesHold, PTL DEF Spec

\* Leaving out what did not change never hides a change: unless an event was
\* dropped or the state is sealed, between two items the last event of every
\* declared source says what its last sample gave.
THEOREM SamplesAreShown == Spec => []SamplesShown
<1>1. SampleInv => SamplesShown
  <2> SUFFICES ASSUME SampleInv, dropped = 0, ~sealed,
                      worker.pc \in {"messages", "poll", "done"},
                      NEW d \in DeclarationSet, outcome[d] # None
               PROVE  LastShows(state.events, d, outcome[d])
    BY Zenon DEF SamplesShown, LastShows, Own
  <2>. QED
    BY Zenon DEF SampleInv, Sampling, Busy
<1>. QED
  BY <1>1, SamplesHold, PTL

-----------------------------------------------------------------------------
(* The account of the items.                                               *)

\* How far the main thread has come tells what may still change.
MainInv ==
  /\ main \in {"loop", "finish", "seal", "look", "last-snapshot", "exit"}
  /\ lock = IF main = "look" THEN "main" ELSE "none"
  /\ main \in {"loop", "finish", "seal"} =>
       ~sealed /\ state.status = "observing" /\ refused = 0
  /\ main \in {"seal", "look", "last-snapshot"} => closed
  /\ main = "look" => refused = 0

Accounted(s) == s.still \/ (refused = 0 /\ Len(messages) <= s.pending + 1)

\* From the sealing on the queue takes at most the one item the reader may hold;
\* a manifest on disk that says "closed" was written when nothing could change
\* any more.
AccountInv ==
  /\ main = "look" =>
       Len(messages) <= state.pending + (IF reader.pc = "put" THEN 0 ELSE 1)
  /\ main = "last-snapshot" =>
       /\ ~state.still => reader.pc = "done" /\ worker.pc = "done"
       /\ Accounted(state)
  /\ \A i \in DOMAIN saved : saved[i].state.status = "closed" =>
       /\ main = "exit"
       /\ saved[i].dropped = dropped
       /\ Accounted(saved[i].state)

\* MainInv holds at every step.
LEMMA MainStep ==
  ASSUME Typed, MainInv, [Next]_vars
  PROVE  MainInv'
<1>1. CASE Reader
  BY <1>1 DEF Reader, Recv, Put, Drop, ReaderEnds, MainInv, mainVars, eventVars
<1>2. CASE Silent
  <2>1. UNCHANGED mainVars
    BY <1>2, Zenon DEF Silent, GetMessage, PassEnds, Sample, PollEnds, RejectText, SameAsBefore,
       StoreBegins, StoreEnds, ReportRepeated, ReportReplayed
  <2>. QED
    BY <1>2, <2>1, SilentSteps, Zenon DEF MainInv, mainVars
<1>3. CASE Recording
  <2>1. UNCHANGED mainVars
    BY <1>3, RecordingStep, Zenon
  <2>2. CASE Refuse
    <3>1. UNCHANGED <<state, refused>> \/ (lock = "none" /\ sealed /\ UNCHANGED state)
      BY <1>3, <2>2, Zenon
         DEF Recording, AppendObservation, AppendUnavailable, AppendReport, Refuse,
         eventVars
    <3>. QED
      BY <2>1, <3>1, Zenon DEF MainInv, mainVars
  <2>3. CASE UNCHANGED eventVars
    BY <2>1, <2>3, Zenon DEF MainInv, mainVars, eventVars
  <2>4. ASSUME NEW events, Accept(events) PROVE MainInv'
    <3>1. state'.status = state.status /\ UNCHANGED refused
      BY <2>4, Zenon DEF Accept, Typed, StateTyped
    <3>. QED
      BY <2>1, <3>1, Zenon DEF MainInv, mainVars
  <2>. QED
    BY <1>3, <2>2, <2>3, <2>4, RecordingCases, Zenon DEF RecordReport
<1>4. CASE Main
  <2>1. CASE TakeSnapshot \/ LeaveLoop \/ Close \/ LastSnapshot
    BY <2>1, SMTT(40) DEF TakeSnapshot, LeaveLoop, Close, LastSnapshot, Save, MainInv, eventVars
  <2>2. CASE Seal
    BY <2>2, Zenon DEF Seal, MainInv
  <2>3. CASE LookAtThreads
    BY <2>3, Zenon DEF LookAtThreads, MainInv
  <2>. QED
    BY <1>4, <2>1, <2>2, <2>3, Zenon DEF Main
<1>5. CASE UNCHANGED vars
  BY <1>5, Zenon DEF vars, mainVars, eventVars, MainInv
<1>. QED
  BY <1>1, <1>2, <1>3, <1>4, <1>5, NextCases, Zenon

\* The limits of the queue, of the events and of the stored payloads.
Limits ==
  /\ Len(messages) <= QueueSize
  /\ Len(state.events) <= MAX_EVENTS
  /\ IsFiniteSet(stored)
  /\ Cardinality(stored) <= MAX_TOTAL_BYTES
  /\ worker.pc = "sync" => Cardinality(stored) + 1 <= MAX_TOTAL_BYTES

\* The queue, the events and the stored bytes stay within their limits.
LEMMA LimitsKept ==
  ASSUME Typed, Limits, [Next]_vars
  PROVE  Limits'
<1>1. Len(messages) \in Nat /\ Len(state.events) \in Nat /\ Cardinality(stored) \in Nat
  BY LenProperties, FS_CardinalityType, Zenon DEF Typed, ReaderTyped, StateTyped, Limits
<1>2. Len(messages') <= QueueSize
  <2>1. CASE Put
    <3>1. Len(Append(messages, reader.item)) = Len(messages) + 1
      BY <2>1, AppendProperties, Zenon DEF Put, Typed, ReaderTyped
    <3>. QED
      BY <1>1, <2>1, <3>1, BoundsAssumption DEF Put, Limits
  <2>2. CASE GetMessage
    <3>1. Len(Tail(messages)) = Len(messages) - 1
      BY <2>2, HeadTailProperties, Zenon DEF GetMessage, Typed, ReaderTyped
    <3>. QED
      BY <1>1, <2>2, <3>1, BoundsAssumption DEF GetMessage, Limits
  <2>3. CASE UNCHANGED messages
    BY <2>3, Zenon DEF Limits
  <2>4. UNCHANGED messages \/ Put \/ GetMessage
    <3>1. Main => UNCHANGED messages
      BY Zenon
         DEF Main, TakeSnapshot, LeaveLoop, Close, Seal, LookAtThreads, LastSnapshot, Save,
         readerVars
    <3>2. Reader => UNCHANGED messages \/ Put
      BY Zenon DEF Reader, Recv, Drop, ReaderEnds
    <3>3. Silent => UNCHANGED messages \/ GetMessage
      BY Zenon DEF Silent, PassEnds, Sample, PollEnds, RejectText, SameAsBefore,
         StoreBegins, StoreEnds, ReportRepeated, ReportReplayed, readerVars
    <3>4. Recording => UNCHANGED messages
      BY RecordingStep, Zenon DEF readerVars
    <3>. QED
      BY <3>1, <3>2, <3>3, <3>4, NextCases, Zenon DEF vars, readerVars
  <2>. QED
    BY <2>1, <2>2, <2>3, <2>4, Zenon
<1>3. Len(state'.events) <= MAX_EVENTS
  <2>1. CASE state'.events = state.events
    BY <2>1, Zenon DEF Limits
  <2>2. ASSUME NEW events, Accept(events), Len(state'.events) = Len(state.events) + 1
        PROVE  Len(state'.events) <= MAX_EVENTS
    BY <1>1, <2>2, BoundsAssumption DEF Accept, Room
  <2>3. CASE Recording
    <3>1. worker.pc = "append"
      BY <2>3, RecordingStep, Zenon
    <3>2. CASE Refuse \/ UNCHANGED eventVars
      BY <2>1, <3>2, Zenon DEF Refuse, eventVars
    <3>3. CASE Accept(Append(state.events, Event(None, None))) /\ UNCHANGED producers
      BY <2>2, <3>1, <3>3, ObservedAppends, Zenon DEF Appended
    <3>4. ASSUME NEW r \in {None, "end-not-observed"}, RecordReport(r)
          PROVE  Len(state'.events) <= MAX_EVENTS
      BY <2>2, <3>4, ReportAppends, Zenon DEF Appended, RecordReport
    <3>. QED
      BY <2>3, <3>2, <3>3, <3>4, RecordingCases, Zenon
  <2>4. Reader => UNCHANGED state
    BY Zenon DEF Reader, Recv, Put, Drop, ReaderEnds, eventVars
  <2>. QED
    BY <2>1, <2>3, <2>4, SilentSteps, MainSteps, NextCases, Zenon DEF vars, eventVars
<1> DEFINE Disk == /\ IsFiniteSet(stored') /\ Cardinality(stored') <= MAX_TOTAL_BYTES
                   /\ worker'.pc = "sync" => Cardinality(stored') + 1 <= MAX_TOTAL_BYTES
<1>4. Disk
  <2>1. CASE StoreBegins
    <3>1. UNCHANGED stored
      BY <2>1, Zenon DEF StoreBegins
    <3>2. worker'.pc = "sync" => Cardinality(stored) + 1 <= MAX_TOTAL_BYTES
      <4>1. Fail("budget") \/ Fail("write-failed") => worker'.pc = "append"
        BY FailMakes, Zenon DEF Typed
      <4>2. worker' = [worker EXCEPT !.pc = "append"] => worker'.pc = "append"
        BY Zenon DEF Typed, WorkerTyped
      <4>. QED
        BY <2>1, <4>1, <4>2, Zenon DEF StoreBegins
    <3>. QED
      BY <3>1, <3>2, Zenon DEF Limits
  <2>2. CASE StoreEnds
    <3>1. worker'.pc = "append"
      <4>1. Fail("write-failed") => worker'.pc = "append"
        BY FailMakes, Zenon DEF Typed
      <4>2. worker' = [worker EXCEPT !.pc = "append"] => worker'.pc = "append"
        BY Zenon DEF Typed, WorkerTyped
      <4>. QED
        BY <2>2, <4>1, <4>2, Zenon DEF StoreEnds
    <3>2. IsFiniteSet(stored') /\ Cardinality(stored') <= MAX_TOTAL_BYTES
      <4>1. worker.pc = "sync" /\ IsFiniteSet(stored) /\ MAX_TOTAL_BYTES \in Nat
        BY <2>2, BoundsAssumption, Zenon DEF StoreEnds, At, Limits
      <4>2. CASE UNCHANGED stored
        BY <4>2, Zenon DEF Limits
      <4>3. CASE stored' = stored \cup {worker.item.value}
        <5>1. /\ IsFiniteSet(stored')
              /\ Cardinality(stored') \in {Cardinality(stored), Cardinality(stored) + 1}
          BY <4>1, <4>3, FS_AddElement, Zenon
        <5>. QED
          BY <1>1, <4>1, <5>1, Zenon DEF Limits
      <4>. QED
        BY <2>2, <4>2, <4>3, Zenon DEF StoreEnds
    <3>. QED
      BY <3>1, <3>2, Zenon
  <2>3. ASSUME UNCHANGED stored, worker'.pc # "sync" \/ UNCHANGED worker PROVE Disk
    BY <2>3, Zenon DEF Limits
  <2>4. CASE Reader \/ Main \/ UNCHANGED vars
    <3>1. UNCHANGED <<stored, worker>>
      BY <2>4, Zenon
         DEF Reader, Recv, Put, Drop, ReaderEnds, Main, TakeSnapshot, LeaveLoop, Close,
         Seal, LookAtThreads, LastSnapshot, Save, diskVars, vars
    <3>. QED
      BY <2>3, <3>1, Zenon
  <2>5. CASE Recording
    <3>1. UNCHANGED stored /\ Return /\ Busy
      BY <2>5, RecordingStep, Zenon DEF diskVars
    <3>2. worker'.pc # "sync"
      BY <3>1, Zenon DEF Return, Typed, WorkerTyped, ItemInv
    <3>. QED
      BY <2>3, <3>1, <3>2, Zenon
  <2>6. CASE Silent /\ ~StoreBegins /\ ~StoreEnds
    <3>1. UNCHANGED stored
      BY <2>6, Zenon
         DEF Silent, GetMessage, PassEnds, Sample, PollEnds, RejectText, SameAsBefore,
         ReportRepeated, ReportReplayed, diskVars
    <3>2. CASE GetMessage
      <4>1. worker'.pc # "sync"
        BY <3>2, Zenon DEF GetMessage, Typed, WorkerTyped
      <4>. QED
        BY <2>3, <3>1, <4>1, Zenon
    <3>3. CASE Sample
      <4>1. ASSUME NEW d, NEW evidence, NEW v, Read(d, evidence, v)
            PROVE  worker'.pc # "sync"
        BY <4>1, Zenon DEF Read, Typed, WorkerTyped
      <4>2. worker'.pc # "sync"
        BY <3>3, <4>1, Zenon DEF Sample
      <4>. QED
        BY <2>3, <3>1, <4>2, Zenon
    <3>4. CASE PassEnds \/ PollEnds
      <4>1. worker'.pc # "sync"
        BY <3>4, Zenon DEF PassEnds, PollEnds, NextPass, Typed, WorkerTyped
      <4>. QED
        BY <2>3, <3>1, <4>1, Zenon
    <3>5. CASE RejectText \/ ReportReplayed
      <4>1. worker'.pc # "sync"
        BY <3>5, FailMakes, Zenon DEF RejectText, ReportReplayed, Typed
      <4>. QED
        BY <2>3, <3>1, <4>1, Zenon
    <3>6. CASE SameAsBefore \/ ReportRepeated
      <4>1. Busy /\ Return
        BY <3>6, Zenon DEF SameAsBefore, ReportRepeated, Producing, At, Busy
      <4>2. worker'.pc # "sync"
        BY <4>1, Zenon DEF Return, Typed, WorkerTyped, ItemInv
      <4>. QED
        BY <2>3, <3>1, <4>2, Zenon
    <3>. QED
      BY <2>6, <3>2, <3>3, <3>4, <3>5, <3>6, Zenon DEF Silent
  <2>. QED
    BY <2>1, <2>2, <2>4, <2>5, <2>6, NextCases, Zenon
<1>. QED
  BY <1>2, <1>3, <1>4, Zenon DEF Limits

\* Which steps need a running process, and a thread that is not done.
LEMMA ThreadSteps ==
  /\ Reader => Running /\ reader.pc # "done"
  /\ Silent \/ Recording => Running /\ worker.pc # "done"
<1>1. Reader => Running /\ reader.pc # "done"
  BY Zenon DEF Reader, Recv, Put, Drop, ReaderEnds
<1>2. Silent => Running /\ worker.pc # "done"
  BY Zenon DEF Silent, GetMessage, PassEnds, Sample, PollEnds, RejectText, SameAsBefore,
     StoreBegins, Storing, StoreEnds, ReportRepeated, ReportReplayed, Producing, At
<1>3. Recording => Running /\ worker.pc # "done"
  BY Zenon DEF Recording, AppendObservation, AppendUnavailable, AppendReport, Producing, At
<1>. QED
  BY <1>1, <1>2, <1>3, Zenon

\* A step of a thread leaves alone what the main thread wrote, and the queue
\* grows only by the item the reader holds.
LEMMA ThreadFrame ==
  ASSUME Typed, MainInv, Reader \/ Silent \/ Recording
  PROVE  /\ UNCHANGED <<main, closed, saved>>
         /\ state'.pending = state.pending /\ state'.still = state.still
         /\ main = "look" =>
              \/ Len(messages') <= Len(messages) /\ (reader'.pc = "put" => reader.pc = "put")
              \/ /\ Len(messages') = Len(messages) + 1
                 /\ reader.pc = "put" /\ reader'.pc # "put"
<1>1. Len(messages) \in Nat
  BY LenProperties, Zenon DEF Typed, ReaderTyped
<1>2. CASE Reader
  <2>1. UNCHANGED <<main, closed, saved, state>>
    BY <1>2, Zenon DEF Reader, Recv, Put, Drop, ReaderEnds, mainVars, eventVars
  <2>2. ASSUME main = "look"
        PROVE  \/ Len(messages') <= Len(messages) /\ (reader'.pc = "put" => reader.pc = "put")
               \/ /\ Len(messages') = Len(messages) + 1
                  /\ reader.pc = "put" /\ reader'.pc # "put"
    <3>1. CASE Put
      <4>1. Len(Append(messages, reader.item)) = Len(messages) + 1
        BY <3>1, AppendProperties, Zenon DEF Put, Typed, ReaderTyped
      <4>. QED
        BY <1>1, <3>1, <4>1 DEF Put, Typed, ReaderTyped
    <3>2. CASE Drop \/ ReaderEnds
      BY <1>1, <3>2 DEF Drop, ReaderEnds, Typed, ReaderTyped
    <3>3. \A m \in Inbound : ~Recv(m)
      BY <2>2, Zenon DEF Recv, MainInv
    <3>. QED
      BY <1>2, <3>1, <3>2, <3>3, Zenon DEF Reader
  <2>. QED
    BY <2>1, <2>2, Zenon
<1>3. CASE Silent
  <2>1. UNCHANGED <<main, closed, saved, state>>
    <3>1. UNCHANGED mainVars
      BY <1>3, Zenon
         DEF Silent, GetMessage, PassEnds, Sample, PollEnds, RejectText, SameAsBefore,
         StoreBegins, StoreEnds, ReportRepeated, ReportReplayed
    <3>. QED
      BY <1>3, <3>1, SilentSteps, Zenon DEF mainVars
  <2>2. CASE GetMessage
    <3>1. Len(Tail(messages)) = Len(messages) - 1
      BY <2>2, HeadTailProperties, Zenon DEF GetMessage, Typed, ReaderTyped
    <3>2. messages' = Tail(messages) /\ UNCHANGED reader
      BY <2>2, Zenon DEF GetMessage
    <3>3. Len(messages') <= Len(messages)
      BY <1>1, <3>1, <3>2
    <3>. QED
      BY <2>1, <3>2, <3>3, Zenon
  <2>3. CASE UNCHANGED readerVars
    BY <1>1, <2>1, <2>3 DEF readerVars
  <2>. QED
    BY <1>3, <2>2, <2>3, Zenon DEF Silent, PassEnds, Sample, PollEnds, RejectText, SameAsBefore,
       StoreBegins, StoreEnds, ReportRepeated, ReportReplayed
<1>4. CASE Recording
  <2>1. UNCHANGED <<main, closed, saved, messages, reader>>
    BY <1>4, RecordingStep, Zenon DEF mainVars, readerVars
  <2>2. ASSUME NEW events, Accept(events)
        PROVE  state'.pending = state.pending /\ state'.still = state.still
    BY <2>2, Zenon DEF Accept, Typed, StateTyped
  <2>3. state'.pending = state.pending /\ state'.still = state.still
    BY <1>4, <2>2, RecordingCases, Zenon DEF Refuse, RecordReport, eventVars
  <2>. QED
    BY <1>1, <2>1, <2>3
<1>. QED
  BY <1>2, <1>3, <1>4, Zenon

\* AccountInv holds at every step.
LEMMA AccountStep ==
  ASSUME Typed, MainInv, AccountInv, [Next]_vars
  PROVE  AccountInv'
<1>1. Len(messages) \in Nat /\ state.pending \in Nat
  BY LenProperties, Zenon DEF Typed, ReaderTyped, StateTyped
<1>2. CASE Reader \/ Silent \/ Recording
  <2>1. /\ UNCHANGED <<main, closed, saved>> /\ main # "exit"
        /\ state'.pending = state.pending /\ state'.still = state.still
        /\ main = "look" =>
             \/ Len(messages') <= Len(messages) /\ (reader'.pc = "put" => reader.pc = "put")
             \/ /\ Len(messages') = Len(messages) + 1
                /\ reader.pc = "put" /\ reader'.pc # "put"
    BY <1>2, ThreadFrame, ThreadSteps, Zenon DEF Running
  <2>2. Len(messages') \in Nat
    BY <1>2, LenProperties, ReaderSteps, SilentSteps, RecordingTyped, Zenon
       DEF Typed, ReaderTyped
  <2>3. main = "last-snapshot" => state.still
    BY <1>2, ThreadSteps, Zenon DEF AccountInv
  <2>4. \A i \in DOMAIN saved : saved[i].state.status # "closed"
    BY <2>1, Zenon DEF AccountInv
  <2>5. main = "look" =>
          Len(messages') <= state.pending + (IF reader'.pc = "put" THEN 0 ELSE 1)
    BY <1>1, <2>1, <2>2, SMTT(20) DEF AccountInv
  <2>. QED
    BY <2>1, <2>3, <2>4, <2>5, Zenon DEF AccountInv, Accounted
<1>3. CASE Main
  <2>1. UNCHANGED <<messages, reader, worker, dropped, refused>>
    BY <1>3, Zenon
       DEF Main, TakeSnapshot, LeaveLoop, Close, Seal, LookAtThreads, LastSnapshot, Save,
       readerVars, eventVars
  <2>2. main # "exit" /\ \A i \in DOMAIN saved : saved[i].state.status # "closed"
    <3>1. main # "exit"
      BY <1>3, Zenon DEF Main, TakeSnapshot, LeaveLoop, Close, Seal, LookAtThreads, LastSnapshot
    <3>. QED
      BY <3>1, Zenon DEF AccountInv
  <2>3. CASE TakeSnapshot
    <3>1. main = "loop" /\ main' \notin {"look", "last-snapshot"} /\ UNCHANGED state
      BY <2>3, Zenon DEF TakeSnapshot, Save
    <3>2. saved' = <<Current>> \/ UNCHANGED saved
      BY <2>3, Zenon DEF TakeSnapshot, Save
    <3>3. Current.state.status # "closed"
      BY <3>1, Zenon DEF MainInv, Current
    <3>4. \A i \in DOMAIN saved' : saved'[i].state.status # "closed"
      BY <2>2, <3>2, <3>3
    <3>. QED
      BY <3>1, <3>4, Zenon DEF AccountInv
  <2>4. CASE LeaveLoop \/ Close
    BY <2>2, <2>4, Zenon DEF LeaveLoop, Close, AccountInv
  <2>5. CASE Seal
    <3>1. main' = "look" /\ state'.pending = Len(messages) /\ UNCHANGED saved
      BY <2>5, Zenon DEF Seal, Typed, StateTyped
    <3>. QED
      BY <1>1, <2>1, <2>2, <3>1, SMTT(20) DEF AccountInv
  <2>6. CASE LookAtThreads
    <3>1. /\ main = "look" /\ main' = "last-snapshot" /\ UNCHANGED saved
          /\ state'.pending = state.pending
          /\ state'.still = (reader.pc # "done" \/ worker.pc # "done")
      BY <2>6, Zenon DEF LookAtThreads, Typed, StateTyped
    <3>2. refused = 0 /\ Len(messages) <= state.pending + 1
      BY <1>1, <3>1 DEF MainInv, AccountInv
    <3>. QED
      BY <2>1, <2>2, <3>1, <3>2, Zenon DEF AccountInv, Accounted
  <2>7. CASE LastSnapshot
    <3>1. main = "last-snapshot" /\ main' = "exit"
      BY <2>7, Zenon DEF LastSnapshot, Save
    <3>2. saved' = <<Current>> \/ UNCHANGED saved
      BY <2>7, Zenon DEF LastSnapshot, Save
    <3>3. Accounted(Current.state) /\ Current.dropped = dropped
      BY <3>1, Zenon DEF AccountInv, Current
    <3>4. \A i \in DOMAIN saved' : saved'[i].state.status = "closed" =>
            Accounted(saved'[i].state) /\ saved'[i].dropped = dropped
      BY <2>2, <3>2, <3>3
    <3>. QED
      BY <2>1, <3>1, <3>4, Zenon DEF AccountInv, Accounted
  <2>. QED
    BY <1>3, <2>3, <2>4, <2>5, <2>6, <2>7, Zenon DEF Main
<1>4. CASE UNCHANGED vars
  BY <1>4, Zenon DEF vars, readerVars, eventVars, mainVars, AccountInv, Accounted
<1>. QED
  BY <1>2, <1>3, <1>4, NextCases, Zenon

\* The queue, the events and the stored bytes keep their limits, and a manifest
\* that says the observer had stopped accounts for every item that was let in,
\* but for one the reader put between the two reads of finish.
THEOREM CloseAccountsHolds == Spec => []CloseAccounts
<1>1. Init => MainInv /\ Limits /\ AccountInv
  <2> SUFFICES ASSUME Init PROVE MainInv /\ Limits /\ AccountInv
    BY Zenon
  <2>1. MainInv
    BY Zenon DEF Init, MainInv
  <2>2. Len(messages) = 0 /\ Len(state.events) = 0
    BY Zenon DEF Init
  <2>3. IsFiniteSet(stored) /\ Cardinality(stored) = 0 /\ worker.pc = "messages"
    BY FS_EmptySet, Zenon DEF Init
  <2>4. Limits
    BY <2>2, <2>3, BoundsAssumption DEF Limits
  <2>5. main = "loop" /\ saved = <<>>
    BY Zenon DEF Init
  <2>6. AccountInv
    BY <2>5 DEF AccountInv
  <2> QED
    BY <2>1, <2>4, <2>6, Zenon
<1>2. Typed /\ MainInv /\ Limits /\ AccountInv /\ [Next]_vars =>
        MainInv' /\ Limits' /\ AccountInv'
  BY MainStep, LimitsKept, AccountStep, Zenon
<1>3. Limits /\ AccountInv => CloseAccounts
  BY Zenon DEF Limits, AccountInv, Accounted, CloseAccounts
<1>. QED
  BY <1>1, <1>2, <1>3, TypesHold, PTL DEF Spec
=============================================================================
