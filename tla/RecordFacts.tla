------------------------------ MODULE RecordFacts ------------------------------
(***************************************************************************)
(* The evidence a recording keeps beside its bags (class RecordFacts of    *)
(* rosbag_recorder.py): what producers report on /xgc/record_facts, and    *)
(* samples of the declared files and parameters.                           *)
(*                                                                         *)
(* Three threads share it.  The reader (read_ros) moves what the ROS       *)
(* process sends into a bounded queue; the worker (run) turns queue items  *)
(* and samples into events; the main thread copies the state into the      *)
(* manifest now and then and seals it in the end (finish).  A region under *)
(* self.lock is one step, except the sealing: its last two reads do not    *)
(* agree with threads that need no lock, so the lock is a variable there.  *)
(*                                                                         *)
(* A kill leaves the blobs and the saved manifest as they are in some      *)
(* state, so what holds of these two in every state holds after a kill.    *)
(*                                                                         *)
(* self.revision is only ever compared with self.persisted: `changed` is   *)
(* their being different.  A payload stands for its bytes, its digest and  *)
(* its blob file.                                                          *)
(***************************************************************************)
EXTENDS Integers, Sequences, FiniteSets

CONSTANTS
  Inbound,          \* what the ROS process may send: [kind, source, value]
  Report,           \* the well-formed producer texts and what they say:
                    \*   text |-> [source, sequence, event, mono, ros]
  Declarations,     \* the sources a poll visits, in order: <<kind, source>>
  Values,           \* what a declared source may hold
  Reasons,          \* why a source cannot be read
  QueueSize,        \* 256 in the code
  PassLimit,        \* 256 items in one process_messages
  MAX_EVENTS,
  MAX_TOTAL_BYTES,  \* in payloads: each counts one
  MaxInputs         \* bound: items sent, polls, and snapshots of the loop
                    \*   after its first

ASSUME BoundsAssumption ==
  /\ {QueueSize, PassLimit, MAX_EVENTS, MAX_TOTAL_BYTES} \subseteq Nat \ {0}
  /\ MaxInputs \in Nat

ASSUME ReportAssumption ==
  \A text \in DOMAIN Report :
    /\ Report[text].sequence \in Nat \ {0}
    /\ Report[text].event \in {"applied", "stopped"}
    /\ Report[text].mono \in Nat
    /\ Report[text].ros \in Nat

DeclarationSet == {Declarations[i] : i \in DOMAIN Declarations}

\* A declared source is a kind and a name; the kinds a poll samples are not
\* those of the ROS process or of the observer itself.
ASSUME SourcesAssumption ==
  /\ Declarations \in Seq({d[1] : d \in DeclarationSet} \X {d[2] : d \in DeclarationSet})
  /\ \A d \in DeclarationSet : /\ d[1] # "observer"
                               /\ \A m \in Inbound : d[1] # m.kind

VARIABLES
  messages,    \* the queue
  reader,      \* [pc, item] of read_ros
  worker,      \* [pc, item, left, index, final] of run
  main,        \* where the main thread is
  lock,        \* "none", or "main" inside the sealing
  closed, sealed,
  state,       \* self.state: [events, status, pending, still]
  dropped,
  changed,     \* revision # persisted
  previous,    \* the last digest (seen) and reason (missing) of a source
  producers,   \* position of the last event of a producer, 0 for none
  blobs,       \* the file of a payload: "absent", "partial" or "durable"
  stored,      \* stored_hashes
  document,    \* the manifest's recordFacts in memory: <<>> or <<snapshot>>
  saved,       \* the same on disk
  outcome,     \* history: what the last sample of a declared source gave
  refused,     \* history: items refused because the state was sealed
  inputs       \* bounded counter

readerVars == <<messages, reader>>
eventVars == <<state, dropped, changed, previous, producers, refused>>
diskVars == <<blobs, stored>>
mainVars == <<main, lock, closed, sealed, document, saved>>
vars == <<readerVars, worker, eventVars, diskVars, mainVars, outcome, inputs>>

None == "none"
NoItem == [kind |-> None, source |-> None, evidence |-> None, value |-> None,
           from |-> None]

Payloads == Values \cup {m.value : m \in Inbound}
Keys == DeclarationSet \cup {<<m.kind, m.source>> : m \in Inbound}
                       \cup {<<"observer", m.source>> : m \in Inbound}
Producers == {Report[text].source : text \in DOMAIN Report}

Init ==
  /\ messages = <<>>
  /\ reader = [pc |-> "recv", item |-> NoItem]
  /\ worker = [pc |-> "messages", item |-> NoItem, left |-> PassLimit,
               index |-> 1, final |-> FALSE]
  /\ main = "loop"
  /\ lock = "none"
  /\ closed = FALSE
  /\ sealed = FALSE
  /\ state = [events |-> <<>>, status |-> "observing", pending |-> 0,
              still |-> FALSE]
  /\ dropped = 0
  /\ changed = TRUE
  /\ previous = [seen |-> [k \in Keys |-> None], missing |-> [k \in Keys |-> None]]
  /\ producers = [p \in Producers |-> 0]
  /\ blobs = [p \in Payloads |-> "absent"]
  /\ stored = {}
  /\ document = <<>>
  /\ saved = <<>>
  /\ outcome = [d \in DeclarationSet |-> None]
  /\ refused = 0
  /\ inputs = 0

\* Threads are daemons: they end with the process.
Running == main # "exit"

-----------------------------------------------------------------------------
(* The reader: read_ros, and enqueue in its thread.                        *)

\* An item is received and enqueue finds the observation open; once it is
\* closed enqueue discards what still comes.
Recv(m) ==
  /\ Running /\ reader.pc = "recv" /\ ~closed /\ inputs < MaxInputs
  /\ reader' = [pc |-> "put", item |-> m]
  /\ inputs' = inputs + 1
  /\ UNCHANGED <<messages, worker, eventVars, diskVars, mainVars, outcome>>

Put ==
  /\ Running /\ reader.pc = "put"
  /\ IF Len(messages) < QueueSize
     THEN /\ messages' = Append(messages, reader.item)
          /\ reader' = [pc |-> "recv", item |-> NoItem]
     ELSE /\ reader' = [reader EXCEPT !.pc = "full"]
          /\ UNCHANGED messages
  /\ UNCHANGED <<worker, eventVars, diskVars, mainVars, outcome, inputs>>

\* Mutant: the drop is counted and the revision is not advanced.
DropUnnoticed ==
  /\ Running /\ reader.pc = "full" /\ lock = "none"
  /\ dropped' = dropped + 1
  /\ reader' = [pc |-> "recv", item |-> NoItem]
  /\ UNCHANGED <<messages, worker, state, changed, previous, producers,
                 refused, diskVars, mainVars, outcome, inputs>>

\* queue.Full: the item is counted as dropped.
Drop ==
  /\ Running /\ reader.pc = "full" /\ lock = "none"
  /\ dropped' = dropped + 1
  /\ changed' = TRUE
  /\ reader' = [pc |-> "recv", item |-> NoItem]
  /\ UNCHANGED <<messages, worker, state, previous, producers, refused,
                 diskVars, mainVars, outcome, inputs>>

\* finish has ended the ROS process.  One that ends by itself is one that
\* sends nothing more: whether the reader is alive is first asked by finish.
ReaderEnds ==
  /\ Running /\ reader.pc = "recv" /\ closed
  /\ reader' = [reader EXCEPT !.pc = "done"]
  /\ UNCHANGED <<messages, worker, eventVars, diskVars, mainVars, outcome, inputs>>

-----------------------------------------------------------------------------
(* The worker: run, process_messages and poll.                             *)

At(step) == Running /\ worker.pc = step

ItemOf(m) ==
  [kind     |-> IF m.kind = "unavailable" THEN "observer" ELSE m.kind,
   source   |-> m.source,
   evidence |-> CASE m.kind = "producer"    -> "producer-applied"
                  [] m.kind = "unavailable" -> "unavailable"
                  [] OTHER                  -> "snapshot-observed",
   value    |-> m.value,
   from     |-> "messages"]

GetMessage ==
  /\ At("messages") /\ worker.left > 0 /\ messages # <<>>
  /\ LET item == ItemOf(Head(messages)) IN
       worker' = [worker EXCEPT
                    !.item = item, !.left = @ - 1,
                    !.pc = IF item.evidence = "unavailable" THEN "append" ELSE "store"]
  /\ messages' = Tail(messages)
  /\ UNCHANGED <<reader, eventVars, diskVars, mainVars, outcome, inputs>>

\* The next turn of the loop of run: the last pass once closed is set.
NextPass ==
  worker' = [worker EXCEPT !.pc = "messages", !.left = PassLimit, !.index = 1,
                           !.final = closed]

\* The pass is over; a poll follows when it is due, and none after the last
\* pass.
PassEnds ==
  /\ At("messages") /\ (worker.left = 0 \/ messages = <<>>)
  /\ \/ /\ worker.final
        /\ worker' = [worker EXCEPT !.pc = "done", !.left = 0]
        /\ UNCHANGED inputs
     \/ /\ ~worker.final /\ inputs < MaxInputs
        /\ worker' = [worker EXCEPT !.pc = "poll", !.left = 0]
        /\ inputs' = inputs + 1
     \/ /\ ~worker.final
        /\ NextPass
        /\ UNCHANGED inputs
  /\ UNCHANGED <<readerVars, eventVars, diskVars, mainVars, outcome>>

\* Reading a declared source gave its bytes, or the reason why it did not (a
\* file that changed while it was read is one).
Read(d, evidence, value) ==
  /\ worker' = [worker EXCEPT
       !.item = [kind |-> d[1], source |-> d[2], evidence |-> evidence,
                 value |-> value, from |-> "poll"],
       !.index = @ + 1,
       !.pc = IF evidence = "unavailable" THEN "append" ELSE "store"]
  /\ outcome' = [outcome EXCEPT ![d] = value]

\* The next declared source is read, or cannot be.
Sample ==
  /\ At("poll") /\ worker.index <= Len(Declarations) /\ ~closed
  /\ LET d == Declarations[worker.index]
     IN \/ \E v \in Values : Read(d, "snapshot-observed", v)
        \/ \E reason \in Reasons : Read(d, "unavailable", reason)
  /\ UNCHANGED <<readerVars, eventVars, diskVars, mainVars, inputs>>

PollEnds ==
  /\ At("poll") /\ (closed \/ worker.index > Len(Declarations))
  /\ NextPass
  /\ UNCHANGED <<readerVars, eventVars, diskVars, mainVars, outcome, inputs>>

Key(item) == <<item.kind, item.source>>

\* The item is dealt with: back to the pass or the poll it came from.
Return == worker' = [worker EXCEPT !.pc = worker.item.from, !.item = NoItem]

\* An exception while an item is handled becomes an "unavailable" event: of
\* the observer for a queue item, of the source itself for a sample.
Fail(reason) ==
  /\ worker' = [worker EXCEPT
       !.pc = "append", !.item.evidence = "unavailable", !.item.value = reason,
       !.item.kind = IF worker.item.from = "messages" THEN "observer" ELSE @]
  /\ outcome' = IF worker.item.from = "messages" THEN outcome
                ELSE [outcome EXCEPT ![Key(worker.item)] = reason]

-----------------------------------------------------------------------------
(* store, and the checks its callers make before it.                       *)

\* validate_producer and the JSON decoding refuse the text.
RejectText ==
  /\ At("store")
  /\ worker.item.evidence = "producer-applied"
  /\ worker.item.value \notin DOMAIN Report
  /\ Fail("invalid")
  /\ UNCHANGED <<readerVars, eventVars, diskVars, mainVars, inputs>>

\* observation and file: the same bytes as last time.  A parameter that can
\* be read again is no longer unavailable, whether it changed or not.
SameAsBefore ==
  /\ At("store")
  /\ worker.item.evidence = "snapshot-observed"
  /\ previous.seen[Key(worker.item)] = worker.item.value
  /\ previous' = IF worker.item.kind = "parameter"
                 THEN [previous EXCEPT !.missing[Key(worker.item)] = None]
                 ELSE previous
  /\ Return
  /\ UNCHANGED <<readerVars, state, dropped, changed, producers, refused,
                 diskVars, mainVars, outcome, inputs>>

Storing ==
  /\ At("store")
  /\ \/ /\ worker.item.evidence = "producer-applied"
        /\ worker.item.value \in DOMAIN Report
     \/ /\ worker.item.evidence = "snapshot-observed"
        /\ previous.seen[Key(worker.item)] # worker.item.value

\* A payload that is stored already is only compared; a new one is created
\* unless the byte budget is spent.  Either raises when the directory or the
\* file cannot be opened, or another file is found under the name.
StoreBegins ==
  /\ Storing
  /\ LET data == worker.item.value
         fits == data \in stored \/ Cardinality(stored) + 1 <= MAX_TOTAL_BYTES IN
       \/ /\ data \in stored
          /\ worker' = [worker EXCEPT !.pc = "append"]
          /\ UNCHANGED <<blobs, outcome>>
       \/ /\ data \notin stored /\ fits
          /\ blobs' = [blobs EXCEPT ![data] = "partial"]
          /\ worker' = [worker EXCEPT !.pc = "sync"]
          /\ UNCHANGED outcome
       \/ fits /\ Fail("write-failed") /\ UNCHANGED blobs
       \/ ~fits /\ Fail("budget") /\ UNCHANGED blobs
  /\ UNCHANGED <<readerVars, stored, eventVars, mainVars, inputs>>

\* Mutant: the payload counts as stored although its file was not synced.
StoreEndsUnsynced ==
  /\ At("sync")
  /\ stored' = stored \cup {worker.item.value}
  /\ worker' = [worker EXCEPT !.pc = "append"]
  /\ UNCHANGED <<blobs, outcome, readerVars, eventVars, mainVars, inputs>>

\* The file and its directory are synced, or writing raises and the partial
\* file is unlinked.
StoreEnds ==
  /\ At("sync")
  /\ \/ /\ blobs' = [blobs EXCEPT ![worker.item.value] = "durable"]
        /\ stored' = stored \cup {worker.item.value}
        /\ worker' = [worker EXCEPT !.pc = "append"]
        /\ UNCHANGED outcome
     \/ /\ blobs' = [blobs EXCEPT ![worker.item.value] = "absent"]
        /\ Fail("write-failed")
        /\ UNCHANGED stored
  /\ UNCHANGED <<readerVars, eventVars, mainVars, inputs>>

-----------------------------------------------------------------------------
(* append, under the lock, and what its callers do with its answer.        *)

\* Mutant: one event too many.
RoomOffByOne == ~sealed /\ Len(state.events) <= MAX_EVENTS

Room == ~sealed /\ Len(state.events) < MAX_EVENTS

\* append returned None: sealed, or MAX_EVENTS reached and the item counted.
Refuse ==
  /\ ~Room
  /\ IF sealed THEN /\ refused' = refused + 1
                    /\ UNCHANGED <<dropped, changed>>
               ELSE /\ dropped' = dropped + 1
                    /\ changed' = TRUE
                    /\ UNCHANGED refused
  /\ UNCHANGED <<state, producers>>

\* append returned the event, which is now the last of `events`.
Accept(events) ==
  /\ Room
  /\ state' = [state EXCEPT !.events = events]
  /\ changed' = TRUE
  /\ UNCHANGED <<dropped, refused>>

Event(continuity, endReason) ==
  [kind |-> worker.item.kind, source |-> worker.item.source,
   evidence |-> worker.item.evidence, value |-> worker.item.value,
   continuity |-> continuity, until |-> <<>>, endReason |-> endReason]

AppendObservation ==
  /\ At("append") /\ worker.item.evidence = "snapshot-observed" /\ lock = "none"
  /\ LET k == Key(worker.item)
         readable == [previous EXCEPT !.missing[k] = None]
     IN \/ /\ Refuse
           /\ previous' = IF worker.item.kind = "parameter" THEN readable ELSE previous
        \/ /\ Accept(Append(state.events, Event(None, None)))
           /\ previous' = [(IF k \in DeclarationSet THEN readable ELSE previous)
                             EXCEPT !.seen[k] = worker.item.value]
           /\ UNCHANGED producers
  /\ Return
  /\ UNCHANGED <<readerVars, diskVars, mainVars, outcome, inputs>>

\* Mutant: unavailable leaves the digest seen before in place.
AppendUnavailableOnly ==
  /\ At("append") /\ worker.item.evidence = "unavailable"
  /\ LET k == Key(worker.item) IN
       \/ /\ previous.missing[k] = worker.item.value
          /\ UNCHANGED eventVars
       \/ /\ previous.missing[k] # worker.item.value /\ lock = "none"
          /\ \/ Refuse /\ UNCHANGED previous
             \/ /\ Accept(Append(state.events, Event(None, None)))
                /\ previous' = [previous EXCEPT !.missing[k] = worker.item.value]
                /\ UNCHANGED producers
  /\ Return
  /\ UNCHANGED <<readerVars, diskVars, mainVars, outcome, inputs>>

\* The same reason is recorded once; the next value will be recorded even if
\* it is the one seen before.
AppendUnavailable ==
  /\ At("append") /\ worker.item.evidence = "unavailable"
  /\ LET k == Key(worker.item) IN
       \/ /\ previous.missing[k] = worker.item.value
          /\ UNCHANGED eventVars
       \/ /\ previous.missing[k] # worker.item.value /\ lock = "none"
          /\ \/ Refuse /\ UNCHANGED previous
             \/ /\ Accept(Append(state.events, Event(None, None)))
                /\ previous' = [previous EXCEPT !.missing[k] = worker.item.value,
                                                !.seen[k] = None]
                /\ UNCHANGED producers
  /\ Return
  /\ UNCHANGED <<readerVars, diskVars, mainVars, outcome, inputs>>

\* The last event of the producer of the item at hand, and both reports.
LastOf == producers[Report[worker.item.value].source]
Now == Report[worker.item.value]
Before == Report[state.events[LastOf].value]

\* Mutant: a clock that ran backwards counts as a continuation.
ContinuityIgnoresClocks ==
  IF LastOf = 0
  THEN IF Now.sequence = 1 THEN "first-observed" ELSE "prior-events-unobserved"
  ELSE IF Now.sequence # Before.sequence + 1 THEN "sequence-gap"
       ELSE "consecutive-producer-reports"

\* How a report continues the one before it of the same producer.
Continuity ==
  IF LastOf = 0
  THEN IF Now.sequence = 1 THEN "first-observed" ELSE "prior-events-unobserved"
  ELSE CASE Now.sequence # Before.sequence + 1 -> "sequence-gap"
         [] Now.sequence = Before.sequence + 1 /\ Now.mono < Before.mono
              -> "producer-clock-regression"
         [] Now.sequence = Before.sequence + 1 /\ Now.mono >= Before.mono
            /\ Now.ros < Before.ros -> "ros-clock-regression"
         [] OTHER -> "consecutive-producer-reports"

\* The validity of an applied report ends where its successor took effect,
\* if nothing was missed in between; otherwise its end stays unknown.
EndValidity(events) ==
  IF LastOf = 0 \/ Before.event # "applied" THEN events
  ELSE IF Continuity = "consecutive-producer-reports"
       THEN [events EXCEPT ![LastOf].until = <<Now.mono, Now.ros>>,
                           ![LastOf].endReason = Now.event]
       ELSE [events EXCEPT ![LastOf].endReason = Continuity]

Producing == At("append") /\ worker.item.evidence = "producer-applied"

\* The report before it once more, byte for byte (a latched topic).
ReportRepeated ==
  /\ Producing /\ LastOf # 0
  /\ Now.sequence = Before.sequence
  /\ worker.item.value = state.events[LastOf].value
  /\ Return
  /\ UNCHANGED <<readerVars, eventVars, diskVars, mainVars, outcome, inputs>>

\* producer-sequence-replay-or-conflict.
ReportReplayed ==
  /\ Producing /\ LastOf # 0
  /\ Now.sequence <= Before.sequence
  /\ worker.item.value # state.events[LastOf].value
  /\ Fail("sequence-replay")
  /\ UNCHANGED <<readerVars, eventVars, diskVars, mainVars, inputs>>

AppendReport ==
  /\ Producing /\ lock = "none"
  /\ LastOf # 0 => Now.sequence > Before.sequence
  /\ LET endReason == IF Now.event = "stopped" THEN None ELSE "end-not-observed" IN
       \/ Refuse
       \/ /\ Accept(Append(EndValidity(state.events), Event(Continuity, endReason)))
          /\ producers' = [producers EXCEPT ![Now.source] = Len(state.events) + 1]
  /\ Return
  /\ UNCHANGED <<readerVars, previous, diskVars, mainVars, outcome, inputs>>

-----------------------------------------------------------------------------
(* The main thread.                                                        *)

\* What snapshot copies.
Current == [state |-> state, dropped |-> dropped]

\* The copy and write_manifest, which only the main thread takes part in: it
\* replaces the file, or raises and leaves it.
Save(step, failed) ==
  /\ document' = <<Current>>
  /\ changed' = FALSE
  /\ \/ saved' = document' /\ main' = step
     \/ UNCHANGED saved /\ main' = failed
  /\ UNCHANGED <<readerVars, worker, state, dropped, previous, producers, refused,
                 diskVars, lock, closed, sealed, outcome>>

\* The loop of the recorder saves a changed state.  An exception ends the
\* process the first time, which is before the try block, and later the loop.
TakeSnapshot ==
  /\ main = "loop" /\ changed
  /\ Save("loop", IF document = <<>> THEN "exit" ELSE "finish")
  /\ IF document = <<>> THEN UNCHANGED inputs
     ELSE inputs < MaxInputs /\ inputs' = inputs + 1

LeaveLoop ==
  /\ main = "loop" /\ saved # <<>>
  /\ main' = "finish"
  /\ UNCHANGED <<readerVars, worker, eventVars, diskVars, lock, closed, sealed,
                 document, saved, outcome, inputs>>

\* finish: no more callbacks.  The ROS process is ended, and the threads get
\* a limited time to end.
Close ==
  /\ main = "finish"
  /\ closed' = TRUE
  /\ main' = "seal"
  /\ UNCHANGED <<readerVars, worker, eventVars, diskVars, lock, sealed, document,
                 saved, outcome, inputs>>

\* Mutant: the lock is given back before the threads are looked at.
SealUnlocked ==
  /\ main = "seal"
  /\ sealed' = TRUE
  /\ state' = [state EXCEPT !.status = "closed", !.pending = Len(messages)]
  /\ main' = "look"
  /\ UNCHANGED <<readerVars, worker, dropped, changed, previous, producers, refused,
                 diskVars, lock, closed, document, saved, outcome, inputs>>

\* The lock is taken, the state sealed and the queue measured.
Seal ==
  /\ main = "seal"
  /\ lock' = "main"
  /\ sealed' = TRUE
  /\ state' = [state EXCEPT !.status = "closed", !.pending = Len(messages)]
  /\ main' = "look"
  /\ UNCHANGED <<readerVars, worker, dropped, changed, previous, producers, refused,
                 diskVars, closed, document, saved, outcome, inputs>>

\* Which threads are still alive; the lock is given back.
LookAtThreads ==
  /\ main = "look"
  /\ state' = [state EXCEPT !.still = reader.pc # "done" \/ worker.pc # "done"]
  /\ changed' = TRUE
  /\ lock' = "none"
  /\ main' = "last-snapshot"
  /\ UNCHANGED <<readerVars, worker, dropped, previous, producers, refused, diskVars,
                 closed, sealed, document, saved, outcome, inputs>>

\* The manifest is written for the last time and the process exits.
LastSnapshot ==
  /\ main = "last-snapshot"
  /\ Save("exit", "exit")
  /\ UNCHANGED inputs

Reader == (\E m \in Inbound : Recv(m)) \/ Put \/ Drop \/ ReaderEnds

Worker ==
  \/ GetMessage \/ PassEnds \/ Sample \/ PollEnds
  \/ RejectText \/ SameAsBefore \/ StoreBegins \/ StoreEnds
  \/ AppendObservation \/ AppendUnavailable
  \/ ReportRepeated \/ ReportReplayed \/ AppendReport

Main ==
  \/ TakeSnapshot \/ LeaveLoop \/ Close \/ Seal \/ LookAtThreads
  \/ LastSnapshot

Next == Reader \/ Worker \/ Main

Spec == Init /\ [][Next]_vars

-----------------------------------------------------------------------------
(* Properties.                                                             *)

\* When revision and persisted agree, the manifest in memory holds the state
\* as it is: no thread changes the state without snapshot noticing.
SnapshotCurrent == ~changed /\ lock = "none" => document = <<Current>>

\* "A partial blob is never referenced by the manifest": whatever manifest is
\* on disk, after a kill too, the blobs of its events are complete.
BlobsDurable ==
  \A i \in DOMAIN saved : \A j \in DOMAIN saved[i].state.events :
    LET e == saved[i].state.events[j] IN
      e.evidence # "unavailable" => blobs[e.value] = "durable"

ReportsOf(events, p) ==
  {i \in DOMAIN events : /\ events[i].evidence = "producer-applied"
                         /\ Report[events[i].value].source = p}

\* The validity producer() writes into earlier events: only the report that
\* directly follows, with both clocks going forward, ends the validity of an
\* applied one at a known time; any other successor ends it unknown; the last
\* one is open.
ValiditySound ==
  \A p \in Producers : \A i \in ReportsOf(state.events, p) :
    LET e == state.events[i]
        r == Report[e.value]
        later == {j \in ReportsOf(state.events, p) : j > i}
    IN r.event = "applied" =>
         IF later = {} THEN e.until = <<>> /\ e.endReason = "end-not-observed"
         ELSE LET j == CHOOSE j \in later : \A k \in later : j <= k
                  next == Report[state.events[j].value]
                  follows == /\ next.sequence = r.sequence + 1
                             /\ next.mono >= r.mono /\ next.ros >= r.ros
              IN /\ next.sequence > r.sequence
                 /\ e.until = IF follows THEN <<next.mono, next.ros>> ELSE <<>>
                 /\ e.endReason # "end-not-observed"

\* Leaving out what did not change never hides a change: unless events were
\* dropped or the state is sealed, the last event of a declared source says
\* what its last sample gave (observation, file and unavailable keep this
\* with `previous`).
SamplesShown ==
  dropped = 0 /\ ~sealed /\ worker.pc \in {"messages", "poll", "done"} =>
    \A d \in DeclarationSet :
      LET own == {i \in DOMAIN state.events :
                    <<state.events[i].kind, state.events[i].source>> = d}
      IN outcome[d] # None =>
           \E i \in own : /\ \A j \in own : j <= i
                          /\ state.events[i].value = outcome[d]

\* The queue, the event list and the stored bytes keep their limits, and a
\* manifest that says the observer had stopped accounts for every item that was
\* let in: none was refused after the sealing, every drop is counted, and
\* pendingAtClose is at least the number left in the queue, less the one item
\* the reader may put between the two reads of finish.
CloseAccounts ==
  /\ Len(messages) <= QueueSize
  /\ Len(state.events) <= MAX_EVENTS
  /\ Cardinality(stored) <= MAX_TOTAL_BYTES
  /\ \A i \in DOMAIN saved :
       saved[i].state.status = "closed" /\ ~saved[i].state.still =>
         /\ refused = 0
         /\ saved[i].dropped = dropped
         /\ Len(messages) <= saved[i].state.pending + 1
=============================================================================
