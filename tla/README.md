# Verification of the XGC2 ROS1 tools adapter

TLA+ models of the tools adapter, of its rosbag recorder and of its small
commands, the TLC runs that check them on small instances, and TLAPS proofs of
the safety properties of these runs for all values of the constants. One of them,
`RoundTrip`, is proved in full only of messages without nested messages.
`PROJECT.json` lists every run, the source lines behind every definition, the
hazards the properties are aimed at, and one mutant per checked property.

## The system

| Part | Source | Modules |
| --- | --- | --- |
| Outcome classes | `error.hpp` | `NativeOperation` (abstract) |
| Publisher registry, topic publish | `publisher_registry.cpp` | `PublisherRegistry` |
| Service invoker, one-shot helper | `service_invoker.cpp`, `service_helper_main.cpp` | `ServiceCall` (interleavings), `ServiceFrames` (contents) |
| Frames of the helper | `service_helper_protocol.hpp` | `ServiceHelperProtocol` |
| JSON codec | `json_codec.cpp` | `JsonPrimitives`, `JsonCodec`, `JsonNesting`, `ServiceData` |
| Native context, capabilities, operations | `tools_adapter.cpp` | `NativeContext`, `ToolsAdapter` |
| Process: start, main loop | `main.cpp` | `ToolsAdapter` (start), `MasterMonitor` (loop and end) |
| Type registry | `type_registry.cpp` | partly, in the steps of its callers |
| Recorder: from the request to the command line | `scripts/rosbag_recorder.py` | `RecorderRequest` |
| Recorder: wrapper process | same | `RecorderProcess`, `RecorderCommand` |
| Recorder: archive finalization | same | `ArchiveFinalization` |
| Recorder: record facts | same | `RecordFacts` |
| Clock wait | `clock_wait.hpp`, `clock_wait_main.cpp` | `ClockTarget`, `ClockWait` |
| Probe | `probe_main.cpp` | `Probe` |
| Generators, packaging, CI | `tools/`, `.xgc2/`, `.github/` | not modelled: no state |

The Adapter Runtime (external) starts and stops two capabilities and runs their
operations on 16 dispatch workers. A publish goes through a cache of publishers
guarded by `mutex_` and bound to the process id of one ROS master. A service
call spawns a helper process and talks to it over a socket pair; the helper may
call the server only after it has read a whole commit frame. The main thread
polls the master and ends the process when the master is replaced or gone. The
recorder is a separate Python process around `rosbag record`; beside the bags it
keeps evidence of what was in force during the recording, the record facts. The
clock wait and the probe are commands of their own.

How the modules are put together:

* `ToolsAdapter` and `MasterMonitor` compose with `PublisherRegistry` by `INSTANCE`.
* `PublisherRegistry`, `ServiceCall` and `ToolsAdapter` each implement
  `NativeOperation`. `ToolsAdapter` uses of the service call only that promise.
* `ServiceData` extends `ServiceFrames` and `JsonCodec`: a request from its JSON
  text to the server and its response back.
* `RecorderCommand` extends `RecorderRequest` and `RecorderProcess`.
* `Commands` chooses one of recorder, clock wait and probe at the start, or none.
* `MCTools` and `MCService` put components that share no state side by side, so that
  one run checks them: the commands and the archive (explored when no command is
  run), and the protocol and the data of a service call. One side is chosen at the
  start, and the other stays in an initial state.

## How the models correspond to the code

A step is what a thread does between two accesses to shared state.

* **PublisherRegistry.** The critical sections under `mutex_` are single steps,
  but a cache miss is two (`LeaseMiss`, `Advertise`), because `advertise()`
  does I/O with `mutex_` held. Reading the master's pid (`FetchGeneration`,
  `ProbeFetch`) is apart from the comparison under the lock (`BindGeneration`,
  `ProbeBind`). An entry is named by the call that created it. Type, latch and
  queue size are one value, `config`. `native` and `late` only observe.
* **ServiceCall.** Frames are complete or partial; a response may be garbled,
  too large or a failure. `HelperDies` stands for every early return of the
  helper, so a helper that meets a hang-up with unread data is included.
  `AdapterDies` closes the sockets and delivers the armed death signals.
* **ServiceFrames, ServiceHelperProtocol.** Every frame maker and validator, with
  sizes that wrap at the width of their field and limits on both sides. Magic,
  version and reserved bytes are the same constants at both ends and left out.
* **JsonPrimitives, JsonCodec, JsonNesting, ServiceData.** `decode` and `encode`
  branch by branch. `decodeValue` and `encodeValue` call themselves on the parts of a
  value. `JsonCodec` has them as one level that takes the results of its calls of
  itself, by the index of the part, as an argument (`decodeLevel`, `encodeLevel`; the
  parts are `decodeCalls` and `encodeCalls`). A message is its own level, the level of its
  fields, and below them the constants `decodeNested`, `encodeNested` and
  `emptyNested`. `JsonNesting` closes the recursion, and the run gives its operators to
  the constants, so what TLC checks is the recursion of the code. Integers have
  their width, texts are sequences of digits, the sign and one other character;
  a floating point number is the class its branch tells apart. The number of
  bytes of a message is not computed from it: the size of a payload is any size.
* **NativeContext, ToolsAdapter.** `NativeContext` has the checks of the instance
  spec, of contracts and grants and of the context of an operation as operators
  over records; a text is the sequence of its parts between dots, and its length is
  the number of these parts. The start of
  the process sets the environment, calls `ros::init` and binds the capabilities
  in the order of `main()`. `ClearInstanceSpec` is its separate stores. The code
  does not drain running calls on a stop, and neither does the model. A call is a
  publish, which runs the registry's steps, or a service call, which runs
  `NativeOperation`.
* **MasterMonitor.** One poll is two steps, around the wait for `mutex_`.
  `unanswered` and `verdict` only observe.
* **RecorderRequest.** `normalize_parameters`, `prepare`, the resolution of topics
  and `record_arguments` as operators, and the checks that the recording half
  makes anew. A topic is the sequence of its parts, and its bytes are counted in
  parts. A field that is only checked
  for the form of its own text is a Boolean that says whether it passes.
* **RecorderProcess, RecorderCommand.** The signal handler is one step between two
  steps of the main thread. The child may exit at any time.
* **ArchiveFinalization.** The native recorder is a process of its own: it outlives a
  wrapper that is killed and one whose loop raised (`RecordingFails`), and closes
  volumes or exits at any step of the finalization. `orphaned` and `inventoried` only
  observe. Directory and manifest exist as processes see them
  and as they are on disk. A step is one change or one `fsync`. A power loss
  keeps or loses each change that was not synced. An inode stands for device,
  number and size; `files` holds the issued files (a partial `.bag.active`
  is not among them).
* **RecordFacts.** The reader thread, the worker thread and the main thread take
  steps of their own; a region under `self.lock` is one step, except the last one
  of `finish`, whose reads race threads that do not need the lock. Storing a blob is
  two steps, and either may fail with an I/O error. A payload
  stands for its bytes, its digest and its blob. `outcome` and `refused` only
  observe. The ROS process is the sender of the items its callbacks make.
* **ClockTarget, ClockWait.** `clockTarget` is a set of operators over sequences of
  characters; a turn of the loop of `main()` is its look at the publishers, its checks and
  the callbacks of `callAvailable`. The `NodeHandle` (`StartRos`) and `subscribe()`
  (`Subscribe`) are steps of their own, because roscpp retries a registration with the
  master until it is answered or ROS is shut down. `samples` only observes.
* **Probe.** Every branch of `main()`: the options, the requests to master and
  node, the TCP check, the topic check and the pose snapshot. Answers, messages,
  a replaced node, the deadline and signals come between any two steps.

## Runs

| Run | Bounds | Shows |
| --- | --- | --- |
| `publish` | 2 calls, 2 topics, 1 slot, 2 pids | leases, capacity, agreement, interruptions, eviction; refines `NativeOperation` |
| `publish_liveness` | 2 calls on 1 topic | every call ends if the master comes back for good |
| `service` | protocol: 2 calls, 1 permit; data: widths of 2 to 4 bits, base 3, nesting 2, arrays of 2 | permits, helpers, commit and interruption fences, no orphan; calls and helpers end; refines `NativeOperation`; exact frames and integers, round trip, bad payloads are permanent errors |
| `capabilities` | 2 calls of either kind, 1 topic, 21 instance specs | the admitted context is the one roscpp uses; replies refine `NativeOperation` |
| `publishers_after_stop` | as `capabilities` | **violated**: see findings |
| `master_monitor` | 1 call, 2 silent polls, 2 pids | patience with a silent master; leaving a replaced one |
| `master_lost_blocked` | 1 call, 1 pid | **violated**: see findings |
| `tools` | archive: 3 volumes, 3 faults, 1 foreign file; commands: see below | recorder, clock wait and probe, each from its arguments to its exit; no volume lost, exact record, foreign files kept, eventual success |
| `clock_wait_without_master` | one text, deadline and signals | **violated**: see findings |
| `recorder_orphan`, `recorder_late_signal` | 2 kinds of signal | **violated**: see findings |
| `record_facts` | queue and pass of 1, 3 events, 2 payloads, 3 inputs | limits, complete blobs, validity, samples, snapshots, closing |

Why the bounds are enough for the cases of interest:

* Two calls and one slot reach the limit, a conflict and an eviction. One permit
  for two calls makes the second one miss it.
* In the data of `service` every limit has sizes on both of its sides and beyond the
  modulus of its field. With 2 and 4 bits every value of a type and values next to
  it are tried, as numbers and as texts of up to four characters. A second is 3
  nanoseconds long, so stamps that are normalized, negative and out of range are
  few. Nothing in the code depends on the widths except through these constants.
* In `capabilities` each rule of the instance spec has a document that breaks it alone
  (a host name of 5 parts breaks the limit of 4), and the inherited environment has a
  host name or none.
* Two silent polls distinguish a count in a row from a total.
* Three faults allow a crash in a retry after a crash and a failed attempt, and an
  exception in the loop before either. Of three volumes some are closed before the
  inventory and some behind it.
* In `tools` the recorder is given every parameter at, below and above its
  limits, both profiles, topics at, below and beside the excluded root, topics that
  exceed their number or their parts in total, and robots of every kind, two of
  them with the same id. For the clock wait, base 2, one digit of fraction and 2 as the
  last second make rounding, a carry, the overflow of the seconds and a text that
  is too long happen within five characters. The probe has every mode with and
  without a node and an address, two processes under one node name, and messages
  of the wrong sender, type and content.
* In `record_facts` the queue, the events and the byte budget all overflow. The
  four reports give every continuity, a replay and a conflict. The three inputs
  are shared between items sent, polls and later snapshots.

Symmetry is used in `publish` and `capabilities` only, which check no liveness.
Deadlock checking is off where the system really stops: the adapter died, main
returned, the record is final, a command exited, one request was answered, or the
bounded inputs are used up.

### Fairness

Threads that can run do run. A deadline passes (every invocation has one:
`validateInvocationContext`) and `callTimeoutMs` elapses. `advertise()` returns while a
master answers, and nothing is assumed of it otherwise. A helper gets through its
start-up, but nothing is assumed of its talk to ROS, nor of the server. A recorder that
died is started again; a native recorder that was signalled exits. For the clock wait
and the probe: standard input ends and the steady clock reaches the deadline. No master
need ever answer their registrations; these return if ROS is shut down. `RecordFacts`
and `ServiceData` are checked without fairness: they promise nothing eventually.

### Findings

1. `master_lost_blocked`: `publish()` holds `mutex_` while roscpp waits for a
   master that is gone. The probe of the main loop waits for the same mutex, so
   the process does not exit as `README.md` promises.
2. `recorder_orphan`: an exception in the wait loop (a full disk during
   `write_manifest`) ends the record while the native recorder still runs. A volume
   that it closes behind the inventory is on no list of the finalized manifest, or
   makes every attempt fail at line 1000 as an unowned file.
3. `recorder_late_signal`: a signal during finalization turns the exit code of
   a failed recording into 0, because line 1127 reads `forwarded_signal` again.
4. `publishers_after_stop`: `StopPublishCapability` does not wait for running
   publishes. One that read the flag before may advertise after the cache was
   cleared, and its publisher stays although the capability is disabled, where
   `README.md` promises that disabling it "tears down its native resources".
5. `clock_wait_without_master`: the `NodeHandle` and `subscribe()` of the clock wait
   block while no master answers, and only the loop behind them looks at the deadline
   and the signal. `README.md` promises that a timeout fails the command and that
   cancellation stops it.

### What the properties say with an exception

Where the code does something a reader may not expect, the property names it:

* A duration with the least number of seconds and negative nanoseconds makes the
  constructor of `ros::Duration` throw, which ends as a transient
  `internal_error`; `BadPayloadIsPermanent` leaves this value out.
  Inside of a nested value it is `decodeField` that says so.
* `encode` writes a stamp from the wire as it is, and `decode` refuses one that is
  not normalized; `RoundTrip` speaks of messages whose stamps are, those in arrays
  included.
* `decode` stops at the first error. `IntegersExact` says of a refused request that its
  integer was at fault only where the integer is the only field and the only member.
* With `recordAllTopics` the display copies are excluded, except those selected
  explicitly ("explicitly selected copies and scientific sources remain recorded",
  `rosbag_recorder.py:819`). This does not hold for the root `/xgc/display` itself,
  which `RecordsAsAsked` therefore leaves out.
* `validateHostname` accepts a name that ends in two dots.
* `CommandsEnd` says that the clock wait and the probe end or wait for a master for
  ever (finding 5), and that the probe does so only in the modes that subscribe.
  The reading of standard input is not bounded by the deadline either; it ends by
  fairness. The last turn may be 5 ms late.
* `FinalizedIsExact` and `EventuallyFinalized` speak of the volumes closed before the
  inventory. These are all there are, unless an exception left the native recorder
  running (finding 2).
* `validPublish` compares tenths of a hertz exactly, where the code divides doubles.

## Proofs

Eight modules hold theorems; each extends the modules it is about. `CrashProofs` is
about two, the service call and the archive: in both, a process may die between any
two steps. An invariant that is needed elsewhere has a theorem of the form
`Spec => []Inv`, so that others can cite it.

**Publisher registry** (`PublisherRegistryProofs`), for any finite set of calls and
topics, any requests and any limit (`CallsAssumption` to `MaxPublishersAssumption`).

* `TypeCorrect`; `MutexHeld` (whoever advertises holds `mutex_`); `Capacity`. The
  limit alone is not inductive: an insert happens after the check. `CapacityInv`
  adds that while a call advertises there is a free slot and its topic is not
  cached, which `MutexInv` protects.
* `EntryStructure` relates steps, selected entries and cached entries;
  `GenerationBound` says that a call past `BindGeneration` read the bound
  generation; the two give `Agreement`. `HonestOutcomes` strengthens
  `InterruptStops` by what each step of the loop knows about `native` and `late`.
* `Leases` and `CacheIsSound`. `active_calls` is compared with the cardinality of a
  set of calls; the lemmas say how that set changes when a call takes, keeps or
  gives back a lease.
* `Implements` (every step of `publish()` is a step of `NativeOperation` or none)
  and the action property `Eviction`.

**Capabilities** (`ToolsAdapterProofs`), for any environments, documents, grants
and operations, and any registry (`RegistryAssumption`, `ContextAssumption`).

* `ContextServed`. That an operation passes is decided long after `ros::init`, so
  `ContextInv` carries from each step of the start to the next that roscpp takes,
  and later has taken, the identity of the native context.
* `StopLeavesOvertaken` bounds finding 4: what is left behind a stop was advertised by
  the calls it overtook, by no later one (`StoppedResidue`). It follows from two
  invariants that are inductive together: `StoppedInv` (once the flag is cleared, the
  publishes that run are among those the stop overtook, and behind `clear()` so is what
  is cached) and `ControlInv` (a stop under way has cleared the flag).
* `RunsRegistry`: seen through its publishes the adapter is a behaviour of
  `PublisherRegistry`; service calls and refused operations map to stuttering. The
  theorems of the registry are then cited through `INSTANCE`, not proved again
  (`RegistryKeepsItsPromises`).
* `RepliesHonest`: the operations implement `NativeOperation`. A publish takes its
  step from the refinement of the registry, a service call takes it by itself, and
  `ReplyInv` relates the reply of a call to its step, its class and what was sent.

**Main loop** (`MasterMonitorProofs`), for any number of polls. `RunsRegistry` and
`RegistryKeepsItsPromises` as above: the monitor's probe and the clearing at the end
are steps of the registry. `MonitorIsPatient` needs `MonitorInv`: the counter of the
code is at most the number of polls in a row without an answer, the one under way
included.

**Service call.**

* `CrashProofs`, of `ServiceCall`, for any finite set of calls and any number of
  permits: `CallStructure` is the inductive invariant, `CallInv`. Its two halves say
  what the invoker knows (no outcome before the way out; once the commit frame is
  written no outcome denies the execution) and what the helper may do (it contacts the
  server only behind the commit frame, and answers only what the server answered).
  Neither is inductive alone: each end of the socket moves on what the other one wrote.
  `Fence` follows from it. `ParentDeathFence` needs only where the helper is in its
  start: a helper that armed its signal dies with the adapter, and one that did not
  compares again. `InterruptsPrevent` is a statement about all later states; it rests on
  `StoppedForGood`, that a call which was interrupted in time never gets to the commit.
  `HelperLimit` counts: the counter is the cardinality of the set of permit holders, and
  every helper belongs to a holder. `ServiceImplements`: call, helper and server
  together implement `NativeOperation`; one lemma for each abstract step says which
  concrete change it is.
* `ServiceProofs`, of `ServiceFrames`: `FramesAreExact`, for any limits that fit the
  fields of a frame and any sizes of requests and responses.
* `ServiceProofs`, of `ServiceData`, for every base, width, limit, type, document and
  text (`PrimitivesAssumption`, `CodecAssumption`), where the inputs are JSON values,
  types and messages of the shape `InputsAssumption` describes:
  * `DataImplementsFrames`: a call with its data is a call of `ServiceFrames`.
  * `IntegersAreExact`: `SignedIntegerExact` and `UnsignedIntegerExact` say which JSON
    values are taken, and as what. They rest on `TextReads` and `TextUnique`: the text
    that the codec writes for an integer is read as that integer, and no other text
    is. The loops over texts are recursive functions; an induction takes the least
    number at which a claim would fail (`LeastNumber`, `StrongInduction`).
  * `BadPayloadsArePermanent`: `PrimitiveResult` says of every primitive that it is
    read as a value of its type, refused, or a duration that throws; `MessageRefused`
    carries the error of a field to the message.
  * `MessagesSurvive`: `PrimitiveSurvives`, `FlatSurvives` (arrays) and
    `MessageSurvives`, one level after the other. Of the nested messages it supposes
    that they survive (`NestedSurvives`). `FlatMessagesSurvive` supposes nothing: it is
    `RoundTrip` for messages whose fields are primitives and arrays of them.

  The inductive invariant is `DataInv`: a request is decoded before anything is sent,
  the message stays what `decode` made of the document, and a call that the codec
  refused is over. That a decoded message is normalized is a lemma about `decode`
  (`DecodedSound`).

**Archive**, for any number of volumes and faults and any foreign files.

* `CrashProofs`: `NothingLost` cannot be proved from what the directory shows,
  because a power loss takes names back. The invariant is that every closed volume
  has a name that is the same in the directory and on disk (`Durable`), so that
  no loss can take it; between `link` and `unlink` the new name is on disk before
  the old one goes (`Linked`). `ArchiveStructure` adds `ManifestInv` (a manifest,
  in memory or on disk, lists nothing or exactly the volumes closed before the
  inventory; it is on disk before the loop begins), `NativeInv` (the native recorder
  runs on behind the end of the recording only if the loop left it behind, and only
  then are there volumes behind the inventory) and `DirectoryInv` (before the
  inventory is on disk every volume has its native name and no other, and so has for
  ever one that is closed behind it; a volume the loop is done with has its issued
  name for good). They are inductive together only: the inventory is complete because the
  native names are untouched, and these are untouched because no inventory is on
  disk. From them follow `Pinned`, `Exact` and the action property `Untouched`.

**Record facts** (`RecordFactsProofs`), for any items, reports, declared sources and
limits (`BoundsAssumption`, `ReportAssumption`, `SourcesAssumption`).

* `TypesHold` is the ground of the others: it says of which kind the item at hand is
  at each step of the worker (`ItemInv`). `ManifestCurrent` follows from it, because
  every step that changes the state also moves `revision`.
* `ReferencedBlobsDurable`: `BlobInv` adds the payload at hand, which counts as stored
  only when it is durable, the events of the state and the manifest in memory.
* `ValidityHolds`: `ReportsInv` says that `producers` remembers the newest report of
  each producer (`LastReport`), and that of two reports with none between them the
  older one ends as the newer one demands (`ReportInv`). That every report but the
  newest has such a successor is the existence of a least one after it (`LeastOf`).
* `SamplesAreShown`: `SampleInv` relates the remembered sample of a source to its
  last event, including the time in which a sample is taken and not yet recorded.
* `CloseAccountsHolds`: `Limits` holds the room for a payload that is being written.
  `AccountInv` says that behind the sealing the queue grows by at most the one item
  the reader may hold, although `finish` looks at the threads one after the other;
  `MainInv` says what can still change at each of its steps.

**Commands** (`CommandsProofs`, and `ClockProofs` for the clock wait), for any
requests, texts, options and messages
(`DocumentsAssumption`, `LimitsAssumption`, `ScaleAssumption`, `TextsAssumption`,
`ProbeAssumption`, `NamesAssumption`). A command that was not chosen takes no step.

* `RecorderIsTruthful` by `RecorderInv`: a status of the end is written only behind the
  loop, an exit code of zero is the child's, and a signal that was noted stays
  noted. `HalvesAgree` and `RecorderDoesAsAsked` by
  `RequestInv` (a document that is still in use has passed `prepare`) and two lemmas
  about operators: what `prepare` lets pass satisfies each check of the recording
  half (`PreparedIsTrusted`), and the resolved topics are the ones asked for
  (`ResolvedIsAsked`).
* `ProbeIsTruthful` by `ProbeInv`: what an answer or a message proves is fixed when it
  arrives, so the invariant carries the process it came from and whether it came in
  time. `SnapshotIsExact` by `SnapshotInv`: the poses taken so far are the first usable
  ones among the messages delivered so far.
* `ClockWaitIsExact`. `ClockProofs` shows that `clockTarget` rounds the text up
  to the next nanosecond, for every base, number of digits and largest second
  (`TargetMeans`), by the same kind of induction. The value of a text is compared with
  the reference by cross-multiplication, without fractions. `SameTarget` carries
  this over to the instance of `Commands`. `WaitInv` then says that the accepted stamps
  never go back and that all but the last are before the target.

Only model-checked:

* Liveness, which is out of reach of the prover: `CallsEnd` (of publishes and of
  service calls), `ChangedMasterEnds`, `EventuallyFinalized`, `StopEnds` and
  `CommandsEnd`.
* `RoundTrip` below the fields of a message. Its proof would be an induction over the
  nesting of `JsonNesting`, whose operators are `RECURSIVE`, and the prover has no SMT
  backend in a module that reaches one. `IntegersExact` speaks of the fields of the
  message itself.
* The five violations of the findings, which are counterexamples.

## Not modelled

* The generators under `tools/`, packaging and CI: text without state.
* The contents of messages outside of the codec, the wording of errors, logging,
  and the generated contract.
* `resolver_mutex_` of the type registry. It is taken inside `mutex_` or alone for
  one library call, so it cannot deadlock; that others wait for it while
  `advertise()` waits for a master is listed as a hazard without a property,
  because no clock is modelled against which a late refusal could be measured.
* The forms of paths, URIs and identities in a recording request: each is valid or
  not.
* roscpp, ros_babel_fish, the Adapter Runtime SDK, `rosbag record`, the kernel and
  the file system are external and appear as nondeterministic steps.
