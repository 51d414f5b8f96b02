-------------------------- MODULE PublisherRegistry --------------------------
(***************************************************************************)
(* The cache of ROS1 publishers of the tools adapter and the publish       *)
(* operation that runs over it (publisher_registry.cpp).  The dispatch     *)
(* workers of the Adapter Runtime run several publish calls at once; the   *)
(* main thread probes the ROS master and stops the capability meanwhile.   *)
(*                                                                         *)
(* A step is what a thread does between two accesses to shared state: the  *)
(* critical sections under mutex_, the reads of the master's process id    *)
(* and of the cancellation token, and the native publish.  The critical    *)
(* section of a cache miss is two steps, because TypeRegistry::advertise   *)
(* talks to the ROS master while mutex_ is held.                           *)
(*                                                                         *)
(* A member of Calls is one invocation.  An invocation creates at most one *)
(* cache entry, so an entry is named by the call that created it.          *)
(***************************************************************************)
EXTENDS Integers, FiniteSets

CONSTANTS
  Calls,          \* the publish invocations
  Topics,         \* topic names
  Requests,       \* requests a call may carry: [topic, config, count] records;
                  \* config stands for message type, latch and queue size
  Pids,           \* process ids of ROS masters
  Interrupts,     \* why a call may be told to give up
  MaxPublishers,  \* maximum_publishers_
  None            \* no call, no entry

ASSUME CallsAssumption == IsFiniteSet(Calls) /\ None \notin Calls
ASSUME TopicsAssumption == IsFiniteSet(Topics)
ASSUME RequestsAssumption ==
  \A r \in Requests : r.topic \in Topics /\ r.count \in Nat \ {0}
ASSUME PidsAssumption == Pids \subseteq Nat \ {0}
ASSUME InterruptsAssumption == Interrupts \subseteq {"cancelled", "deadline"}
ASSUME MaxPublishersAssumption == MaxPublishers \in Nat \ {0}

VARIABLES
  \* the registry
  entries,            \* entries_: the cached entry of a topic, or None
  active_calls,       \* Entry::active_calls
  committed,          \* Entry::native_dispatch_committed
  publisher,          \* Entry::publisher: "none", or a "valid" or "invalid" handle
  master_generation,  \* master_generation_, 0 while unbound
  mutex,              \* the call that holds mutex_ while it advertises
  \* the calls
  pc,
  request,
  current,            \* the master process id the call has read
  selected,           \* selected_entry
  outcome,            \* "none", "ok", or the class of the error thrown
  \* the main thread's probe
  probe,              \* [pc, current]: the step it is at, and the process id it has read
  \* the environment
  master,             \* the process id of the running master, 0 for no answer
  ros_ok,
  interrupt,          \* per call: "none" or a member of Interrupts
  \* observations
  native,             \* messages handed to roscpp by a call
  late                \* ... of which after the call was interrupted

registryVars == <<entries, active_calls, committed, publisher,
                  master_generation, mutex>>
callVars == <<pc, request, current, selected, outcome>>
envVars == <<master, ros_ok, interrupt>>
obsVars == <<native, late>>
vars == <<registryVars, callVars, probe, envVars, obsVars>>

Outcomes == {"none", "ok", "permanent", "transient", "uncertain",
             "resource-exhausted", "cancelled", "deadline"}
Steps == {"idle", "start", "bind", "decode", "advertise", "check", "commit",
          "publish", "dispatch", "after", "done"}
NoEntries == [t \in Topics |-> None]

-----------------------------------------------------------------------------
(* Helpers.                                                                *)

\* A call that counts in active_calls of the entry it selected.
Leased(c) == pc[c] \in {"check", "commit"}

Goto(c, step) == pc' = [pc EXCEPT ![c] = step]

\* The call returns (class "ok") or throws an error of the given class.
Finish(c, class) ==
  /\ Goto(c, "done")
  /\ outcome' = [outcome EXCEPT ![c] = class]

\* The condition of requireDispatchAllowed and requireContinuationAllowed.
Allowed(c) == interrupt[c] = "none"

Size == Cardinality({t \in Topics : entries[t] # None})

-----------------------------------------------------------------------------
(* Initially nothing is cached and no master is bound.                     *)

Init ==
  /\ entries = NoEntries
  /\ active_calls = [c \in Calls |-> 0]
  /\ committed = [c \in Calls |-> FALSE]
  /\ publisher = [c \in Calls |-> "none"]
  /\ master_generation = 0
  /\ mutex = None
  /\ pc = [c \in Calls |-> "idle"]
  /\ request \in [Calls -> Requests]
  /\ current = [c \in Calls |-> 0]
  /\ selected = [c \in Calls |-> None]
  /\ outcome = [c \in Calls |-> "none"]
  /\ probe = [pc |-> "idle", current |-> 0]
  /\ master \in Pids \cup {0}
  /\ ros_ok = TRUE
  /\ interrupt = [c \in Calls |-> "none"]
  /\ native = [c \in Calls |-> 0]
  /\ late = [c \in Calls |-> 0]

-----------------------------------------------------------------------------
(* PublisherRegistry::publish, up to the native side-effect boundary.      *)

\* A dispatch worker enters publish().
Begin(c) ==
  /\ pc[c] = "idle"
  /\ Goto(c, "start")
  /\ UNCHANGED <<registryVars, request, current, selected, outcome, probe,
                 envVars, obsVars>>

\* requireDispatchAllowed, then the provider call of refreshMasterGeneration,
\* which runs outside mutex_ and throws when the master does not answer.
FetchGeneration(c) ==
  /\ pc[c] = "start"
  /\ \/ /\ ~Allowed(c)
        /\ Finish(c, interrupt[c])
        /\ UNCHANGED current
     \/ /\ Allowed(c)
        /\ master = 0
        /\ Finish(c, "transient")
        /\ UNCHANGED current
     \/ /\ Allowed(c)
        /\ master # 0
        /\ current' = [current EXCEPT ![c] = master]
        /\ Goto(c, "bind")
        /\ UNCHANGED outcome
  /\ UNCHANGED <<registryVars, request, selected, probe, envVars, obsVars>>

\* The critical section of refreshMasterGeneration: bind on first use; when
\* the master changed, drop the cache and refuse, leaving the binding alone.
BindGeneration(c) ==
  /\ pc[c] = "bind"
  /\ mutex = None
  /\ \/ /\ master_generation \in {0, current[c]}
        /\ master_generation' = current[c]
        /\ Goto(c, "decode")
        /\ UNCHANGED <<entries, outcome>>
     \/ /\ master_generation \notin {0, current[c]}
        /\ entries' = NoEntries
        /\ Finish(c, "transient")
        /\ UNCHANGED master_generation
  /\ UNCHANGED <<active_calls, committed, publisher, mutex, request, current,
                 selected, probe, envVars, obsVars>>

\* The message type is unknown, or the message does not decode or serialize.
DecodeFails(c) ==
  /\ pc[c] = "decode"
  /\ Finish(c, "permanent")
  /\ UNCHANGED <<registryVars, request, current, selected, probe, envVars,
                 obsVars>>

\* Mutant: the configuration of the cached entry is not compared.
LeaseCachedUnchecked(c) ==
  LET e == entries[request[c].topic] IN
  /\ pc[c] = "decode"
  /\ mutex = None
  /\ e # None
  /\ active_calls' = [active_calls EXCEPT ![e] = @ + 1]
  /\ selected' = [selected EXCEPT ![c] = e]
  /\ Goto(c, "check")
  /\ UNCHANGED <<entries, committed, publisher, master_generation, mutex,
                 request, current, outcome, probe, envVars, obsVars>>

\* A cache hit: share the entry, if it was advertised as this call wants it.
LeaseCached(c) ==
  LET e == entries[request[c].topic] IN
  /\ pc[c] = "decode"
  /\ mutex = None
  /\ e # None
  /\ \/ /\ request[e].config # request[c].config
        /\ Finish(c, "permanent")
        /\ UNCHANGED <<active_calls, selected>>
     \/ /\ request[e].config = request[c].config
        /\ active_calls' = [active_calls EXCEPT ![e] = @ + 1]
        /\ selected' = [selected EXCEPT ![c] = e]
        /\ Goto(c, "check")
        /\ UNCHANGED outcome
  /\ UNCHANGED <<entries, committed, publisher, master_generation, mutex,
                 request, current, probe, envVars, obsVars>>

\* Mutant: the size is compared one too late.
LeaseMissOffByOne(c) ==
  /\ pc[c] = "decode"
  /\ mutex = None
  /\ entries[request[c].topic] = None
  /\ \/ /\ Size > MaxPublishers
        /\ Finish(c, "resource-exhausted")
        /\ UNCHANGED mutex
     \/ /\ Size <= MaxPublishers
        /\ mutex' = c
        /\ Goto(c, "advertise")
        /\ UNCHANGED outcome
  /\ UNCHANGED <<entries, active_calls, committed, publisher,
                 master_generation, request, current, selected, probe,
                 envVars, obsVars>>

\* A cache miss: refuse when the cache is full, else start to advertise and
\* keep mutex_ meanwhile.
LeaseMiss(c) ==
  /\ pc[c] = "decode"
  /\ mutex = None
  /\ entries[request[c].topic] = None
  /\ \/ /\ Size >= MaxPublishers
        /\ Finish(c, "resource-exhausted")
        /\ UNCHANGED mutex
     \/ /\ Size < MaxPublishers
        /\ mutex' = c
        /\ Goto(c, "advertise")
        /\ UNCHANGED outcome
  /\ UNCHANGED <<entries, active_calls, committed, publisher,
                 master_generation, request, current, selected, probe,
                 envVars, obsVars>>

\* Mutant: mutex_ stays locked when advertise() throws.
AdvertiseKeepsMutex(c) ==
  /\ pc[c] = "advertise"
  /\ Finish(c, "permanent")
  /\ UNCHANGED <<registryVars, request, current, selected, probe, envVars,
                 obsVars>>

\* advertise() throws, or answers with a handle that may be invalid; the new
\* entry is cached with one active call and mutex_ is released.
Advertise(c) ==
  /\ pc[c] = "advertise"
  /\ mutex' = None
  /\ \/ /\ Finish(c, "permanent")
        /\ UNCHANGED <<entries, active_calls, publisher, selected>>
     \/ \E handle \in {"valid", "invalid"} :
          /\ publisher' = [publisher EXCEPT ![c] = handle]
          /\ active_calls' = [active_calls EXCEPT ![c] = 1]
          /\ selected' = [selected EXCEPT ![c] = c]
          /\ entries' = [entries EXCEPT ![request[c].topic] = c]
          /\ Goto(c, "check")
          /\ UNCHANGED outcome
  /\ UNCHANGED <<committed, master_generation, request, current, probe,
                 envVars, obsVars>>

\* Mutant: the topic is erased without asking whose entry it has.
ReleaseAnyEntry(c, native_dispatch_committed) ==
  LET e == selected[c]
      left == active_calls[e] - 1
      kept == committed[e] \/ native_dispatch_committed
  IN
  /\ mutex = None
  /\ active_calls' = [active_calls EXCEPT ![e] = left]
  /\ committed' = [committed EXCEPT ![e] = kept]
  /\ entries' = IF left = 0 /\ ~kept
                THEN [entries EXCEPT ![request[c].topic] = None]
                ELSE entries
  /\ UNCHANGED <<publisher, master_generation, mutex>>

\* PublisherRegistry::release, one critical section: give the lease back and
\* drop an entry nobody uses and nobody dispatched on, if it is still the
\* cached one.
Release(c, native_dispatch_committed) ==
  LET e == selected[c]
      t == request[c].topic
      left == IF active_calls[e] > 0 THEN active_calls[e] - 1 ELSE 0
      kept == committed[e] \/ native_dispatch_committed
  IN
  /\ mutex = None
  /\ active_calls' = [active_calls EXCEPT ![e] = left]
  /\ committed' = [committed EXCEPT ![e] = kept]
  /\ entries' = IF entries[t] = e /\ left = 0 /\ ~kept
                THEN [entries EXCEPT ![t] = None]
                ELSE entries
  /\ UNCHANGED <<publisher, master_generation, mutex>>

\* The checks between the lease and the boundary pass: the handle is valid,
\* the wait for subscribers (if any) ended with one, ROS is up, and the call
\* was not interrupted.
PassChecks(c) ==
  /\ pc[c] = "check"
  /\ publisher[selected[c]] = "valid"
  /\ ros_ok
  /\ Allowed(c)
  /\ Goto(c, "commit")
  /\ UNCHANGED <<registryVars, request, current, selected, outcome, probe,
                 envVars, obsVars>>

\* Mutant: the lease is released as if the call had dispatched.
FailChecksCommitted(c) ==
  /\ pc[c] = "check"
  /\ Release(c, TRUE)
  /\ Finish(c, "transient")
  /\ UNCHANGED <<request, current, selected, probe, envVars, obsVars>>

\* One of them fails, or something else throws: the lease is released before
\* the error leaves publish().  "transient" is an invalid handle, no
\* subscriber in time, a ROS shutdown, or an exception without a class.
FailChecks(c) ==
  /\ pc[c] = "check"
  /\ Release(c, FALSE)
  /\ \/ Finish(c, "transient")
     \/ /\ ~Allowed(c)
        /\ Finish(c, interrupt[c])
  /\ UNCHANGED <<request, current, selected, probe, envVars, obsVars>>

-----------------------------------------------------------------------------
(* The boundary, and the publish loop behind it.                           *)

\* Mutant: the lease is not given back at the boundary.
CommitKeepsLease(c) ==
  /\ pc[c] = "commit"
  /\ mutex = None
  /\ Goto(c, "publish")
  /\ UNCHANGED <<registryVars, request, current, selected, outcome, probe,
                 envVars, obsVars>>

\* release(topic, entry, true): from here on every failure is uncertain.
Commit(c) ==
  /\ pc[c] = "commit"
  /\ Release(c, TRUE)
  /\ Goto(c, "publish")
  /\ UNCHANGED <<request, current, selected, outcome, probe, envVars, obsVars>>

\* The head of the loop: wait for the next slot, then look at ROS and at the
\* interruption once more.
CheckContinuation(c) ==
  /\ pc[c] = "publish"
  /\ \/ /\ ros_ok /\ Allowed(c)
        /\ Goto(c, "dispatch")
        /\ UNCHANGED outcome
     \/ /\ ~(ros_ok /\ Allowed(c))
        /\ Finish(c, "uncertain")
  /\ UNCHANGED <<registryVars, request, current, selected, probe, envVars,
                 obsVars>>

\* One more message of c reaches roscpp.
Enqueue(c) ==
  /\ native' = [native EXCEPT ![c] = @ + 1]
  /\ late' = [late EXCEPT ![c] = IF Allowed(c) THEN @ ELSE @ + 1]

\* Mutant: an exception of publish() is taken for "nothing was sent".
DispatchTransient(c) ==
  /\ pc[c] = "dispatch"
  /\ \/ /\ Enqueue(c)
        /\ Goto(c, "after")
        /\ UNCHANGED outcome
     \/ /\ Enqueue(c) \/ UNCHANGED obsVars
        /\ Finish(c, "transient")
  /\ UNCHANGED <<registryVars, request, current, selected, probe, envVars>>

\* publisher.publish(): when it throws, the message may have been enqueued.
Dispatch(c) ==
  /\ pc[c] = "dispatch"
  /\ \/ /\ Enqueue(c)
        /\ Goto(c, "after")
        /\ UNCHANGED outcome
     \/ /\ Enqueue(c) \/ UNCHANGED obsVars
        /\ Finish(c, "uncertain")
  /\ UNCHANGED <<registryVars, request, current, selected, probe, envVars>>

\* Mutant: no look at the interruption after the publish.
AfterDispatchUnchecked(c) ==
  /\ pc[c] = "after"
  /\ \/ /\ native[c] < request[c].count
        /\ Goto(c, "publish")
        /\ UNCHANGED outcome
     \/ /\ native[c] >= request[c].count
        /\ Finish(c, "ok")
  /\ UNCHANGED <<registryVars, request, current, selected, probe, envVars,
                 obsVars>>

\* requireContinuationAllowed after the publish, and the loop condition.
AfterDispatch(c) ==
  /\ pc[c] = "after"
  /\ \/ /\ ~Allowed(c)
        /\ Finish(c, "uncertain")
     \/ /\ Allowed(c)
        /\ native[c] < request[c].count
        /\ Goto(c, "publish")
        /\ UNCHANGED outcome
     \/ /\ Allowed(c)
        /\ native[c] >= request[c].count
        /\ Finish(c, "ok")
  /\ UNCHANGED <<registryVars, request, current, selected, probe, envVars,
                 obsVars>>

\* An exception without a class behind the boundary is made uncertain.
CompletionFails(c) ==
  /\ pc[c] \in {"publish", "after"}
  /\ Finish(c, "uncertain")
  /\ UNCHANGED <<registryVars, request, current, selected, probe, envVars,
                 obsVars>>

-----------------------------------------------------------------------------
(* The main thread: probeMasterBinding and clear.                          *)

\* The provider call of probeMasterBinding, outside mutex_.
ProbeFetch ==
  /\ probe.pc = "idle"
  /\ probe' = [pc |-> "bind", current |-> master]
  /\ UNCHANGED <<registryVars, callVars, envVars, obsVars>>

\* The answer of probeMasterBinding.
ProbeResult ==
  CASE probe.current = 0 /\ master_generation = 0 -> "Unbound"
    [] probe.current = 0 /\ master_generation # 0 -> "Unavailable"
    [] probe.current # 0 /\ master_generation \in {0, probe.current} -> "Bound"
    [] probe.current # 0 /\ master_generation \notin {0, probe.current} -> "Changed"

\* Its critical section, which binds on first use and never rebinds.
ProbeBind ==
  /\ probe.pc = "bind"
  /\ mutex = None
  /\ master_generation' = IF ProbeResult = "Bound" THEN probe.current
                                                   ELSE master_generation
  /\ probe' = [pc |-> "idle", current |-> 0]
  /\ UNCHANGED <<entries, active_calls, committed, publisher, mutex, callVars,
                 envVars, obsVars>>

\* clear(): the cache is swapped out; running calls keep their entry.
Clear ==
  /\ mutex = None
  /\ entries' = NoEntries
  /\ UNCHANGED <<active_calls, committed, publisher, master_generation, mutex,
                 callVars, probe, envVars, obsVars>>

-----------------------------------------------------------------------------
(* The environment.                                                        *)

\* The master dies, comes back, or is replaced, possibly under the same pid.
MasterChanges ==
  /\ \E p \in (Pids \cup {0}) \ {master} : master' = p
  /\ UNCHANGED <<registryVars, callVars, probe, ros_ok, interrupt, obsVars>>

\* ros::ok() turns false, for good.
RosShutdown ==
  /\ ros_ok
  /\ ros_ok' = FALSE
  /\ UNCHANGED <<registryVars, callVars, probe, master, interrupt, obsVars>>

\* The Runtime cancels a call, or its deadline passes.
Interrupt(c) ==
  /\ pc[c] \notin {"idle", "done"}
  /\ interrupt[c] = "none"
  /\ \E i \in Interrupts : interrupt' = [interrupt EXCEPT ![c] = i]
  /\ UNCHANGED <<registryVars, callVars, probe, master, ros_ok, obsVars>>

-----------------------------------------------------------------------------
CallStep(c) ==
  \/ FetchGeneration(c) \/ BindGeneration(c) \/ DecodeFails(c)
  \/ LeaseCached(c) \/ LeaseMiss(c) \/ Advertise(c)
  \/ PassChecks(c) \/ FailChecks(c) \/ Commit(c)
  \/ CheckContinuation(c) \/ Dispatch(c) \/ AfterDispatch(c)
  \/ CompletionFails(c)

Next ==
  \/ \E c \in Calls : Begin(c) \/ CallStep(c) \/ Interrupt(c)
  \/ ProbeFetch \/ ProbeBind \/ Clear
  \/ MasterChanges \/ RosShutdown

Spec == Init /\ [][Next]_vars
-----------------------------------------------------------------------------
(* Properties.                                                             *)

TypeOK ==
  /\ entries \in [Topics -> Calls \cup {None}]
  /\ active_calls \in [Calls -> Nat]
  /\ committed \in [Calls -> BOOLEAN]
  /\ publisher \in [Calls -> {"none", "valid", "invalid"}]
  /\ master_generation \in Pids \cup {0}
  /\ mutex \in Calls \cup {None}
  /\ pc \in [Calls -> Steps]
  /\ request \in [Calls -> Requests]
  /\ current \in [Calls -> Pids \cup {0}]
  /\ selected \in [Calls -> Calls \cup {None}]
  /\ outcome \in [Calls -> Outcomes]
  /\ probe \in [pc : {"idle", "bind"}, current : Pids \cup {0}]
  /\ master \in Pids \cup {0}
  /\ ros_ok \in BOOLEAN
  /\ interrupt \in [Calls -> Interrupts \cup {"none"}]
  /\ native \in [Calls -> Nat]
  /\ late \in [Calls -> Nat]

\* The calls that hold a lease on entry e.
Holders(e) == {c \in Calls : Leased(c) /\ selected[c] = e}

\* active_calls of every entry is the number of calls between their lease and
\* their release, whether the entry is still cached, was dropped by clear() or
\* by a new master generation, or was replaced by a newer entry of its topic.
LeaseAccounting ==
  \A e \in Calls : active_calls[e] = Cardinality(Holders(e))

\* No slot of the cache is taken by a leftover: a cached entry is in use by a
\* call before its boundary, or some call crossed the boundary with it, and
\* then its handle is valid.  (A failed advertise, an interrupted wait or a
\* missing subscriber never costs a slot for good: publisher_registry.cpp
\* 183-186.)
NoLeftoverEntry ==
  \A t \in Topics :
    entries[t] # None =>
      /\ active_calls[entries[t]] > 0 \/ committed[entries[t]]
      /\ committed[entries[t]] => publisher[entries[t]] = "valid"

\* The cache never exceeds maximum_publishers_, although the size is checked
\* before the advertise and the entry inserted after it.
CapacityRespected == Size <= MaxPublishers

\* Both: the cache is within its limit, and no slot of it is wasted.
CacheSound == NoLeftoverEntry /\ CapacityRespected

\* Calls that share an entry asked for the topic and the configuration it was
\* advertised with, and every cached entry was made for its topic under the
\* master generation the process is bound to.
EntriesAgree ==
  /\ \A c \in Calls : selected[c] # None =>
       /\ request[c].topic = request[selected[c]].topic
       /\ request[c].config = request[selected[c]].config
  /\ \A t \in Topics : entries[t] # None =>
       /\ request[entries[t]].topic = t
       /\ current[entries[t]] = master_generation

\* The class of the result is honest about the native effect: a failure that
\* is not uncertain means that no message reached roscpp, and success that
\* exactly publish_count did.
OutcomeHonest ==
  \A c \in Calls :
    /\ outcome[c] \notin {"none", "ok", "uncertain"} => native[c] = 0
    /\ outcome[c] = "ok" => native[c] = request[c].count

\* A cancellation or a deadline stops a call within one message, and a call
\* that sent a message after it is never reported as a success.
InterruptStops ==
  \A c \in Calls : late[c] <= 1 /\ (outcome[c] = "ok" => late[c] = 0)

\* The entry of t is dropped with the whole cache, or alone when nobody holds
\* it and nobody dispatched on it.
Evicted(t) ==
  \/ entries' = NoEntries /\ active_calls' = active_calls
  \/ /\ entries'[t] = None
     /\ \A c \in Calls : ~(Leased(c)' /\ selected'[c] = entries[t])
     /\ ~committed'[entries[t]]

SafeEviction ==
  \A t \in Topics : entries[t] # None /\ entries'[t] # entries[t] => Evicted(t)

\* The cached entry of a topic goes away only as part of dropping the whole
\* cache, or when nobody holds it and nobody dispatched on it; in particular
\* the release of a call never evicts a newer entry of its topic, and an entry
\* is never replaced in place.
EvictionIsSafe == [][SafeEviction]_vars

\* The publish operation implements the promise of NativeOperation.
Abstract == INSTANCE NativeOperation WITH
  Failures <- Outcomes \ {"none", "ok", "uncertain"},
  result <- outcome,
  effects <- native,
  quota <- [c \in Calls |-> request[c].count]

HonestOperation == Abstract!Spec

-----------------------------------------------------------------------------
(* Liveness.  A running thread keeps running, and so does roscpp's         *)
(* advertise() while there is a master that answers; nothing is assumed of *)
(* an advertise() without a master, of the master, or of the Runtime.      *)

Fairness ==
  /\ \A c \in Calls : WF_vars(CallStep(c) /\ pc[c] # "advertise")
  /\ \A c \in Calls : WF_vars(Advertise(c) /\ master # 0)

FairSpec == Spec /\ Fairness

\* Every call that entered publish() ends, and gives its lease back, unless
\* the master stays away: then one advertise() may hold mutex_ for ever.
CallsEnd ==
  <>[](master # 0) => \A c \in Calls : pc[c] # "idle" ~> pc[c] = "done"
=============================================================================
