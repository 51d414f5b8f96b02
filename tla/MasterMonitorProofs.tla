------------------------- MODULE MasterMonitorProofs -------------------------
(***************************************************************************)
(* Proofs about MasterMonitor: the monitor, the workers and the            *)
(* environment together behave as PublisherRegistry says, so that every    *)
(* theorem about the registry holds in the process main() runs; and the    *)
(* monitor is patient.                                                     *)
(***************************************************************************)
EXTENDS MasterMonitor, TLAPS

\* The theorems about the registry, for the registry of this process.
Proved == INSTANCE PublisherRegistryProofs

\* The assumptions those theorems make hold here.
LEMMA Assumptions ==
  /\ Proved!CallsAssumption /\ Proved!TopicsAssumption
  /\ Proved!RequestsAssumption /\ Proved!PidsAssumption
  /\ Proved!InterruptsAssumption /\ Proved!MaxPublishersAssumption
<1>1. Proved!CallsAssumption
  BY RegistryAssumption, Zenon DEF Proved!CallsAssumption, IsFiniteSet, Proved!IsFiniteSet
<1>2. Proved!TopicsAssumption
  BY RegistryAssumption, Zenon DEF Proved!TopicsAssumption, IsFiniteSet, Proved!IsFiniteSet
<1>3. Proved!RequestsAssumption
  BY RegistryAssumption, Zenon DEF Proved!RequestsAssumption
<1>4. Proved!PidsAssumption /\ Proved!InterruptsAssumption
  BY RegistryAssumption, Zenon DEF Proved!PidsAssumption, Proved!InterruptsAssumption
<1>5. Proved!MaxPublishersAssumption
  BY RegistryAssumption, Zenon DEF Proved!MaxPublishersAssumption
<1> QED
  BY <1>1, <1>2, <1>3, <1>4, <1>5, Zenon

-----------------------------------------------------------------------------
(* The process runs the registry.                                          *)

\* Registry and Proved are two names of one module: a step of one is a step of
\* the other.
LEMMA SameCallStep ==
  ASSUME NEW c \in Calls
  PROVE  Registry!CallStep(c) <=> Proved!CallStep(c)
<1> USE DEF Registry!Goto, Registry!Finish, Registry!Allowed, Registry!Release,
       Registry!Enqueue, Registry!NoEntries, Registry!registryVars,
       Registry!callVars, Registry!envVars, Registry!obsVars, Proved!Goto,
       Proved!Finish, Proved!Allowed, Proved!Release, Proved!Enqueue,
       Proved!NoEntries, Proved!registryVars, Proved!callVars,
       Proved!envVars, Proved!obsVars
<1>0. Registry!Size = Proved!Size
  BY Zenon DEF Registry!Size, Proved!Size, Registry!Cardinality, Proved!Cardinality
<1>1. Registry!FetchGeneration(c) <=> Proved!FetchGeneration(c)
  BY Zenon DEF Registry!FetchGeneration, Proved!FetchGeneration
<1>2. Registry!BindGeneration(c) <=> Proved!BindGeneration(c)
  BY Zenon DEF Registry!BindGeneration, Proved!BindGeneration
<1>3. Registry!DecodeFails(c) <=> Proved!DecodeFails(c)
  BY Zenon DEF Registry!DecodeFails, Proved!DecodeFails
<1>4. Registry!LeaseCached(c) <=> Proved!LeaseCached(c)
  BY Zenon DEF Registry!LeaseCached, Proved!LeaseCached
<1>5. Registry!LeaseMiss(c) <=> Proved!LeaseMiss(c)
  BY <1>0, Zenon DEF Registry!LeaseMiss, Proved!LeaseMiss
<1>6. Registry!Advertise(c) <=> Proved!Advertise(c)
  BY Zenon DEF Registry!Advertise, Proved!Advertise
<1>7. Registry!PassChecks(c) <=> Proved!PassChecks(c)
  BY Zenon DEF Registry!PassChecks, Proved!PassChecks
<1>8. Registry!FailChecks(c) <=> Proved!FailChecks(c)
  BY Zenon DEF Registry!FailChecks, Proved!FailChecks
<1>9. Registry!Commit(c) <=> Proved!Commit(c)
  BY Zenon DEF Registry!Commit, Proved!Commit
<1>10. Registry!CheckContinuation(c) <=> Proved!CheckContinuation(c)
  BY Zenon DEF Registry!CheckContinuation, Proved!CheckContinuation
<1>11. Registry!Dispatch(c) <=> Proved!Dispatch(c)
  BY Zenon DEF Registry!Dispatch, Proved!Dispatch
<1>12. Registry!AfterDispatch(c) <=> Proved!AfterDispatch(c)
  BY Zenon DEF Registry!AfterDispatch, Proved!AfterDispatch
<1>13. Registry!CompletionFails(c) <=> Proved!CompletionFails(c)
  BY Zenon DEF Registry!CompletionFails, Proved!CompletionFails
<1> QED
  BY <1>1, <1>2, <1>3, <1>4, <1>5, <1>6, <1>7, <1>8, <1>9, <1>10, <1>11, <1>12,
     <1>13, Zenon DEF Registry!CallStep, Proved!CallStep

\* The registry of the composition is the one the proofs are about.
LEMMA SameRegistry == Registry!Spec <=> Proved!Spec
<1>1. Registry!Init <=> Proved!Init
  BY Zenon DEF Registry!Init, Proved!Init, Registry!NoEntries, Proved!NoEntries
<1> USE DEF Registry!registryVars, Registry!callVars, Registry!envVars,
       Registry!obsVars, Proved!registryVars, Proved!callVars, Proved!envVars,
       Proved!obsVars, Registry!NoEntries, Proved!NoEntries, Registry!Goto,
       Proved!Goto
<1>2. \A c \in Calls : Registry!Begin(c) <=> Proved!Begin(c)
  BY Zenon DEF Registry!Begin, Proved!Begin
<1>3. \A c \in Calls : Registry!Interrupt(c) <=> Proved!Interrupt(c)
  BY Zenon DEF Registry!Interrupt, Proved!Interrupt
<1>4. Registry!ProbeFetch <=> Proved!ProbeFetch
  BY Zenon DEF Registry!ProbeFetch, Proved!ProbeFetch
<1>5. Registry!ProbeBind <=> Proved!ProbeBind
  BY Zenon DEF Registry!ProbeBind, Proved!ProbeBind, Registry!ProbeResult,
         Proved!ProbeResult
<1>6. /\ Registry!Clear <=> Proved!Clear
      /\ Registry!MasterChanges <=> Proved!MasterChanges
      /\ Registry!RosShutdown <=> Proved!RosShutdown
  BY Zenon DEF Registry!Clear, Proved!Clear, Registry!MasterChanges,
         Proved!MasterChanges, Registry!RosShutdown, Proved!RosShutdown
<1>7. Registry!Next <=> Proved!Next
  BY <1>2, <1>3, <1>4, <1>5, <1>6, SameCallStep, Zenon DEF Registry!Next, Proved!Next
<1>8. [Registry!Next]_(Registry!vars) <=> [Proved!Next]_(Proved!vars)
  BY <1>7, Zenon DEF Registry!vars, Proved!vars
<1> QED
  BY <1>1, <1>8, PTL DEF Registry!Spec, Proved!Spec

\* Whatever the monitor, the workers, the Runtime and the master do, in any
\* order, is a behaviour of the registry: main() calls it only through the
\* operations the registry offers.
THEOREM RunsRegistry == Spec => Registry!Spec
<1>1. Init => Registry!Init
  BY Zenon DEF Init
<1>2. [Next]_vars => [Registry!Next]_(Registry!vars)
  <2> SUFFICES ASSUME [Next]_vars PROVE [Registry!Next]_(Registry!vars)
    BY Zenon
  <2> USE DEF Registry!Next
  <2>1. CASE Poll
    BY <2>1, Zenon DEF Poll
  <2>2. CASE Judge
    BY <2>2, Zenon DEF Judge
  <2>3. CASE Workers
    BY <2>3, Zenon DEF Workers
  <2>4. CASE Environment
    BY <2>4, Zenon DEF Environment
  <2>5. CASE LeaveLoop \/ Exit \/ RequestStop \/ UNCHANGED vars
    BY <2>5, Zenon DEF LeaveLoop, Exit, RequestStop, vars, registry, Registry!vars,
         Registry!registryVars, Registry!callVars, Registry!envVars,
         Registry!obsVars
  <2> QED
    BY <2>1, <2>2, <2>3, <2>4, <2>5, Zenon DEF Next
<1> QED
  BY <1>1, <1>2, PTL DEF Spec, Registry!Spec

\* What the registry promises holds in this process: its cache is within the
\* limit and has no leftover entry, leases are counted, the calls that share an
\* entry agree with it, and every outcome is honest and stops when interrupted.
THEOREM RegistryKeepsItsPromises ==
  Spec => [](/\ Registry!TypeOK /\ Registry!CacheSound /\ Registry!LeaseAccounting
             /\ Registry!EntriesAgree
             /\ Registry!OutcomeHonest /\ Registry!InterruptStops)
<1>1. Proved!Spec => [](/\ Proved!TypeOK /\ Proved!CacheSound
                        /\ Proved!LeaseAccounting /\ Proved!EntriesAgree
                        /\ Proved!OutcomeHonest /\ Proved!InterruptStops)
  <2>1. Proved!Spec => []Proved!TypeOK
    BY Proved!TypeCorrect, Assumptions, Zenon
  <2>2. Proved!Spec => []Proved!CacheSound
    BY Proved!CacheIsSound, Assumptions, Zenon
  <2>3. Proved!Spec => [](Proved!LeaseAccounting /\ Proved!NoLeftoverEntry)
    BY Proved!Leases, Assumptions, Zenon
  <2>4. Proved!Spec => []Proved!EntriesAgree
    BY Proved!Agreement, Assumptions, Zenon
  <2>5. Proved!Spec => [](Proved!OutcomeHonest /\ Proved!InterruptStops)
    BY Proved!HonestOutcomes, Assumptions, Zenon
  <2> QED
    BY <2>1, <2>2, <2>3, <2>4, <2>5, PTL
<1>2. Proved!TypeOK <=> Registry!TypeOK
  BY Zenon DEF Proved!TypeOK, Registry!TypeOK, Proved!Steps, Registry!Steps,
         Proved!Outcomes, Registry!Outcomes
<1>3. Proved!CacheSound <=> Registry!CacheSound
  BY Zenon DEF Proved!CacheSound, Registry!CacheSound, Proved!NoLeftoverEntry,
         Registry!NoLeftoverEntry, Proved!CapacityRespected,
         Registry!CapacityRespected, Proved!Size, Registry!Size,
         Proved!Cardinality, Registry!Cardinality
<1>4. Proved!LeaseAccounting <=> Registry!LeaseAccounting
  BY Zenon DEF Proved!LeaseAccounting, Registry!LeaseAccounting, Proved!Holders,
         Registry!Holders, Proved!Leased, Registry!Leased,
         Proved!Cardinality, Registry!Cardinality
<1>5. /\ Proved!EntriesAgree <=> Registry!EntriesAgree
      /\ Proved!OutcomeHonest <=> Registry!OutcomeHonest
      /\ Proved!InterruptStops <=> Registry!InterruptStops
  BY Zenon DEF Proved!EntriesAgree, Registry!EntriesAgree, Proved!OutcomeHonest,
         Registry!OutcomeHonest, Proved!InterruptStops, Registry!InterruptStops
<1> QED
  BY <1>1, <1>2, <1>3, <1>4, <1>5, RunsRegistry, SameRegistry, PTL

-----------------------------------------------------------------------------
(* The monitor is patient.                                                 *)

\* unavailable_polls counts no more than the polls without an answer, the one
\* under way included; the count of those saturates at kUnavailableExitPolls.
\* A monitor that has given up asks no more.
MonitorInv ==
  /\ unavailable_polls \in Nat /\ unanswered \in Nat
  /\ verdict = "none" /\ probe.pc = "idle" =>
       unavailable_polls <= unanswered \/ unanswered >= UnavailableExitPolls
  /\ probe.pc = "bind" /\ probe.current = 0 =>
       unavailable_polls < unanswered \/ unanswered >= UnavailableExitPolls
  /\ verdict # "none" => stop_requested /\ probe.pc = "idle"
  /\ PatientMonitor

\* The workers and the environment leave the probe alone, and a bound registry
\* stays bound.
LEMMA RegistryFrame ==
  ASSUME Registry!TypeOK, Proved!GenerationInv,
         \/ \E c \in Calls : Registry!Begin(c) \/ Registry!CallStep(c) \/ Registry!Interrupt(c)
         \/ Registry!Clear \/ Registry!MasterChanges \/ Registry!RosShutdown
  PROVE  probe' = probe /\ (master_generation # 0 => master_generation' # 0)
<1> USE DEF Registry!registryVars, Registry!callVars, Registry!envVars,
            Registry!obsVars, Registry!Release
<1>1. CASE Registry!Clear \/ Registry!MasterChanges \/ Registry!RosShutdown
  BY <1>1, Zenon DEF Registry!Clear, Registry!MasterChanges, Registry!RosShutdown
<1>2. ASSUME NEW c \in Calls, Registry!Begin(c) \/ Registry!Interrupt(c)
      PROVE  UNCHANGED <<probe, master_generation>>
  BY <1>2, Zenon DEF Registry!Begin, Registry!Interrupt
<1>3. ASSUME NEW c \in Calls, Registry!CallStep(c), ~Registry!BindGeneration(c)
      PROVE  UNCHANGED <<probe, master_generation>>
  <2>1. CASE \/ Registry!FetchGeneration(c) \/ Registry!DecodeFails(c)
             \/ Registry!LeaseCached(c) \/ Registry!LeaseMiss(c)
             \/ Registry!Advertise(c)
    BY <2>1, Zenon DEF Registry!FetchGeneration, Registry!DecodeFails,
       Registry!LeaseCached, Registry!LeaseMiss, Registry!Advertise
  <2>2. CASE \/ Registry!PassChecks(c) \/ Registry!FailChecks(c)
             \/ Registry!Commit(c) \/ Registry!CheckContinuation(c)
    BY <2>2, Zenon DEF Registry!PassChecks, Registry!FailChecks, Registry!Commit,
       Registry!CheckContinuation
  <2>3. CASE \/ Registry!Dispatch(c) \/ Registry!AfterDispatch(c)
             \/ Registry!CompletionFails(c)
    BY <2>3, Zenon DEF Registry!Dispatch, Registry!AfterDispatch,
       Registry!CompletionFails
  <2> QED
    BY <1>3, <2>1, <2>2, <2>3, Zenon DEF Registry!CallStep
<1>4. ASSUME NEW c \in Calls, Registry!BindGeneration(c)
      PROVE  probe' = probe /\ (master_generation # 0 => master_generation' # 0)
  BY <1>4, Zenon DEF Registry!BindGeneration, Proved!GenerationInv
<1> QED
  BY <1>1, <1>2, <1>3, <1>4, Zenon

\* MonitorInv is invariant.
THEOREM MonitorStructure == Spec => []MonitorInv
<1>1. Init => MonitorInv
  BY UnavailableExitPollsAssumption
     DEF Init, Registry!Init, MonitorInv, PatientMonitor
<1>2. Registry!TypeOK /\ Proved!GenerationInv /\ MonitorInv /\ [Next]_vars => MonitorInv'
  <2> SUFFICES ASSUME Registry!TypeOK, Proved!GenerationInv, MonitorInv, [Next]_vars
               PROVE  MonitorInv'
    BY Zenon
  <2>0. /\ UnavailableExitPolls \in Nat \ {0}
        /\ master_generation \in Nat /\ master \in Nat
        /\ probe = [pc |-> probe.pc, current |-> probe.current]
        /\ probe.current \in Nat /\ probe.pc \in {"idle", "bind"}
    <3>1. /\ master_generation \in Pids \cup {0} /\ master \in Pids \cup {0}
          /\ probe \in [pc : {"idle", "bind"}, current : Pids \cup {0}]
      BY Zenon DEF Registry!TypeOK
    <3>2. \A p \in Pids \cup {0} : p \in Nat
      BY RegistryAssumption
    <3>3. /\ probe = [pc |-> probe.pc, current |-> probe.current]
          /\ probe.pc \in {"idle", "bind"} /\ probe.current \in Pids \cup {0}
      BY <3>1, Zenon
    <3>4. master_generation \in Nat /\ master \in Nat /\ probe.current \in Nat
      BY <3>1, <3>2, <3>3, Zenon
    <3> QED
      BY <3>3, <3>4, UnavailableExitPollsAssumption, Zenon
  <2> USE DEF MonitorInv, PatientMonitor
  <2>1. CASE Poll
    <3>1. /\ probe.pc = "idle" /\ ~stop_requested
          /\ probe' = [pc |-> "bind", current |-> master]
          /\ unanswered' = IF master # 0 THEN 0
                           ELSE IF unanswered < UnavailableExitPolls THEN unanswered + 1
                           ELSE unanswered
          /\ UNCHANGED <<master_generation, unavailable_polls, stop_requested, verdict>>
      BY <2>1, Zenon DEF Poll, Registry!ProbeFetch, Registry!registryVars
    <3>2. verdict = "none" /\ probe'.pc = "bind" /\ probe'.current = master
      BY <3>1, Zenon
    <3>3. unanswered' \in Nat
      BY <2>0, <3>1
    <3>4. master = 0 =>
            unavailable_polls < unanswered' \/ unanswered' >= UnavailableExitPolls
      BY <2>0, <3>1, <3>2
    <3> QED
      BY <3>1, <3>2, <3>3, <3>4, Zenon
  <2>2. CASE Judge
    <3>1. /\ probe.pc = "bind" /\ verdict = "none"
          /\ probe' = [pc |-> "idle", current |-> 0]
          /\ unanswered' = unanswered
      BY <2>2, Zenon DEF Judge, Registry!ProbeBind
    <3>2. CASE Registry!ProbeResult = "Changed"
      <4>1. /\ master_generation # 0 /\ master_generation' = master_generation
            /\ verdict' = "changed" /\ stop_requested'
            /\ unavailable_polls' = unavailable_polls
        BY <2>0, <2>2, <3>2, Zenon DEF Judge, Registry!ProbeBind, Registry!ProbeResult
      <4> QED
        BY <2>0, <3>1, <4>1
    <3>3. CASE Registry!ProbeResult = "Unavailable"
      <4>1. /\ probe.current = 0
            /\ master_generation # 0 /\ master_generation' = master_generation
            /\ unavailable_polls' = unavailable_polls + 1
        BY <2>0, <2>2, <3>3, Zenon DEF Judge, Registry!ProbeBind, Registry!ProbeResult
      <4>2. \/ /\ unavailable_polls + 1 >= UnavailableExitPolls
               /\ verdict' = "gone" /\ stop_requested'
            \/ /\ ~(unavailable_polls + 1 >= UnavailableExitPolls)
               /\ verdict' = "none"
        BY <2>0, <2>2, <3>3, Zenon DEF Judge
      <4> QED
        BY <2>0, <3>1, <4>1, <4>2
    <3>4. CASE Registry!ProbeResult \in {"Unbound", "Bound"}
      BY <2>0, <2>2, <3>1, <3>4 DEF Judge
    <3> QED
      BY <2>0, <3>2, <3>3, <3>4, Zenon DEF Registry!ProbeResult
  <2>3. CASE LeaveLoop \/ Exit \/ RequestStop
    BY <2>3, Zenon DEF LeaveLoop, Exit, RequestStop, registry
  <2>4. CASE Workers \/ Environment
    <3>1. probe' = probe /\ (master_generation # 0 => master_generation' # 0)
      BY <2>4, RegistryFrame, Zenon DEF Workers, Environment
    <3> QED
      BY <2>4, <3>1, Zenon DEF Workers, Environment, monitor
  <2>5. CASE UNCHANGED vars
    BY <2>5, Zenon DEF vars, registry, monitor
  <2> QED
    BY <2>1, <2>2, <2>3, <2>4, <2>5, Zenon DEF Next
<1>3. Proved!Spec => []Proved!GenerationInv
  BY Proved!GenerationBound, Assumptions, Zenon
<1> QED
  BY <1>1, <1>2, <1>3, RunsRegistry, SameRegistry, RegistryKeepsItsPromises, PTL
     DEF Spec

\* main() gives up on a silent master only after kUnavailableExitPolls polls in
\* a row without an answer, and only when the registry is bound to a master.
THEOREM MonitorIsPatient == Spec => []PatientMonitor
<1>1. MonitorInv => PatientMonitor
  BY Zenon DEF MonitorInv
<1> QED
  BY <1>1, MonitorStructure, PTL
=============================================================================
