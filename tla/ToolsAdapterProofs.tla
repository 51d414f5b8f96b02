------------------------- MODULE ToolsAdapterProofs --------------------------
(***************************************************************************)
(* Proofs about ToolsAdapter: the process serves one native context, a     *)
(* stopped capability leaves nothing behind but what overtook the stop, the*)
(* publishes of the adapter are those of PublisherRegistry, and what the   *)
(* Runtime is told about an operation keeps the promise of NativeOperation.*)
(***************************************************************************)
EXTENDS ToolsAdapter, FiniteSetTheorems, TLAPS

-----------------------------------------------------------------------------
(* One native context per process.                                         *)

\* What FromInstanceSpec guarantees of a context, and the host it is known by.
Sane(context) ==
  /\ context.ros_master_uri \notin {Empty, NoText}
  /\ context.ros_ip # NoText /\ context.ros_hostname # NoText
  /\ context.ros_ip = Empty \/ context.ros_hostname = Empty

HostOf(context) ==
  IF context.ros_hostname # Empty THEN context.ros_hostname
  ELSE IF context.ros_ip # Empty THEN context.ros_ip
  ELSE NoText

IdentityOf(context) == [master |-> context.ros_master_uri, host |-> HostOf(context)]

\* From ApplyEnvironment on, roscpp takes the identity of the native context,
\* and no call was admitted for another one.
ContextInv ==
  /\ main = "bootstrap" => environment \in Environments
  /\ main = "init" =>
       Sane(native_context) /\ rosIdentity(environment) = IdentityOf(native_context)
  /\ main \in {"bind", "start", "running"} =>
       Sane(native_context) /\ identity = IdentityOf(native_context)
  /\ ServesItsContext

\* An empty text is a text.
LEMMA EmptyIsText == Empty # NoText
BY Zenon DEF Empty, NoText

\* A well-formed instance spec has a sane context.
LEMMA ValidIsSane ==
  ASSUME NEW spec, validInstanceSpec(spec)
  PROVE  Sane(nativeContext(spec))
<1>1. /\ DOMAIN spec.value = {"rosMasterUri", "rosIp", "rosHostname"}
      /\ \A name \in DOMAIN spec.value : spec.value[name] # NoText
      /\ nativeContext(spec).ros_master_uri \in MasterUris
      /\ nativeContext(spec).ros_ip = Empty \/ nativeContext(spec).ros_hostname = Empty
  BY Zenon DEF validInstanceSpec
<1>2. /\ spec.value["rosMasterUri"] # NoText /\ spec.value["rosIp"] # NoText
      /\ spec.value["rosHostname"] # NoText
  BY <1>1, Zenon
<1> QED
  BY <1>1, <1>2, ContextAssumption, Zenon DEF nativeContext, Sane

\* ApplyEnvironment makes the environment say what the context says, whatever
\* the process inherited.
LEMMA EnvironmentApplied ==
  ASSUME NEW env \in Environments, NEW context, Sane(context)
  PROVE  rosIdentity(ApplyEnvironment(env, context)) = IdentityOf(context)
<1>1. env = [name \in {"ROS_MASTER_URI", "ROS_IP", "ROS_HOSTNAME"} |-> env[name]]
  BY ContextAssumption, Zenon
<1> DEFINE final == ApplyEnvironment(env, context)
           text(value) == IF value = Empty THEN NoText ELSE value
<1>2. /\ final["ROS_MASTER_URI"] = text(context.ros_master_uri)
      /\ final["ROS_IP"] = text(context.ros_ip)
      /\ final["ROS_HOSTNAME"] = text(context.ros_hostname)
  BY <1>1, Zenon DEF ApplyEnvironment, setEnvironment
<1> HIDE DEF final
<1>3. rosIdentity(final) = IdentityOf(context)
  BY <1>2, EmptyIsText, Zenon DEF rosIdentity, IdentityOf, HostOf, Sane
<1> QED
  BY <1>3, Zenon DEF final

\* Two different things make a set of two.
LEMMA SizeOfTwo ==
  ASSUME NEW a, NEW b, a # b
  PROVE  IsFiniteSet({a, b}) /\ Cardinality({a, b}) = 2
<1>1. IsFiniteSet({a}) /\ Cardinality({a}) = 1
  BY FS_Singleton, Zenon
<1>2. {a, b} = {a} \cup {b}
  BY Zenon
<1> QED
  BY <1>1, <1>2, FS_AddElement

\* Three different things make a set of three.
LEMMA SizeOfThree ==
  ASSUME NEW a, NEW b, NEW c, a # b, a # c, b # c
  PROVE  IsFiniteSet({a, b, c}) /\ Cardinality({a, b, c}) = 3
<1>1. {a, b, c} = {a, b} \cup {c}
  BY Zenon
<1> QED
  <2>1. IsFiniteSet({a, b}) /\ Cardinality({a, b}) = 2 /\ c \notin {a, b}
    BY SizeOfTwo, Zenon
  <2>2. IsFiniteSet({a, b} \cup {c}) /\ Cardinality({a, b} \cup {c}) = 2 + 1
    BY <2>1, FS_AddElement, Zenon
  <2> QED
    BY <1>1, <2>2

\* A subject that identifies a sane context names its host, and no other.
LEMMA SubjectNamesHost ==
  ASSUME NEW attributes, IsFiniteSet(DOMAIN attributes),
         NEW context, Sane(context), identifies(attributes, context)
  PROVE  /\ attributes["master-uri"] = context.ros_master_uri
         /\ namedHost(attributes) = HostOf(context)
<1> DEFINE names == DOMAIN attributes
<1>1. /\ "master-uri" \in names
      /\ attributes["master-uri"] = context.ros_master_uri
      /\ "ip" \in names => attributes["ip"] = context.ros_ip
      /\ "ip" \notin names => context.ros_ip = Empty
      /\ "hostname" \in names => attributes["hostname"] = context.ros_hostname
      /\ "hostname" \notin names => context.ros_hostname = Empty
      /\ Cardinality(names) =
           1 + (IF context.ros_ip = Empty THEN 0 ELSE 1)
             + (IF context.ros_hostname = Empty THEN 0 ELSE 1)
  BY Zenon DEF identifies, attribute
<1> HIDE DEF names
<1>2. ASSUME NEW S, S \subseteq names, IsFiniteSet(S)
      PROVE  Cardinality(S) <= Cardinality(names)
  BY <1>2, FS_Subset, Zenon DEF names
<1>3. ASSUME context.ros_ip = Empty, "ip" \in names PROVE FALSE
  <2>1. IsFiniteSet({"master-uri", "ip"}) /\ Cardinality({"master-uri", "ip"}) = 2
    BY SizeOfTwo, Zenon
  <2>2. CASE context.ros_hostname = Empty
    BY <1>1, <1>2, <1>3, <2>1, <2>2
  <2>3. CASE context.ros_hostname # Empty
    <3>1. /\ IsFiniteSet({"master-uri", "ip", "hostname"})
          /\ Cardinality({"master-uri", "ip", "hostname"}) = 3
      BY SizeOfThree, Zenon
    <3> QED
      BY <1>1, <1>2, <1>3, <2>3, <3>1
  <2> QED
    BY <2>2, <2>3, Zenon
<1>4. ASSUME context.ros_hostname = Empty, "hostname" \in names PROVE FALSE
  <2>1. IsFiniteSet({"master-uri", "hostname"}) /\ Cardinality({"master-uri", "hostname"}) = 2
    BY SizeOfTwo, Zenon
  <2>2. CASE context.ros_ip = Empty
    BY <1>1, <1>2, <1>4, <2>1, <2>2
  <2>3. CASE context.ros_ip # Empty
    <3>1. /\ IsFiniteSet({"master-uri", "hostname", "ip"})
          /\ Cardinality({"master-uri", "hostname", "ip"}) = 3
      BY SizeOfThree, Zenon
    <3> QED
      BY <1>1, <1>2, <1>4, <2>3, <3>1
  <2> QED
    BY <2>2, <2>3, Zenon
<1> QED
  BY <1>1, <1>3, <1>4, Zenon DEF namedHost, HostOf, Sane, names

\* A call that passes its checks is for the identity roscpp has.
LEMMA PassIsHome ==
  ASSUME NEW c \in Calls, ContextInv, main = "running", Pass(c)
  PROVE  foreign' = {}
<1>1. PICK context \in WorkContexts, input \in Inputs :
        /\ checked(c, context, input) = "none"
        /\ foreign' = IF /\ identity.master = context.subject.attributes["master-uri"]
                         /\ identity.host = namedHost(context.subject.attributes)
                      THEN foreign
                      ELSE foreign \cup {c}
  BY Zenon DEF Pass
<1>2. identifies(context.subject.attributes, native_context)
  <2>1. validateSubject(context, native_context)
    BY <1>1, Zenon DEF checked
  <2> QED
    BY <2>1, Zenon DEF validateSubject
<1>3. IsFiniteSet(DOMAIN context.subject.attributes)
  BY ContextAssumption, Zenon
<1>4. Sane(native_context) /\ identity = IdentityOf(native_context) /\ foreign = {}
  BY Zenon DEF ContextInv, ServesItsContext
<1>5. /\ context.subject.attributes["master-uri"] = native_context.ros_master_uri
      /\ namedHost(context.subject.attributes) = HostOf(native_context)
  BY <1>2, <1>3, <1>4, SubjectNamesHost, Zenon
<1> QED
  BY <1>1, <1>4, <1>5, Zenon DEF IdentityOf

\* ContextInv is invariant.
THEOREM ContextStructure == Spec => []ContextInv
<1>1. Init => ContextInv
  BY Zenon DEF Init, ContextInv, ServesItsContext
<1>2. ContextInv /\ [Next]_vars => ContextInv'
  <2> SUFFICES ASSUME ContextInv, [Next]_vars PROVE ContextInv'
    BY Zenon
  <2> USE DEF ContextInv, ServesItsContext
  <2>1. CASE Start
    <3>0. foreign' = {}
      BY <2>1, Zenon DEF Start
    <3>1. CASE Bootstrap
      <4>1. PICK spec \in InitialSpecs :
              IF validInstanceSpec(spec)
              THEN /\ main' = "init"
                   /\ native_context' = nativeContext(spec)
                   /\ environment' = ApplyEnvironment(environment, nativeContext(spec))
                   /\ UNCHANGED identity
              ELSE Abort
        BY <3>1, Zenon DEF Bootstrap
      <4>2. CASE validInstanceSpec(spec)
        <5>1. Sane(nativeContext(spec)) /\ environment \in Environments
          BY <3>1, <4>2, ValidIsSane, Zenon DEF Bootstrap
        <5>2. rosIdentity(ApplyEnvironment(environment, nativeContext(spec)))
                = IdentityOf(nativeContext(spec))
          BY <5>1, EnvironmentApplied, Zenon
        <5>3. Sane(native_context')
          BY <4>1, <4>2, <5>1, Zenon
        <5>4. rosIdentity(environment') = IdentityOf(native_context')
          BY <4>1, <4>2, <5>2, Zenon
        <5> QED
          BY <3>0, <4>1, <4>2, <5>3, <5>4, Zenon DEF Sane, IdentityOf, HostOf, rosIdentity
      <4>3. CASE ~validInstanceSpec(spec)
        BY <3>0, <4>1, <4>3, Zenon DEF Abort
      <4> QED
        BY <4>2, <4>3, Zenon
    <3>2. CASE InitRos
      <4>1. /\ main' = "bind" /\ native_context' = native_context
            /\ identity' = IdentityOf(native_context) /\ Sane(native_context)
        BY <3>2, Zenon DEF InitRos
      <4> QED
        BY <3>0, <4>1, Zenon DEF Sane, IdentityOf, HostOf
    <3>3. CASE BindCapabilities \/ StartRuntime \/ Terminated
      <4>1. /\ UNCHANGED <<identity, native_context>>
            /\ main' \in {"start", "running", "exited"}
            /\ main' # "exited" => main \in {"bind", "start"}
        BY <3>3, Zenon DEF BindCapabilities, StartRuntime, Terminated, Abort
      <4> QED
        BY <3>0, <4>1, Zenon DEF Sane, IdentityOf, HostOf
    <3> QED
      BY <2>1, <3>1, <3>2, <3>3, Zenon DEF Start
  <2>2. CASE Serve
    <3>1. foreign' = {}
      BY <2>2, PassIsHome, Zenon DEF Serve, Admit, AdmitService
    <3>2. UNCHANGED <<main, environment, identity, native_context>>
      BY <2>2, Zenon DEF Serve, process
    <3> QED
      BY <3>1, <3>2, Zenon DEF Sane, IdentityOf, HostOf, rosIdentity
  <2>3. CASE UNCHANGED vars
    BY <2>3, Zenon DEF vars, process, Sane, IdentityOf, HostOf, rosIdentity
  <2> QED
    BY <2>1, <2>2, <2>3, Zenon DEF Next
<1> QED
  BY <1>1, <1>2, PTL DEF Spec

\* Whatever environment the process inherited and whatever specs, grants and
\* subjects the Runtime sends, every operation that is let through is for the
\* network identity ros::init took.
THEOREM ContextServed == Spec => []ServesItsContext
<1>1. ContextInv => ServesItsContext
  BY Zenon DEF ContextInv
<1> QED
  BY <1>1, ContextStructure, PTL

-----------------------------------------------------------------------------
(* The steps of the adapter.                                               *)

\* The functions over the topics and the calls; only a call that has ended has
\* an outcome.
Shape ==
  /\ services \subseteq Calls
  /\ entries = [t \in Topics |-> entries[t]]
  /\ request \in [Calls -> Requests]
  /\ pc = [c \in Calls |-> pc[c]]
  /\ outcome = [c \in Calls |-> outcome[c]]
  /\ native = [c \in Calls |-> native[c]]
  /\ reply = [c \in Calls |-> reply[c]]
  /\ \A c \in Calls : pc[c] # "done" => outcome[c] = "none"

\* What a step of a publish does to the call, to the cache and to nothing else.
LEMMA CallStepEffect ==
  ASSUME Shape, NEW c \in Calls, Registry!CallStep(c)
  PROVE  /\ pc[c] \notin {"idle", "done", "service"}
         /\ \/ /\ outcome' = outcome
               /\ \E step : step \notin {"idle", "done", "service"}
                           /\ pc' = [pc EXCEPT ![c] = step]
            \/ /\ pc' = [pc EXCEPT ![c] = "done"]
               /\ \E class : class # "none" /\ outcome' = [outcome EXCEPT ![c] = class]
         /\ \/ native' = native
            \/ pc[c] = "dispatch" /\ native' = [native EXCEPT ![c] = @ + 1]
         /\ entries' = [t \in Topics |-> entries'[t]]
         /\ \A t \in Topics : entries'[t] \in {entries[t], None, c}
         /\ request' = request
<1> DEFINE Effect ==
         /\ pc[c] \notin {"idle", "done", "service"}
         /\ \/ /\ outcome' = outcome
               /\ \E step : step \notin {"idle", "done", "service"}
                           /\ pc' = [pc EXCEPT ![c] = step]
            \/ /\ pc' = [pc EXCEPT ![c] = "done"]
               /\ \E class : class # "none" /\ outcome' = [outcome EXCEPT ![c] = class]
         /\ \/ native' = native
            \/ pc[c] = "dispatch" /\ native' = [native EXCEPT ![c] = @ + 1]
         /\ entries' = [t \in Topics |-> entries'[t]]
         /\ \A t \in Topics : entries'[t] \in {entries[t], None, c}
         /\ request' = request
<1>0. /\ entries = [t \in Topics |-> entries[t]]
      /\ request[c].topic \in Topics
  BY RegistryAssumption, Zenon DEF Shape
<1>a. entries' = entries =>
        /\ entries' = [t \in Topics |-> entries'[t]]
        /\ \A t \in Topics : entries'[t] \in {entries[t], None, c}
  BY <1>0, Zenon
<1> USE DEF Registry!Goto, Registry!Finish, Registry!registryVars, Registry!obsVars
<1>1. Registry!FetchGeneration(c) => Effect
  BY <1>a, Zenon DEF Registry!FetchGeneration, Registry!Allowed
<1>2. Registry!BindGeneration(c) => Effect
  BY <1>a, Zenon DEF Registry!BindGeneration, Registry!NoEntries
<1>3. Registry!DecodeFails(c) => Effect
  BY <1>a, Zenon DEF Registry!DecodeFails
<1>4. Registry!LeaseCached(c) => Effect
  BY <1>a, Zenon DEF Registry!LeaseCached
<1>5. Registry!LeaseMiss(c) => Effect
  BY <1>a, Zenon DEF Registry!LeaseMiss
<1>6. Registry!Advertise(c) => Effect
  BY <1>0, <1>a, Zenon DEF Registry!Advertise
<1>7. Registry!PassChecks(c) => Effect
  BY <1>a, Zenon DEF Registry!PassChecks
<1>b. ASSUME NEW f \in BOOLEAN, Registry!Release(c, f)
      PROVE  /\ entries' = [t \in Topics |-> entries'[t]]
             /\ \A t \in Topics : entries'[t] \in {entries[t], None, c}
  BY <1>0, <1>b, Zenon DEF Registry!Release
<1>8. Registry!FailChecks(c) => Effect
  BY <1>b, Zenon DEF Registry!FailChecks, Registry!Allowed
<1>9. Registry!Commit(c) => Effect
  BY <1>b, Zenon DEF Registry!Commit
<1>10. Registry!CheckContinuation(c) => Effect
  BY <1>a, Zenon DEF Registry!CheckContinuation
<1>11. Registry!Dispatch(c) => Effect
  BY <1>a, Zenon DEF Registry!Dispatch, Registry!Enqueue
<1>12. Registry!AfterDispatch(c) => Effect
  BY <1>a, Zenon DEF Registry!AfterDispatch
<1>13. Registry!CompletionFails(c) => Effect
  BY <1>a, Zenon DEF Registry!CompletionFails
<1> HIDE DEF Effect
<1>14. Effect
  BY <1>1, <1>2, <1>3, <1>4, <1>5, <1>6, <1>7, <1>8, <1>9, <1>10, <1>11, <1>12,
     <1>13, Zenon DEF Registry!CallStep
<1> QED
  BY <1>14, Zenon DEF Effect

\* The classes that mean that nothing happened.
Refusals == Classes \ {"none", "ok", "uncertain"}

\* A call that ends before it reaches the registry or the invoker is refused.
LEMMA Declines ==
  ASSUME NEW c \in Calls, Reject(c) \/ Refuse(c)
  PROVE  \E class \in Refusals : Decline(c, class)
<1>1. {"rejected", "permanent", "transient", "resource-exhausted"} \subseteq Refusals
  BY Zenon DEF Refusals, Classes, Registry!Outcomes
<1>2. CASE Reject(c)
  BY <1>1, <1>2, Zenon DEF Reject
<1>3. CASE Refuse(c)
  <2>1. \A context \in WorkContexts, input \in Inputs :
          checked(c, context, input) \in {"none", "permanent", "resource-exhausted"}
    BY Zenon DEF checked, parseInput
  <2>2. PICK class \in ({checked(c, context, input) :
                             context \in WorkContexts, input \in Inputs}
                          \ {"none"}) \cup {"transient"} : Decline(c, class)
    BY <1>3 DEF Refuse
  <2>3. class \in Refusals
    BY <1>1, <2>1, <2>2
  <2> QED
    BY <2>2, <2>3
<1> QED
  BY <1>2, <1>3, Zenon

\* The steps that touch no call, no reply and no cached publisher.
Quiet == UNCHANGED <<registry, services, reply>>

\* Every step of the adapter is one of these.
LEMMA NextCases ==
  ASSUME [Next]_vars
  PROVE  \/ Quiet
         \/ ClearPublishers
         \/ Surroundings
         \/ \E c \in Calls :
              \/ \E class \in Refusals : Decline(c, class)
              \/ Answer(c) \/ PublishStep(c) \/ ServiceStep(c)
              \/ Admit(c) \/ AdmitService(c)
<1> USE DEF Quiet
<1>1. CASE Start
  BY <1>1, Zenon DEF Start
<1>2. CASE Control
  BY <1>2, Zenon DEF Control, ApplyInstanceSpec, StartPublishCapability,
     StartServiceCapability, StopPublishCapability, StopServiceCapability, ForgetSpec
<1>3. ASSUME NEW c \in Calls, Operation(c)
      PROVE  \/ \E class \in Refusals : Decline(c, class)
             \/ Answer(c) \/ PublishStep(c) \/ ServiceStep(c)
  BY <1>3, Declines, Zenon DEF Operation
<1>4. CASE Serve
  BY <1>2, <1>3, <1>4, Zenon DEF Serve
<1>5. CASE UNCHANGED vars
  BY <1>5, Zenon DEF vars
<1> QED
  BY <1>1, <1>4, <1>5, Zenon DEF Next

\* Shape is invariant.
LEMMA ShapeHolds == Spec => []Shape
<1>1. Init => Shape
  BY Zenon DEF Init, Registry!Init, Registry!NoEntries, Shape
<1>2. Shape /\ [Next]_vars => Shape'
  <2> SUFFICES ASSUME Shape, [Next]_vars PROVE Shape'
    BY Zenon
  <2>1. CASE Quiet \/ Surroundings
    BY <2>1, Zenon DEF Quiet, registry, Surroundings, Registry!MasterChanges,
       Registry!RosShutdown, Registry!Interrupt, Registry!registryVars,
       Registry!callVars, Registry!obsVars, Shape
  <2>2. CASE ClearPublishers
    BY <2>2, Zenon DEF ClearPublishers, Registry!Clear, Registry!NoEntries,
       Registry!callVars, Registry!obsVars, Shape
  <2>3. ASSUME NEW c \in Calls, NEW class, Decline(c, class) PROVE Shape'
    BY <2>3, Zenon DEF Decline, Shape
  <2>4. ASSUME NEW c \in Calls, Answer(c) PROVE Shape'
    BY <2>4, Zenon DEF Answer, registry, Shape
  <2>5. ASSUME NEW c \in Calls, PublishStep(c) PROVE Shape'
    BY <2>5, CallStepEffect DEF PublishStep, Shape
  <2>6. ASSUME NEW c \in Calls, ServiceStep(c) PROVE Shape'
    <3> USE DEF Shape
    <3>1. UNCHANGED <<entries, request, services, reply>>
      BY <2>6, Zenon DEF ServiceStep
    <3>2. pc' = [d \in Calls |-> pc'[d]]
      BY <2>6, Zenon DEF ServiceStep
    <3>3. /\ outcome' = [d \in Calls |-> outcome'[d]]
          /\ native' = [d \in Calls |-> native'[d]]
      BY <2>6, Zenon DEF ServiceStep, Invoker!Effect, Invoker!Succeed, Invoker!Refuse,
         Invoker!GiveUp
    <3>4. \A d \in Calls : pc'[d] # "done" => outcome'[d] = "none"
      BY <2>6 DEF ServiceStep, Invoker!Effect, Invoker!Succeed, Invoker!Refuse,
         Invoker!GiveUp
    <3> QED
      BY <3>1, <3>2, <3>3, <3>4, Zenon
  <2>7. ASSUME NEW c \in Calls, Admit(c) \/ AdmitService(c) PROVE Shape'
    BY <2>7, Zenon DEF Admit, AdmitService, Registry!Begin, Registry!Goto,
       Registry!registryVars, Registry!obsVars, Shape
  <2> QED
    BY <2>1, <2>2, <2>3, <2>4, <2>5, <2>6, <2>7, NextCases, Zenon
<1> QED
  BY <1>1, <1>2, PTL DEF Spec

-----------------------------------------------------------------------------
(* What a stopped capability leaves behind.                                *)

\* Once the flag is cleared no publish begins, so those that run are among the
\* ones that ran then; what is cached is theirs once publishers_.clear() is done.
StoppedInv ==
  ~publish_enabled =>
    /\ Running \subseteq overtaken
    /\ control \notin {"clear", "clear-spec"} =>
         \A t \in Topics : entries[t] # None => entries[t] \in overtaken

ControlInv ==
  /\ control \in {"idle", "clear", "clear-spec", "stop-service", "forget-spec"}
  /\ control # "idle" => ~publish_enabled

\* Nothing that StoppedInv speaks of changes.
LEMMA StoppedFrame ==
  ASSUME StoppedInv, ControlInv,
         UNCHANGED <<entries, pc, services, publish_enabled, control, overtaken>>
  PROVE  StoppedInv' /\ ControlInv'
BY Zenon DEF StoppedInv, ControlInv, Running

\* Together they are invariant.
THEOREM StoppedStructure == Spec => [](StoppedInv /\ ControlInv)
<1>1. Init => StoppedInv /\ ControlInv
  BY DEF Init, Registry!Init, Registry!NoEntries, StoppedInv, ControlInv, Running
<1>2. Shape /\ StoppedInv /\ ControlInv /\ [Next]_vars => StoppedInv' /\ ControlInv'
  <2> SUFFICES ASSUME Shape, StoppedInv, ControlInv, [Next]_vars
               PROVE  StoppedInv' /\ ControlInv'
    BY Zenon
  <2>1. CASE Start \/ UNCHANGED vars
    BY <2>1, StoppedFrame, Zenon DEF Start, vars, capabilities, registry
  <2>2. CASE Surroundings
    BY <2>2, StoppedFrame, Zenon DEF Surroundings, capabilities, Registry!MasterChanges,
       Registry!RosShutdown, Registry!Interrupt, Registry!registryVars, Registry!callVars
  <2>3. CASE Control
    <3>1. CASE ApplyInstanceSpec \/ StartServiceCapability
      BY <3>1, StoppedFrame, Zenon DEF ApplyInstanceSpec, StartServiceCapability, registry
    <3>2. CASE StartPublishCapability
      BY <3>2, Zenon DEF StartPublishCapability, StoppedInv, ControlInv
    <3>3. CASE StopPublishCapability
      <4>1. /\ overtaken' = Running /\ Running' = Running
            /\ ~publish_enabled' /\ control' \in {"clear", "clear-spec"}
        BY <3>3, Zenon DEF StopPublishCapability, registry, Running
      <4> QED
        BY <4>1, Zenon DEF StoppedInv, ControlInv
    <3>4. CASE ClearPublishers
      <4>1. /\ Running' = Running /\ UNCHANGED <<publish_enabled, overtaken>>
            /\ \A t \in Topics : entries'[t] = None
        BY <3>4, Zenon DEF ClearPublishers, Registry!Clear, Registry!callVars,
           Registry!NoEntries, Running
      <4>2. ~publish_enabled /\ control' \in {"idle", "stop-service"}
        BY <3>4, Zenon DEF ClearPublishers, ControlInv
      <4> QED
        BY <4>1, <4>2, Zenon DEF StoppedInv, ControlInv
    <3>5. CASE StopServiceCapability \/ ForgetSpec
      <4>1. UNCHANGED <<entries, pc, services, publish_enabled, overtaken>>
        BY <3>5, Zenon DEF StopServiceCapability, ForgetSpec, registry
      <4>2. /\ control \notin {"clear", "clear-spec"}
            /\ control' \in {"idle", "forget-spec"}
            /\ control = "idle" => control' = "idle"
        BY <3>5, Zenon DEF StopServiceCapability, ForgetSpec
      <4> QED
        BY <4>1, <4>2, Zenon DEF StoppedInv, ControlInv, Running
    <3> QED
      BY <2>3, <3>1, <3>2, <3>3, <3>4, <3>5, Zenon DEF Control
  <2>4. ASSUME NEW c \in Calls, NEW class, Decline(c, class)
        PROVE  StoppedInv' /\ ControlInv'
    <3>1. /\ Running' \subseteq Running
          /\ UNCHANGED <<entries, publish_enabled, control, overtaken>>
      BY <2>4, Zenon DEF Decline, capabilities, Running, Shape
    <3> QED
      BY <3>1, Zenon DEF StoppedInv, ControlInv
  <2>5. ASSUME NEW c \in Calls, Answer(c) PROVE StoppedInv' /\ ControlInv'
    BY <2>5, StoppedFrame, Zenon DEF Answer, registry, capabilities
  <2>6. ASSUME NEW c \in Calls, PublishStep(c) PROVE StoppedInv' /\ ControlInv'
    <3>1. /\ c \in Running /\ Running' \subseteq Running
          /\ UNCHANGED <<publish_enabled, control, overtaken>>
      <4>1. c \notin services /\ Registry!CallStep(c)
            /\ UNCHANGED <<services, publish_enabled, control, overtaken>>
        BY <2>6, Zenon DEF PublishStep, capabilities
      <4>2. pc[c] \notin {"idle", "done"} /\ \A d \in Calls \ {c} : pc'[d] = pc[d]
        BY <4>1, CallStepEffect DEF Shape
      <4> QED
        BY <4>1, <4>2, Zenon DEF Running
    <3>2. \A t \in Topics : entries'[t] \in {entries[t], None, c}
      BY <2>6, CallStepEffect, Zenon DEF PublishStep
    <3> QED
      BY <3>1, <3>2, Zenon DEF StoppedInv, ControlInv
  <2>7. ASSUME NEW c \in Calls, ServiceStep(c) \/ AdmitService(c)
        PROVE  StoppedInv' /\ ControlInv'
    <3>1. /\ c \in services
          /\ UNCHANGED <<entries, services, publish_enabled, control, overtaken>>
      BY <2>7, Zenon DEF ServiceStep, AdmitService, capabilities
    <3>2. \A d \in Calls \ {c} : pc'[d] = pc[d]
      BY <2>7, Zenon DEF ServiceStep, AdmitService, Shape
    <3>3. Running' = Running
      BY <3>1, <3>2, Zenon DEF Running
    <3> QED
      BY <3>1, <3>3, Zenon DEF StoppedInv, ControlInv
  <2>8. ASSUME NEW c \in Calls, Admit(c) PROVE StoppedInv' /\ ControlInv'
    BY <2>8, Zenon DEF Admit, capabilities, StoppedInv, ControlInv
  <2>9. ASSUME NEW c \in Calls, Operation(c) PROVE StoppedInv' /\ ControlInv'
    BY <2>4, <2>5, <2>6, <2>7, <2>9, Declines, Zenon DEF Operation
  <2> QED
    BY <2>1, <2>2, <2>3, <2>7, <2>8, <2>9, Zenon DEF Next, Serve
<1> QED
  BY <1>1, <1>2, ShapeHolds, PTL DEF Spec

\* When StopPublishCapability has returned, the registry caches no publisher but
\* those of calls that were already running when the flag was cleared.
THEOREM StopLeavesOvertaken == Spec => []StoppedResidue
<1>1. StoppedInv => StoppedResidue
  BY Zenon DEF StoppedInv, StoppedResidue
<1> QED
  BY <1>1, StoppedStructure, PTL

-----------------------------------------------------------------------------
(* What the Runtime is told.                                               *)

\* How the step a call is at, the outcome of publish() or call(), the messages
\* sent and the reply go together.  Of a publish the registry says the rest.
Consistent(step, class, sent, answer, service) ==
  /\ answer # "none" => step = "done"
  /\ step = "done" /\ class = "none" => answer \in Refusals
  /\ class = "ok" => answer \in {"none", "ok", "uncertain"}
  /\ class \notin {"none", "ok"} => answer \in {"none", class}
  /\ service =>
       /\ step \in {"idle", "service", "done"}
       /\ class \in Registry!Outcomes
       /\ sent \in {0, 1}
       /\ step = "idle" \/ (step = "done" /\ class = "none") => sent = 0
       /\ class = "ok" => sent = 1
       /\ class \notin {"none", "ok", "uncertain"} => sent = 0

ReplyInv ==
  \A c \in Calls : Consistent(pc[c], outcome[c], native[c], reply[c], c \in services)

\* Only one call changes.
LEMMA ReplyFrame ==
  ASSUME ReplyInv, UNCHANGED services, NEW c \in Calls,
         \A d \in Calls \ {c} : /\ pc'[d] = pc[d] /\ outcome'[d] = outcome[d]
                                /\ native'[d] = native[d] /\ reply'[d] = reply[d],
         Consistent(pc'[c], outcome'[c], native'[c], reply'[c], c \in services)
  PROVE  ReplyInv'
BY Zenon DEF ReplyInv

\* ReplyInv is invariant.
THEOREM ReplyStructure == Spec => []ReplyInv
<1>1. Init => ReplyInv
  BY Zenon DEF Init, Registry!Init, Registry!Outcomes, ReplyInv, Consistent
<1>2. Shape /\ ReplyInv /\ [Next]_vars => ReplyInv'
  <2> SUFFICES ASSUME Shape, ReplyInv, [Next]_vars PROVE ReplyInv'
    BY Zenon
  <2>1. CASE Quiet \/ Surroundings \/ ClearPublishers
    <3>1. UNCHANGED <<pc, outcome, native, reply, services>>
      BY <2>1, Zenon DEF Quiet, registry, Surroundings, Registry!MasterChanges,
         Registry!RosShutdown, Registry!Interrupt, ClearPublishers, Registry!Clear,
         Registry!callVars, Registry!obsVars
    <3> QED
      BY <3>1, Zenon DEF ReplyInv
  <2>a. \A c \in Calls : Consistent(pc[c], outcome[c], native[c], reply[c], c \in services)
    BY Zenon DEF ReplyInv
  <2>2. ASSUME NEW c \in Calls, NEW class \in Refusals, Decline(c, class) PROVE ReplyInv'
    <3>1. /\ pc[c] = "idle" /\ outcome[c] = "none"
          /\ pc'[c] = "done" /\ reply'[c] = class
          /\ UNCHANGED <<outcome, native, services>>
          /\ \A d \in Calls \ {c} : pc'[d] = pc[d] /\ reply'[d] = reply[d]
      BY <2>2, Zenon DEF Decline, Shape
    <3>2. Consistent(pc'[c], outcome'[c], native'[c], reply'[c], c \in services)
      BY <2>2, <2>a, <3>1, Zenon DEF Consistent
    <3> QED
      BY <3>1, <3>2, ReplyFrame, Zenon
  <2>3. ASSUME NEW c \in Calls, Answer(c) PROVE ReplyInv'
    <3>1. /\ pc[c] = "done" /\ outcome[c] # "none"
          /\ reply'[c] \in IF outcome[c] = "ok" THEN {"ok", "uncertain"} ELSE {outcome[c]}
          /\ UNCHANGED <<pc, outcome, native, services>>
          /\ \A d \in Calls \ {c} : reply'[d] = reply[d]
      BY <2>3, Zenon DEF Answer, registry, Shape
    <3>2. Consistent(pc'[c], outcome'[c], native'[c], reply'[c], c \in services)
      BY <2>a, <3>1, Zenon DEF Consistent
    <3> QED
      BY <3>1, <3>2, ReplyFrame
  <2>4. ASSUME NEW c \in Calls, PublishStep(c) PROVE ReplyInv'
    <3>1. /\ c \notin services /\ UNCHANGED <<services, reply>>
          /\ pc[c] # "done" /\ pc'[c] # "idle"
          /\ pc'[c] = "done" => outcome'[c] # "none"
          /\ pc'[c] # "done" => outcome'[c] = outcome[c]
          /\ \A d \in Calls \ {c} : /\ pc'[d] = pc[d] /\ outcome'[d] = outcome[d]
                                    /\ native'[d] = native[d]
      <4>1. c \notin services /\ Registry!CallStep(c) /\ UNCHANGED <<services, reply>>
        BY <2>4, Zenon DEF PublishStep
      <4>2. /\ pc[c] # "done"
            /\ pc'[c] = "done" => outcome'[c] # "none"
            /\ pc'[c] # "done" => outcome'[c] = outcome[c]
            /\ pc'[c] # "idle"
            /\ \A d \in Calls \ {c} : pc'[d] = pc[d] /\ outcome'[d] = outcome[d]
        BY <4>1, CallStepEffect DEF Shape
      <4>3. \A d \in Calls \ {c} : native'[d] = native[d]
        BY <4>1, CallStepEffect DEF Shape
      <4> QED
        BY <4>1, <4>2, <4>3, Zenon
    <3>2. reply'[c] = "none" /\ outcome[c] = "none"
      BY <2>a, <3>1, Zenon DEF Consistent, Shape
    <3>3. Consistent(pc'[c], outcome'[c], native'[c], reply'[c], c \in services)
      BY <3>1, <3>2, Zenon DEF Consistent
    <3> QED
      BY <3>1, <3>3, ReplyFrame, Zenon
  <2>5. ASSUME NEW c \in Calls, ServiceStep(c) PROVE ReplyInv'
    <3>1. c \in services /\ UNCHANGED <<services, reply>> /\ Quota[c] = 1
      BY <2>5, Zenon DEF ServiceStep, Quota
    <3>2. \A d \in Calls \ {c} : /\ pc'[d] = pc[d] /\ outcome'[d] = outcome[d]
                                 /\ native'[d] = native[d]
      BY <2>5, Zenon DEF ServiceStep, Invoker!Effect, Invoker!Succeed, Invoker!Refuse,
         Invoker!GiveUp, Shape
    <3>3. Consistent(pc'[c], outcome'[c], native'[c], reply'[c], c \in services)
      <4>0. /\ Consistent(pc[c], outcome[c], native[c], reply[c], TRUE)
            /\ reply'[c] = reply[c] /\ native[c] \in {0, 1}
        BY <2>a, <3>1, Zenon DEF Consistent
      <4>1. CASE (pc[c] = "service" \/ outcome[c] = "uncertain") /\ Invoker!Effect(c)
                  /\ UNCHANGED pc
        <5>1. /\ outcome[c] \in {"none", "uncertain"} /\ native[c] = 0 /\ native'[c] = 1
              /\ outcome'[c] = outcome[c] /\ pc'[c] = pc[c]
          BY <3>1, <4>0, <4>1 DEF Invoker!Effect, Shape
        <5>2. outcome[c] = "uncertain" => pc[c] = "done"
          BY Zenon DEF Shape
        <5> QED
          BY <3>1, <4>0, <4>1, <5>1, <5>2, Zenon DEF Consistent
      <4>2. CASE /\ pc[c] = "service" /\ pc' = [pc EXCEPT ![c] = "done"]
                 /\ Invoker!Succeed(c) \/ Invoker!Refuse(c) \/ Invoker!GiveUp(c)
        <5>1. pc'[c] = "done" /\ reply[c] = "none"
          BY <4>0, <4>2, Zenon DEF Shape, Consistent
        <5>2. CASE Invoker!Succeed(c)
          BY <3>1, <4>0, <5>1, <5>2, Zenon
             DEF Invoker!Succeed, Shape, Consistent, Registry!Outcomes
        <5>3. CASE Invoker!Refuse(c)
          BY <3>1, <4>0, <5>1, <5>3, Zenon DEF Invoker!Refuse, Shape, Consistent
        <5>4. CASE Invoker!GiveUp(c)
          <6>1. outcome'[c] = "uncertain" /\ native'[c] \in {0, 1}
            BY <3>1, <4>0, <5>4 DEF Invoker!GiveUp, Shape
          <6> QED
            BY <3>1, <4>0, <5>1, <6>1, Zenon DEF Consistent, Registry!Outcomes
        <5> QED
          BY <4>2, <5>2, <5>3, <5>4, Zenon
      <4> QED
        BY <2>5, <4>1, <4>2, Zenon DEF ServiceStep
    <3> QED
      BY <3>1, <3>2, <3>3, ReplyFrame, Zenon
  <2>6. ASSUME NEW c \in Calls, Admit(c) \/ AdmitService(c) PROVE ReplyInv'
    <3>1. /\ pc[c] = "idle" /\ UNCHANGED <<outcome, native, reply, services>>
          /\ pc'[c] = IF c \in services THEN "service" ELSE "start"
          /\ \A d \in Calls \ {c} : pc'[d] = pc[d]
      BY <2>6, Zenon DEF Admit, AdmitService, Registry!Begin, Registry!Goto,
         Registry!obsVars, Shape
    <3>2. Consistent(pc'[c], outcome'[c], native'[c], reply'[c], c \in services)
      BY <2>a, <3>1, Zenon DEF Consistent, Shape
    <3> QED
      BY <3>1, <3>2, ReplyFrame, Zenon
  <2> QED
    BY <2>1, <2>2, <2>3, <2>4, <2>5, <2>6, NextCases, Zenon
<1> QED
  BY <1>1, <1>2, ShapeHolds, PTL DEF Spec

-----------------------------------------------------------------------------
(* A step of the adapter, as NativeOperation sees it.                      *)

\* What the registry promises of a publish of the adapter.
PublishInv ==
  \A c \in Calls \ services :
    /\ outcome[c] \in Registry!Outcomes
    /\ native[c] \in Nat
    /\ pc[c] = "idle" \/ (pc[c] = "done" /\ outcome[c] = "none") => native[c] = 0
    /\ pc[c] = "dispatch" => native[c] < request[c].count
    /\ outcome[c] = "ok" => native[c] = request[c].count
    /\ outcome[c] \notin {"none", "ok", "uncertain"} => native[c] = 0

\* Every step is one of the abstract call, or one it does not see.
LEMMA HonestStep ==
  ASSUME Shape, PublishInv, ReplyInv, [Next]_vars
  PROVE  [Abstract!Next]_(Abstract!vars)
<1>a. \A c \in Calls :
        /\ c \in services => Quota[c] = 1
        /\ c \notin services => Quota[c] = request[c].count
  BY Zenon DEF Quota
<1>b. ASSUME UNCHANGED <<request, services>> PROVE Quota' = Quota
  BY <1>b, Zenon DEF Quota
<1>c. \A c \in Calls :
        /\ reply[c] # "none" => pc[c] = "done"
        /\ outcome[c] = "ok" => native[c] = Quota[c]
        /\ outcome[c] \notin {"none", "ok", "uncertain"} => native[c] = 0
        /\ pc[c] = "idle" => native[c] = 0
        /\ outcome[c] \in Registry!Outcomes
  BY <1>a, Zenon DEF PublishInv, ReplyInv, Consistent
<1> HIDE DEF Quota
<1>1. CASE Quiet \/ Surroundings \/ ClearPublishers
  <2>1. UNCHANGED <<reply, native, request, services>>
    BY <1>1, Zenon DEF Quiet, registry, Surroundings, Registry!MasterChanges,
       Registry!RosShutdown, Registry!Interrupt, ClearPublishers, Registry!Clear,
       Registry!callVars, Registry!obsVars
  <2> QED
    BY <1>b, <2>1, Zenon DEF Abstract!vars
<1>2. ASSUME NEW c \in Calls, NEW class \in Refusals, Decline(c, class)
      PROVE  Abstract!Next
  <2>1. /\ pc[c] = "idle" /\ reply' = [reply EXCEPT ![c] = class]
        /\ UNCHANGED <<native, request, services>>
    BY <1>2, Zenon DEF Decline, capabilities
  <2>2. reply[c] = "none" /\ native[c] = 0 /\ Quota' = Quota
    BY <1>b, <1>c, <2>1, Zenon
  <2> QED
    BY <1>2, <2>1, <2>2, Zenon DEF Abstract!Next, Abstract!Refuse, Refusals
<1>3. ASSUME NEW c \in Calls, Answer(c) PROVE Abstract!Next
  <2>1. /\ outcome[c] # "none" /\ reply[c] = "none"
        /\ \E class \in IF outcome[c] = "ok" THEN {"ok", "uncertain"} ELSE {outcome[c]} :
             reply' = [reply EXCEPT ![c] = class]
        /\ UNCHANGED <<native, request, services>>
    BY <1>3, Zenon DEF Answer, registry
  <2>2. Quota' = Quota
    BY <1>b, <2>1, Zenon
  <2>3. CASE reply' = [reply EXCEPT ![c] = "uncertain"]
    BY <2>1, <2>2, <2>3, Zenon DEF Abstract!Next, Abstract!GiveUp
  <2>4. CASE outcome[c] = "ok" /\ reply' = [reply EXCEPT ![c] = "ok"]
    BY <1>c, <2>1, <2>2, <2>4, Zenon DEF Abstract!Next, Abstract!Succeed
  <2>5. CASE outcome[c] \notin {"ok", "uncertain"}
    <3>1. outcome[c] \in Classes \ {"none", "ok", "uncertain"} /\ native[c] = 0
      BY <1>c, <2>1, <2>5, Zenon DEF Classes
    <3>2. reply' = [reply EXCEPT ![c] = outcome[c]]
      BY <2>1, <2>5, Zenon
    <3> QED
      BY <2>1, <2>2, <3>1, <3>2, Zenon DEF Abstract!Next, Abstract!Refuse
  <2> QED
    BY <2>1, <2>3, <2>4, <2>5, Zenon
<1>4. ASSUME NEW c \in Calls, PublishStep(c) PROVE [Abstract!Next]_(Abstract!vars)
  <2>1. c \notin services /\ Registry!CallStep(c) /\ UNCHANGED <<services, reply>>
    BY <1>4, Zenon DEF PublishStep
  <2>2. /\ pc[c] # "done" /\ request' = request
        /\ \/ native' = native
           \/ pc[c] = "dispatch" /\ native' = [native EXCEPT ![c] = @ + 1]
    BY <2>1, CallStepEffect, Zenon
  <2>3. reply[c] = "none" /\ Quota' = Quota
    BY <1>b, <1>c, <2>1, <2>2, Zenon
  <2>4. CASE native' = native
    BY <2>1, <2>3, <2>4, Zenon DEF Abstract!vars
  <2>5. CASE pc[c] = "dispatch" /\ native' = [native EXCEPT ![c] = @ + 1]
    <3>1. native[c] < Quota[c]
      BY <1>a, <2>1, <2>5, Zenon DEF PublishInv
    <3> QED
      BY <2>1, <2>3, <2>5, <3>1, Zenon DEF Abstract!Next, Abstract!Effect
  <2> QED
    BY <2>2, <2>4, <2>5, Zenon
<1>5. ASSUME NEW c \in Calls, ServiceStep(c) PROVE [Abstract!Next]_(Abstract!vars)
  <2>1. c \in services /\ UNCHANGED <<request, services, reply>> /\ Quota' = Quota
    BY <1>5, <1>b, Zenon DEF ServiceStep
  <2>2. CASE native' = native
    BY <2>1, <2>2, Zenon DEF Abstract!vars
  <2>3. CASE native' # native
    <3>1. /\ native[c] < Quota[c] /\ native' = [native EXCEPT ![c] = @ + 1]
          /\ pc[c] = "service" \/ outcome[c] = "uncertain"
      BY <1>5, <2>3, Zenon DEF ServiceStep, Invoker!Effect, Invoker!Succeed,
         Invoker!Refuse, Invoker!GiveUp
    <3>2. reply[c] \in {"none", "uncertain"}
      BY <3>1, Zenon DEF ReplyInv, Consistent
    <3> QED
      BY <2>1, <3>1, <3>2, Zenon DEF Abstract!Next, Abstract!Effect
  <2> QED
    BY <2>2, <2>3, Zenon
<1>6. ASSUME NEW c \in Calls, Admit(c) \/ AdmitService(c) PROVE UNCHANGED Abstract!vars
  <2>1. UNCHANGED <<reply, native, request, services>>
    BY <1>6, Zenon DEF Admit, AdmitService, Registry!Begin, Registry!obsVars
  <2> QED
    BY <1>b, <2>1, Zenon DEF Abstract!vars
<1> QED
  BY <1>1, <1>2, <1>3, <1>4, <1>5, <1>6, NextCases, Zenon

-----------------------------------------------------------------------------
(* The publishes of the adapter are those of the registry.                 *)

\* A call the registry does not know: a service call, or one that ended before
\* it reached the registry.
Outside(c) == c \in services \/ (pc[c] = "done" /\ outcome[c] = "none")

\* What the registry sees of the calls.
PublishPc == [c \in Calls |-> IF Outside(c) THEN "idle" ELSE pc[c]]
PublishOutcome == [c \in Calls |-> IF c \in services THEN "none" ELSE outcome[c]]
PublishNative == [c \in Calls |-> IF c \in services THEN 0 ELSE native[c]]

\* The theorems about the registry, for its calls.
Proved == INSTANCE PublisherRegistryProofs WITH
  pc <- PublishPc, outcome <- PublishOutcome, native <- PublishNative

\* How the steps of a call look to the registry.
LEMMA SeenAt ==
  ASSUME NEW c \in Calls, c \notin services, pc[c] # "done"
  PROVE  PublishPc[c] = pc[c] /\ PublishOutcome[c] = outcome[c]
         /\ PublishNative[c] = native[c]
BY Zenon DEF PublishPc, PublishOutcome, PublishNative, Outside

\* A publish that moves on does so in the registry.
LEMMA SeenGoto ==
  ASSUME Shape, NEW c \in Calls, c \notin services, pc[c] # "done",
         NEW step, step # "done", pc' = [pc EXCEPT ![c] = step],
         UNCHANGED <<outcome, services>>
  PROVE  /\ PublishPc' = [PublishPc EXCEPT ![c] = step]
         /\ PublishOutcome' = PublishOutcome
<1>1. \A d \in Calls : PublishPc'[d] = [PublishPc EXCEPT ![c] = step][d]
  BY Zenon DEF Shape, PublishPc, Outside
<1> QED
  BY <1>1, Zenon DEF PublishPc, PublishOutcome

\* A publish that ends does so in the registry.
LEMMA SeenFinish ==
  ASSUME Shape, NEW c \in Calls, c \notin services, pc[c] # "done",
         NEW class, class # "none", pc' = [pc EXCEPT ![c] = "done"],
         outcome' = [outcome EXCEPT ![c] = class], UNCHANGED services
  PROVE  /\ PublishPc' = [PublishPc EXCEPT ![c] = "done"]
         /\ PublishOutcome' = [PublishOutcome EXCEPT ![c] = class]
<1>1. \A d \in Calls : /\ PublishPc'[d] = [PublishPc EXCEPT ![c] = "done"][d]
                       /\ PublishOutcome'[d] = [PublishOutcome EXCEPT ![c] = class][d]
  BY Zenon DEF Shape, PublishPc, PublishOutcome, Outside
<1> QED
  BY <1>1, Zenon DEF PublishPc, PublishOutcome

\* A message of a publish is one of the registry.
LEMMA SeenNative ==
  ASSUME Shape, NEW c \in Calls, c \notin services, UNCHANGED services
  PROVE  /\ native' = native => PublishNative' = PublishNative
         /\ native' = [native EXCEPT ![c] = @ + 1] =>
              PublishNative' = [PublishNative EXCEPT ![c] = @ + 1]
<1>1. native' = native => PublishNative' = PublishNative
  BY Zenon DEF PublishNative
<1>2. ASSUME native' = [native EXCEPT ![c] = @ + 1]
      PROVE  PublishNative' = [PublishNative EXCEPT ![c] = @ + 1]
  <2>1. \A d \in Calls : PublishNative'[d] = [PublishNative EXCEPT ![c] = @ + 1][d]
    BY <1>2, Zenon DEF Shape, PublishNative
  <2> QED
    BY <2>1, Zenon DEF PublishNative
<1> QED
  BY <1>1, <1>2, Zenon

\* A step of a publish is the same step of the registry.
LEMMA SeenCallStep ==
  ASSUME Shape, NEW c \in Calls, c \notin services, Registry!CallStep(c),
         UNCHANGED services
  PROVE  Proved!CallStep(c)
<1> USE DEF Proved!CallStep
<1>0. /\ PublishPc[c] = pc[c] /\ PublishNative[c] = native[c] /\ pc[c] # "done"
      /\ native' = native => PublishNative' = PublishNative
      /\ native' = [native EXCEPT ![c] = @ + 1] =>
           PublishNative' = [PublishNative EXCEPT ![c] = @ + 1]
  <2>1. pc[c] # "done"
    BY Zenon DEF Registry!CallStep, Registry!FetchGeneration, Registry!BindGeneration,
       Registry!DecodeFails, Registry!LeaseCached, Registry!LeaseMiss,
       Registry!Advertise, Registry!PassChecks, Registry!FailChecks,
       Registry!Commit, Registry!CheckContinuation, Registry!Dispatch,
       Registry!AfterDispatch, Registry!CompletionFails
  <2> QED
    BY <2>1, SeenAt, SeenNative
<1>a. ASSUME NEW step, step # "done", Registry!Goto(c, step), UNCHANGED outcome
      PROVE  Proved!Goto(c, step) /\ PublishOutcome' = PublishOutcome
  BY <1>0, <1>a, SeenGoto, Zenon DEF Registry!Goto, Proved!Goto
<1>b. ASSUME NEW class, class # "none", Registry!Finish(c, class)
      PROVE  Proved!Finish(c, class)
  BY <1>0, <1>b, SeenFinish, Zenon
     DEF Registry!Finish, Registry!Goto, Proved!Finish, Proved!Goto
<1>c. Registry!Size = Proved!Size
  BY Zenon DEF Registry!Size, Proved!Size, Registry!Cardinality, Proved!Cardinality
<1>d. /\ Registry!Allowed(c) <=> Proved!Allowed(c)
      /\ ~Registry!Allowed(c) => interrupt[c] # "none"
  BY Zenon DEF Registry!Allowed, Proved!Allowed
<1>e. Registry!NoEntries = Proved!NoEntries
  BY Zenon DEF Registry!NoEntries, Proved!NoEntries
<1>f. ASSUME NEW f \in BOOLEAN, Registry!Release(c, f)
      PROVE  Proved!Release(c, f)
  BY <1>f DEF Registry!Release, Proved!Release
<1>g. Registry!Enqueue(c) => Proved!Enqueue(c)
  BY <1>0, <1>d, Zenon DEF Registry!Enqueue, Proved!Enqueue
<1> USE DEF Registry!registryVars, Registry!envVars, Registry!obsVars,
            Proved!registryVars, Proved!envVars, Proved!obsVars
<1>1. CASE Registry!FetchGeneration(c)
  BY <1>1, <1>0, <1>a, <1>b, <1>d, Zenon DEF Registry!FetchGeneration, Proved!FetchGeneration
<1>2. CASE Registry!BindGeneration(c)
  BY <1>2, <1>0, <1>a, <1>b, <1>e, Zenon DEF Registry!BindGeneration, Proved!BindGeneration
<1>3. CASE Registry!DecodeFails(c)
  BY <1>3, <1>0, <1>b, Zenon DEF Registry!DecodeFails, Proved!DecodeFails
<1>4. CASE Registry!LeaseCached(c)
  BY <1>4, <1>0, <1>a, <1>b, Zenon DEF Registry!LeaseCached, Proved!LeaseCached
<1>5. CASE Registry!LeaseMiss(c)
  BY <1>5, <1>0, <1>a, <1>b, <1>c, Zenon DEF Registry!LeaseMiss, Proved!LeaseMiss
<1>6. CASE Registry!Advertise(c)
  BY <1>6, <1>0, <1>a, <1>b, Zenon DEF Registry!Advertise, Proved!Advertise
<1>7. CASE Registry!PassChecks(c)
  BY <1>7, <1>0, <1>a, <1>d, Zenon DEF Registry!PassChecks, Proved!PassChecks
<1>8. CASE Registry!FailChecks(c)
  BY <1>8, <1>0, <1>b, <1>d, <1>f, Zenon DEF Registry!FailChecks, Proved!FailChecks
<1>9. CASE Registry!Commit(c)
  BY <1>9, <1>0, <1>a, <1>f, Zenon DEF Registry!Commit, Proved!Commit
<1>10. CASE Registry!CheckContinuation(c)
  BY <1>10, <1>0, <1>a, <1>b, <1>d, Zenon
     DEF Registry!CheckContinuation, Proved!CheckContinuation
<1>11. CASE Registry!Dispatch(c)
  BY <1>11, <1>0, <1>a, <1>b, <1>g, Zenon DEF Registry!Dispatch, Proved!Dispatch
<1>12. CASE Registry!AfterDispatch(c)
  BY <1>12, <1>0, <1>a, <1>b, <1>d, Zenon DEF Registry!AfterDispatch, Proved!AfterDispatch
<1>13. CASE Registry!CompletionFails(c)
  BY <1>13, <1>0, <1>b, Zenon DEF Registry!CompletionFails, Proved!CompletionFails
<1> QED
  BY <1>1, <1>2, <1>3, <1>4, <1>5, <1>6, <1>7, <1>8, <1>9, <1>10, <1>11, <1>12,
     <1>13, Zenon DEF Registry!CallStep

\* A step that leaves the publishes of the registry alone is invisible to it.
LEMMA SeenNothing ==
  ASSUME UNCHANGED <<entries, active_calls, committed, publisher,
                     master_generation, mutex, request, current, selected,
                     probe, master, ros_ok, interrupt, late, services>>,
         \A c \in Calls \ services :
           /\ PublishPc'[c] = PublishPc[c]
           /\ outcome'[c] = outcome[c] /\ native'[c] = native[c]
  PROVE  UNCHANGED Proved!vars
<1>1. \A c \in services \cap Calls : PublishPc'[c] = PublishPc[c]
  BY Zenon DEF PublishPc, Outside
<1>2. UNCHANGED PublishPc
  BY <1>1, Zenon DEF PublishPc
<1>3. UNCHANGED <<PublishOutcome, PublishNative>>
  BY Zenon DEF PublishOutcome, PublishNative
<1> QED
  BY <1>2, <1>3, Zenon DEF Proved!vars, Proved!registryVars, Proved!callVars,
                    Proved!envVars, Proved!obsVars

\* The publishes of the adapter, with the service calls and the calls that were
\* turned away left out, are a behaviour of the registry: the capabilities and
\* the control thread use it only through what it offers.
THEOREM RunsRegistry == Spec => Proved!Spec
<1>1. Init => Proved!Init
  <2> SUFFICES ASSUME Init PROVE Proved!Init
    BY Zenon
  <2>1. /\ PublishPc = [c \in Calls |-> "idle"]
        /\ PublishOutcome = [c \in Calls |-> "none"]
        /\ PublishNative = [c \in Calls |-> 0]
    BY Zenon DEF Init, Registry!Init, PublishPc, PublishOutcome, PublishNative, Outside
  <2> QED
    BY <2>1, Zenon DEF Init, Registry!Init, Registry!NoEntries, Proved!Init, Proved!NoEntries
<1>2. Shape /\ [Next]_vars => [Proved!Next]_(Proved!vars)
  <2> SUFFICES ASSUME Shape, [Next]_vars PROVE [Proved!Next]_(Proved!vars)
    BY Zenon
  <2>0. ASSUME UNCHANGED <<pc, outcome, native, services>>
        PROVE  UNCHANGED <<PublishPc, PublishOutcome, PublishNative>>
    BY <2>0 DEF PublishPc, PublishOutcome, PublishNative, Outside
  <2>1. CASE Quiet
    BY <2>0, <2>1, Zenon DEF Quiet, registry, Proved!vars, Proved!registryVars,
       Proved!callVars, Proved!envVars, Proved!obsVars
  <2>2. CASE ClearPublishers
    <3>1. Registry!Clear /\ UNCHANGED services
      BY <2>2 DEF ClearPublishers
    <3>2. UNCHANGED <<PublishPc, PublishOutcome, PublishNative>>
      BY <2>0, <3>1, Zenon DEF Registry!Clear, Registry!callVars, Registry!obsVars
    <3>3. Proved!Clear
      BY <3>1, <3>2, Zenon DEF Registry!Clear, Registry!NoEntries, Registry!callVars,
         Registry!envVars, Registry!obsVars, Proved!Clear, Proved!NoEntries,
         Proved!callVars, Proved!envVars, Proved!obsVars
    <3> QED
      BY <3>3, Zenon DEF Proved!Next
  <2>3. CASE Surroundings
    <3>1. UNCHANGED <<PublishPc, PublishOutcome, PublishNative>>
      BY <2>0, <2>3, Zenon DEF Surroundings, Registry!MasterChanges, Registry!RosShutdown,
         Registry!Interrupt, Registry!callVars, Registry!obsVars
    <3> USE DEF Registry!callVars, Registry!registryVars, Registry!obsVars,
                Proved!callVars, Proved!registryVars, Proved!obsVars
    <3>2. CASE Registry!MasterChanges
      BY <3>1, <3>2, Zenon DEF Registry!MasterChanges, Proved!MasterChanges, Proved!Next
    <3>3. CASE Registry!RosShutdown
      BY <3>1, <3>3, Zenon DEF Registry!RosShutdown, Proved!RosShutdown, Proved!Next
    <3>4. ASSUME NEW c \in Calls \ services, Registry!Interrupt(c) PROVE Proved!Interrupt(c)
      BY <3>1, <3>4, SeenAt, Zenon DEF Registry!Interrupt, Proved!Interrupt
    <3> QED
      BY <2>3, <3>2, <3>3, <3>4, Zenon DEF Surroundings, Proved!Next
  <2>4. ASSUME NEW c \in Calls, NEW class, Decline(c, class)
        PROVE  UNCHANGED Proved!vars
    <3>1. \A d \in Calls : PublishPc'[d] = PublishPc[d]
      BY <2>4, Zenon DEF Decline, PublishPc, Outside, Shape
    <3> QED
      BY <2>4, <3>1, SeenNothing, Zenon DEF Decline
  <2>5. ASSUME NEW c \in Calls, Answer(c) PROVE UNCHANGED Proved!vars
    BY <2>0, <2>5, Zenon DEF Answer, registry, Proved!vars, Proved!registryVars,
       Proved!callVars, Proved!envVars, Proved!obsVars
  <2>6. ASSUME NEW c \in Calls, PublishStep(c) PROVE Proved!Next
    BY <2>6, SeenCallStep, Zenon DEF PublishStep, Proved!Next
  <2>7. ASSUME NEW c \in Calls, ServiceStep(c) PROVE UNCHANGED Proved!vars
    <3>1. c \in services /\ UNCHANGED services
      BY <2>7 DEF ServiceStep
    <3>2. \A d \in Calls \ {c} : /\ pc'[d] = pc[d] /\ outcome'[d] = outcome[d]
                                 /\ native'[d] = native[d]
      BY <2>7 DEF ServiceStep, Invoker!Effect, Invoker!Succeed, Invoker!Refuse,
         Invoker!GiveUp, Shape
    <3>3. \A d \in Calls \ services : PublishPc'[d] = PublishPc[d]
      BY <3>1, <3>2, Zenon DEF PublishPc, Outside
    <3> QED
      BY <2>7, <3>1, <3>2, <3>3, SeenNothing, Zenon DEF ServiceStep
  <2>8. ASSUME NEW c \in Calls, Admit(c) PROVE Proved!Next
    <3>1. c \notin services /\ Registry!Begin(c) /\ UNCHANGED services
      BY <2>8 DEF Admit
    <3>2. /\ pc[c] = "idle" /\ pc' = [pc EXCEPT ![c] = "start"]
          /\ UNCHANGED <<outcome, native>>
      BY <3>1 DEF Registry!Begin, Registry!Goto, Registry!obsVars
    <3>3. /\ PublishPc[c] = "idle" /\ PublishPc' = [PublishPc EXCEPT ![c] = "start"]
          /\ UNCHANGED <<PublishOutcome, PublishNative>>
      BY <3>1, <3>2, SeenAt, SeenGoto, SeenNative, Zenon
    <3>4. Proved!Begin(c)
      BY <3>1, <3>3, Zenon DEF Registry!Begin, Registry!registryVars, Registry!envVars,
         Registry!obsVars, Proved!Begin, Proved!Goto, Proved!registryVars,
         Proved!envVars, Proved!obsVars
    <3> QED
      BY <3>4, Zenon DEF Proved!Next
  <2>9. ASSUME NEW c \in Calls, AdmitService(c) PROVE UNCHANGED Proved!vars
    <3>1. \A d \in Calls \ services : PublishPc'[d] = PublishPc[d]
      BY <2>9, Zenon DEF AdmitService, PublishPc, Outside, Shape
    <3> QED
      BY <2>9, <3>1, SeenNothing, Zenon DEF AdmitService
  <2> QED
    BY <2>1, <2>2, <2>3, <2>4, <2>5, <2>6, <2>7, <2>8, <2>9, NextCases, Zenon
<1> QED
  BY <1>1, <1>2, ShapeHolds, PTL DEF Spec, Proved!Spec

\* The assumptions of the theorems about the registry hold here.
LEMMA Assumptions ==
  /\ Proved!CallsAssumption /\ Proved!TopicsAssumption
  /\ Proved!RequestsAssumption /\ Proved!PidsAssumption
  /\ Proved!InterruptsAssumption /\ Proved!MaxPublishersAssumption
<1>1. Proved!CallsAssumption /\ Proved!TopicsAssumption
  BY RegistryAssumption, Zenon DEF Proved!CallsAssumption, Proved!TopicsAssumption,
     IsFiniteSet, Proved!IsFiniteSet
<1>2. Proved!RequestsAssumption /\ Proved!MaxPublishersAssumption
  BY RegistryAssumption DEF Proved!RequestsAssumption, Proved!MaxPublishersAssumption
<1>3. Proved!PidsAssumption /\ Proved!InterruptsAssumption
  BY RegistryAssumption, Zenon DEF Proved!PidsAssumption, Proved!InterruptsAssumption
<1> QED
  BY <1>1, <1>2, <1>3, Zenon

\* The theorems about the registry say so.
LEMMA PublishHolds == Spec => []PublishInv
<1>1. Proved!Spec => []Proved!TypeOK
  BY Proved!TypeCorrect, Assumptions, Zenon
<1>2. Proved!Spec => []Proved!OutcomeInv
  BY Proved!OutcomeStructure, Assumptions, Zenon
<1>3. Proved!TypeOK /\ Proved!OutcomeInv => PublishInv
  <2> SUFFICES ASSUME Proved!TypeOK, Proved!OutcomeInv, NEW c \in Calls \ services
               PROVE  /\ outcome[c] \in Registry!Outcomes
                      /\ native[c] \in Nat
                      /\ pc[c] = "idle" \/ (pc[c] = "done" /\ outcome[c] = "none") =>
                           native[c] = 0
                      /\ pc[c] = "dispatch" => native[c] < request[c].count
                      /\ outcome[c] = "ok" => native[c] = request[c].count
                      /\ outcome[c] \notin {"none", "ok", "uncertain"} => native[c] = 0
    BY Zenon DEF PublishInv
  <2>1. /\ PublishOutcome[c] = outcome[c] /\ PublishNative[c] = native[c]
        /\ pc[c] = "idle" \/ (pc[c] = "done" /\ outcome[c] = "none") =>
             PublishPc[c] = "idle"
        /\ pc[c] = "dispatch" => PublishPc[c] = "dispatch"
    BY Zenon DEF PublishOutcome, PublishNative, PublishPc, Outside
  <2>2. PublishOutcome[c] \in Registry!Outcomes /\ PublishNative[c] \in Nat
    <3>1. PublishOutcome \in [Calls -> Proved!Outcomes] /\ PublishNative \in [Calls -> Nat]
      BY Zenon DEF Proved!TypeOK
    <3> QED
      BY <3>1, Zenon DEF Proved!Outcomes, Registry!Outcomes
  <2>3. /\ PublishPc[c] = "idle" => PublishNative[c] = 0
        /\ PublishPc[c] = "dispatch" => PublishNative[c] < request[c].count
        /\ PublishOutcome[c] = "ok" => PublishNative[c] = request[c].count
        /\ PublishOutcome[c] \notin {"none", "ok", "uncertain"} => PublishNative[c] = 0
    BY Zenon DEF Proved!OutcomeInv, Proved!OutcomeHonest, Proved!Before
  <2> QED
    BY <2>1, <2>2, <2>3, Zenon
<1> QED
  BY <1>1, <1>2, <1>3, RunsRegistry, PTL

\* The registry keeps its promises also while capabilities start and stop and
\* service calls run: its cache is sound and the calls that share an entry agree.
THEOREM RegistryKeepsItsPromises ==
  Spec => [](Registry!CacheSound /\ Registry!EntriesAgree)
<1>1. Proved!Spec => []Proved!CacheSound
  BY Proved!CacheIsSound, Assumptions, Zenon
<1>2. Proved!Spec => []Proved!EntriesAgree
  BY Proved!Agreement, Assumptions, Zenon
<1>3. Proved!CacheSound <=> Registry!CacheSound
  BY Zenon DEF Proved!CacheSound, Registry!CacheSound, Proved!NoLeftoverEntry,
         Registry!NoLeftoverEntry, Proved!CapacityRespected,
         Registry!CapacityRespected, Proved!Size, Registry!Size,
         Proved!Cardinality, Registry!Cardinality
<1>4. Proved!EntriesAgree <=> Registry!EntriesAgree
  BY Zenon DEF Proved!EntriesAgree, Registry!EntriesAgree
<1> QED
  BY <1>1, <1>2, <1>3, <1>4, RunsRegistry, PTL

-----------------------------------------------------------------------------
(* The refinement of NativeOperation.                                      *)

\* Every behaviour of the adapter is one of NativeOperation: the Runtime is told
\* "ok" only of an operation whose effects all happened, and anything but "ok"
\* and "uncertain" only of one that had and will have none.
THEOREM RepliesHonest == Spec => HonestReply
<1>1. Init => Abstract!Init
  <2> SUFFICES ASSUME Init PROVE Abstract!Init
    BY Zenon
  <2>1. Quota \in [Calls -> Nat \ {0}]
    BY RegistryAssumption, SMTT(30) DEF Init, Registry!Init, Quota
  <2> QED
    BY <2>1, Zenon DEF Init, Registry!Init, Abstract!Init
<1>2. Shape /\ PublishInv /\ ReplyInv /\ [Next]_vars => [Abstract!Next]_(Abstract!vars)
  BY HonestStep, Zenon
<1> QED
  BY <1>1, <1>2, ShapeHolds, PublishHolds, ReplyStructure, PTL
     DEF Spec, HonestReply, Abstract!Spec
=============================================================================
