---------------------------- MODULE ToolsAdapter ----------------------------
(***************************************************************************)
(* ToolsAdapter (tools_adapter.cpp): the lifecycle of the two capabilities *)
(* and their operations, Publish around the publisher registry and         *)
(* CallService around the service invoker.  Of the invoker only its promise*)
(* is used, NativeOperation, which ServiceCall implements.                 *)
(*                                                                         *)
(* Dispatch workers of the Adapter Runtime run the operations.  Its        *)
(* control thread applies and clears the instance spec and starts and      *)
(* stops the capabilities, one callback at a time.  Nothing in the code    *)
(* makes a stop wait for the calls that are running, so the model does not *)
(* assume it.                                                              *)
(*                                                                         *)
(* Before that, main (main.cpp) starts the process for one native context: *)
(* environment, ros::init, capabilities, handlers, Runtime.  How it ends   *)
(* is in MasterMonitor.                                                    *)
(***************************************************************************)
EXTENDS NativeContext

CONSTANTS
  Calls, Topics, Requests, Pids, Interrupts, MaxPublishers, None,
  \* what the process may be given: environments, instance specs (the one it
  \* starts with, and later ones), lists of contracts, grants, contexts of
  \* operations, and their inputs
  Environments, InitialSpecs, Specs, ContractLists, Grants, WorkContexts, Inputs

\* What the registry assumes of its constants.
ASSUME RegistryAssumption ==
  /\ IsFiniteSet(Calls) /\ None \notin Calls
  /\ IsFiniteSet(Topics)
  /\ \A r \in Requests : r.topic \in Topics /\ r.count \in Nat \ {0}
  /\ Pids \subseteq Nat \ {0}
  /\ Interrupts \subseteq {"cancelled", "deadline"}
  /\ MaxPublishers \in Nat \ {0}

\* masterUriPattern matches no empty text; a process has the three variables,
\* set or not; a subject has finitely many attributes.
ASSUME ContextAssumption ==
  /\ Empty \notin MasterUris
  /\ \A e \in Environments :
       e = [name \in {"ROS_MASTER_URI", "ROS_IP", "ROS_HOSTNAME"} |-> e[name]]
  /\ \A context \in WorkContexts : IsFiniteSet(DOMAIN context.subject.attributes)

VARIABLES
  entries, active_calls, committed, publisher, master_generation, mutex,
  pc, request, current, selected, outcome, probe,
  master, ros_ok, interrupt, native, late,
  main,               \* how far main() is: "bootstrap" ... "running", "exited"
  environment,        \* of the process
  identity,           \* what roscpp took from it
  native_context,     \* native_context_
  instance_spec_applied, publish_enabled, service_enabled,
  control,            \* what is left of the running callback
  services,           \* the calls that are for CallService
  reply,              \* class of the OperationResult of a call, or "none"
  \* observations
  overtaken,          \* the calls that ran when publish was last disabled
  foreign             \* the calls admitted for another network identity than roscpp's

registry == <<entries, active_calls, committed, publisher, master_generation,
              mutex, pc, request, current, selected, outcome, probe, master,
              ros_ok, interrupt, native, late>>
capabilities == <<instance_spec_applied, publish_enabled, service_enabled,
                  control, overtaken>>
process == <<main, environment, identity, native_context>>
vars == <<registry, process, capabilities, services, reply, foreign>>

Registry == INSTANCE PublisherRegistry

Classes == Registry!Outcomes \cup {"rejected"}

\* A service call has one native effect, a publish as many as messages.
Quota == [c \in Calls |-> IF c \in services THEN 1 ELSE request[c].count]

Invoker == INSTANCE NativeOperation WITH
  Failures <- Registry!Outcomes \ {"none", "ok", "uncertain"},
  result <- outcome,
  effects <- native,
  quota <- Quota

Running == {c \in Calls \ services : pc[c] \notin {"idle", "done"}}

NoContext == [ros_master_uri |-> NoText, ros_ip |-> NoText, ros_hostname |-> NoText,
              scope_key |-> NoText]

Init ==
  /\ Registry!Init
  /\ main = "bootstrap"
  /\ environment \in Environments
  /\ identity = [master |-> NoText, host |-> NoText]
  /\ native_context = NoContext
  /\ instance_spec_applied = FALSE
  /\ publish_enabled = FALSE
  /\ service_enabled = FALSE
  /\ control = "idle"
  /\ services \in SUBSET Calls
  /\ reply = [c \in Calls |-> "none"]
  /\ overtaken = {}
  /\ foreign = {}

-----------------------------------------------------------------------------
(* main: the start of the process.  It is alone until the Runtime starts.  *)

\* An exception: the process ends with 1.
Abort == main' = "exited" /\ UNCHANGED <<environment, identity, native_context>>

\* The initial spec of the bootstrap file, and the environment it asks for.
Bootstrap ==
  /\ main = "bootstrap"
  /\ \E spec \in InitialSpecs :
       IF validInstanceSpec(spec)
       THEN /\ main' = "init"
            /\ native_context' = nativeContext(spec)
            /\ environment' = ApplyEnvironment(environment, nativeContext(spec))
            /\ UNCHANGED identity
       ELSE Abort

\* ros::init.
InitRos ==
  /\ main = "init"
  /\ main' = "bind"
  /\ identity' = rosIdentity(environment)
  /\ UNCHANGED <<environment, native_context>>

\* BindCapabilities, whose callbacks the Runtime calls below.
BindCapabilities ==
  /\ main = "bind"
  /\ \E contracts \in ContractLists :
       IF bindCapabilities(contracts)
       THEN main' = "start" /\ UNCHANGED <<environment, identity, native_context>>
       ELSE Abort

\* The signal handlers, and Client::Start, which may fail.
StartRuntime ==
  /\ main = "start"
  /\ \/ main' = "running" /\ UNCHANGED <<environment, identity, native_context>>
     \/ Abort

\* A signal before the handlers are there.
Terminated == main \in {"bootstrap", "init", "bind", "start"} /\ Abort

Start ==
  /\ Bootstrap \/ InitRos \/ BindCapabilities \/ StartRuntime \/ Terminated
  /\ UNCHANGED <<registry, capabilities, services, reply, foreign>>

-----------------------------------------------------------------------------
(* The capability callbacks.                                               *)

\* The contexts of the specs that are well formed, and the capabilities that
\* a grant is for.
ValidContexts == {nativeContext(spec) : spec \in {s \in Specs : validInstanceSpec(s)}}
Granted == {c \in {"publish", "service"} :
              \E grant \in Grants : validateCapabilityGrant(grant, c)}

\* A well-formed spec is for the native context of the process.
matches == native_context \in ValidContexts

\* ApplyInstanceSpec; with any other spec it refuses and changes nothing.
ApplyInstanceSpec ==
  /\ control = "idle"
  /\ ~instance_spec_applied
  /\ matches
  /\ instance_spec_applied' = TRUE
  /\ UNCHANGED <<registry, publish_enabled, service_enabled, control,
                 overtaken, services, reply>>

\* A start that succeeds: the spec is applied, the context and the grant
\* match, and the capability is not active.  Every other start changes nothing.
StartPublishCapability ==
  /\ control = "idle"
  /\ instance_spec_applied
  /\ ~publish_enabled
  /\ matches
  /\ "publish" \in Granted
  /\ publish_enabled' = TRUE
  /\ UNCHANGED <<registry, instance_spec_applied, service_enabled, control,
                 overtaken, services, reply>>

StartServiceCapability ==
  /\ control = "idle"
  /\ instance_spec_applied
  /\ ~service_enabled
  /\ matches
  /\ "service" \in Granted
  /\ service_enabled' = TRUE
  /\ UNCHANGED <<registry, instance_spec_applied, publish_enabled, control,
                 overtaken, services, reply>>

\* The first half of StopPublishCapability, alone or as the first call of
\* ClearInstanceSpec.
StopPublishCapability ==
  /\ control = "idle"
  /\ publish_enabled' = FALSE
  /\ overtaken' = Running
  /\ control' \in {"clear", "clear-spec"}
  /\ UNCHANGED <<registry, instance_spec_applied, service_enabled, services,
                 reply>>

\* Its second half, publishers_.clear().
ClearPublishers ==
  /\ control \in {"clear", "clear-spec"}
  /\ Registry!Clear
  /\ control' = IF control = "clear" THEN "idle" ELSE "stop-service"
  /\ UNCHANGED <<instance_spec_applied, publish_enabled, service_enabled,
                 overtaken, services, reply>>

StopServiceCapability ==
  /\ control \in {"idle", "stop-service"}
  /\ service_enabled' = FALSE
  /\ control' = IF control = "idle" THEN "idle" ELSE "forget-spec"
  /\ UNCHANGED <<registry, instance_spec_applied, publish_enabled, overtaken,
                 services, reply>>

\* The last store of ClearInstanceSpec.
ForgetSpec ==
  /\ control = "forget-spec"
  /\ instance_spec_applied' = FALSE
  /\ control' = "idle"
  /\ UNCHANGED <<registry, publish_enabled, service_enabled, overtaken, services,
                 reply>>

-----------------------------------------------------------------------------
(* ToolsAdapter::Publish and ToolsAdapter::CallService.                    *)

Enabled(c) == IF c \in services THEN service_enabled ELSE publish_enabled

\* The call ends before it has reached the registry or the invoker.
Decline(c, class) ==
  /\ pc[c] = "idle"
  /\ pc' = [pc EXCEPT ![c] = "done"]
  /\ reply' = [reply EXCEPT ![c] = class]
  /\ UNCHANGED <<entries, active_calls, committed, publisher,
                 master_generation, mutex, request, current, selected, outcome,
                 probe, master, ros_ok, interrupt, native, late,
                 capabilities, services>>

\* The capability is off.
Reject(c) == ~Enabled(c) /\ Decline(c, "rejected")

Capability(c) == IF c \in services THEN "service" ELSE "publish"

\* The checks an operation makes before it has an effect: the class of the
\* error, or "none".  The count of a publish is the one of its request.
checked(c, context, input) ==
  CASE ~validateInvocationContext(context, Capability(c)) -> "permanent"
    [] ~validateSubject(context, native_context) -> "permanent"
    [] parseInput(input) # "none" -> parseInput(input)
    [] c \in services /\ ~validCall(input.fields) -> "permanent"
    [] c \notin services /\ ~validPublish(input.fields) -> "permanent"
    [] OTHER -> "none"

\* The context, the subject, the input or one of its fields is refused, or an
\* exception of another type is thrown, which failure() calls transient.
Refuse(c) ==
  /\ pc[c] = "idle" /\ Enabled(c)
  /\ LET classes == {checked(c, context, input) :
                        context \in WorkContexts, input \in Inputs}
     IN \E class \in (classes \ {"none"}) \cup {"transient"} : Decline(c, class)

\* The host a subject names, NoText when it names none.
namedHost(attributes) ==
  IF "hostname" \in DOMAIN attributes THEN attributes["hostname"]
  ELSE IF "ip" \in DOMAIN attributes THEN attributes["ip"]
  ELSE NoText

\* A call that passes its checks goes on.
Pass(c) ==
  \E context \in WorkContexts, input \in Inputs :
    /\ checked(c, context, input) = "none"
    /\ c \notin services => input.fields.count = request[c].count
    /\ foreign' = IF /\ identity.master = context.subject.attributes["master-uri"]
                     /\ identity.host = namedHost(context.subject.attributes)
                  THEN foreign
                  ELSE foreign \cup {c}

\* The flag was on when it was read; it is not read again.
Admit(c) ==
  /\ c \notin services /\ publish_enabled
  /\ Registry!Begin(c)
  /\ Pass(c)
  /\ UNCHANGED <<capabilities, services, reply>>

PublishStep(c) ==
  /\ c \notin services
  /\ Registry!CallStep(c)
  /\ UNCHANGED <<capabilities, services, reply>>

\* The same for a service call.
AdmitService(c) ==
  /\ c \in services /\ service_enabled /\ pc[c] = "idle"
  /\ Pass(c)
  /\ pc' = [pc EXCEPT ![c] = "service"]
  /\ UNCHANGED <<entries, active_calls, committed, publisher,
                 master_generation, mutex, request, current, selected, outcome,
                 probe, master, ros_ok, interrupt, native, late,
                 capabilities, services, reply>>

\* services_.call(): the request may be executed while it runs, and also after
\* it gave up; it returns or throws.
ServiceStep(c) ==
  /\ c \in services
  /\ UNCHANGED <<entries, active_calls, committed, publisher,
                 master_generation, mutex, request, current, selected, probe,
                 master, ros_ok, interrupt, late, capabilities, services, reply>>
  /\ \/ /\ pc[c] = "service" \/ outcome[c] = "uncertain"
        /\ Invoker!Effect(c)
        /\ UNCHANGED pc
     \/ /\ pc[c] = "service"
        /\ Invoker!Succeed(c) \/ Invoker!Refuse(c) \/ Invoker!GiveUp(c)
        /\ pc' = [pc EXCEPT ![c] = "done"]

\* Mutant: a result that cannot be encoded is an internal error.
AnswerTransient(c) ==
  /\ pc[c] = "done" /\ outcome[c] # "none" /\ reply[c] = "none"
  /\ \E class \in (IF outcome[c] = "ok" THEN {"ok", "transient"} ELSE {outcome[c]}) :
       reply' = [reply EXCEPT ![c] = class]
  /\ UNCHANGED <<registry, capabilities, services>>

\* publish() or call() returned or threw: success() and failure().  A result
\* that does not encode or is too large is uncertain, for its effect is out.
Answer(c) ==
  /\ pc[c] = "done" /\ outcome[c] # "none" /\ reply[c] = "none"
  /\ \E class \in (IF outcome[c] = "ok" THEN {"ok", "uncertain"} ELSE {outcome[c]}) :
       reply' = [reply EXCEPT ![c] = class]
  /\ UNCHANGED <<registry, capabilities, services>>

-----------------------------------------------------------------------------
\* The master, roscpp and the Runtime's interruptions; what one does to a
\* service call is part of the invoker's promise.  The main thread's
\* ProbeMasterBinding is in MasterMonitor.
Surroundings ==
  /\ \/ Registry!MasterChanges
     \/ Registry!RosShutdown
     \/ \E c \in Calls \ services : Registry!Interrupt(c)
  /\ UNCHANGED <<capabilities, services, reply>>

Control ==
  \/ ApplyInstanceSpec \/ StartPublishCapability \/ StartServiceCapability
  \/ StopPublishCapability \/ ClearPublishers \/ StopServiceCapability
  \/ ForgetSpec

Operation(c) ==
  \/ Reject(c) \/ Refuse(c) \/ Answer(c) \/ PublishStep(c) \/ ServiceStep(c)

\* What happens once the Runtime runs.
Serve ==
  /\ main = "running"
  /\ UNCHANGED process
  /\ \/ /\ Control \/ Surroundings \/ \E c \in Calls : Operation(c)
        /\ UNCHANGED foreign
     \/ \E c \in Calls : Admit(c) \/ AdmitService(c)

Next == Start \/ Serve

Spec == Init /\ [][Next]_vars

-----------------------------------------------------------------------------
(* Properties.                                                             *)

\* The network identity roscpp was initialised with, whatever environment the
\* process inherited, is the one every operation that is let through is for.
ServesItsContext == foreign = {}

\* "Topic publishers and service-call helpers exist only while their capability
\* is enabled.  Disabling a capability [...] tears down its native resources"
\* (README.md): once a stop has returned, and even once every publish that it
\* overtook has ended, no publisher is left.  Nothing drains the calls that
\* are running: StopPublishCapability clears the registry under them, and one
\* of them may advertise afterwards.
StoppedIsTornDown ==
  ~publish_enabled /\ control = "idle" /\ Running = {} =>
    \A t \in Topics : entries[t] = None

\* How far StoppedIsTornDown fails: what is left was advertised by the calls
\* that ran when the flag was cleared, by no later one.
StoppedResidue ==
  ~publish_enabled /\ control = "idle" =>
    \A t \in Topics : entries[t] # None => entries[t] \in overtaken

\* What the Runtime is told about a publish or a service call keeps the promise
\* of NativeOperation, also when its capability is stopped meanwhile.
Abstract == INSTANCE NativeOperation WITH
  Failures <- Classes \ {"none", "ok", "uncertain"},
  result <- reply,
  effects <- native,
  quota <- Quota

HonestReply == Abstract!Spec
=============================================================================
