---------------------------- MODULE NativeContext ----------------------------
(***************************************************************************)
(* What tools_adapter.cpp checks of the documents the Runtime hands to the *)
(* adapter: the instance spec with its native context, the capability      *)
(* contracts and grants, and the context and the input of an operation.    *)
(*                                                                         *)
(* A text is the sequence of its parts between dots, so <<"">> is the      *)
(* empty text and <<"a", "">> is "a."; NoText is a JSON value that is no   *)
(* string, and an environment variable that is not set.  What the patterns *)
(* accept has no control character.  A function from names to texts stands *)
(* for a JSON object or a map of attributes.                               *)
(***************************************************************************)
EXTENDS Integers, FiniteSets, Sequences

CONSTANTS
  MasterUris,             \* masterUriPattern with a port in 1..65535, within its length
  IpAddresses,            \* what inet_pton accepts, for IPv4 or IPv6
  Labels,                 \* 1 to 63 of [A-Za-z0-9_-], alphanumeric at both ends
  ScopeKeys,              \* canonicalScopeKeyPattern
  MaxConfigurationBytes,  \* kMaximumConfigurationBytes
  MaxIdentityParts,       \* kMaximumNetworkIdentityBytes, counted in parts
  Compiled,               \* generated_contract.hpp: the contract of a capability
  Limits                  \* the bounds of the fields of an operation's input

Empty == <<"">>
NoText == <<>>

Capabilities == DOMAIN Compiled

-----------------------------------------------------------------------------
(* NativeContext::FromInstanceSpec.                                        *)

validateIpAddress(ip) == ip = Empty \/ ip \in IpAddresses

\* A final dot is dropped; the loop then stops before a last label that is
\* empty, so that "a.." passes as "a." does, and "." does not.
validateHostname(hostname) ==
  LET drop(n) == IF n > 1 /\ hostname[n] = "" THEN n - 1 ELSE n
      examined == drop(drop(Len(hostname)))
  IN hostname = Empty \/ \A i \in 1..examined : hostname[i] \in Labels

\* The text of an attribute, empty when there is none.
attribute(attributes, name) ==
  IF name \in DOMAIN attributes THEN attributes[name] ELSE Empty

\* The attributes of a scope or a subject name this network identity, and
\* nothing else.
identifies(attributes, context) ==
  /\ "master-uri" \in DOMAIN attributes
  /\ attributes["master-uri"] = context.ros_master_uri
  /\ attribute(attributes, "ip") = context.ros_ip
  /\ attribute(attributes, "hostname") = context.ros_hostname
  /\ Cardinality(DOMAIN attributes) =
       1 + (IF context.ros_ip = Empty THEN 0 ELSE 1)
         + (IF context.ros_hostname = Empty THEN 0 ELSE 1)

nativeContext(spec) ==
  [ros_master_uri |-> spec.value["rosMasterUri"],
   ros_ip |-> spec.value["rosIp"],
   ros_hostname |-> spec.value["rosHostname"],
   scope_key |-> spec.scope.key]

\* FromInstanceSpec returns nativeContext(spec); otherwise it throws.
validInstanceSpec(spec) ==
  /\ spec.schema /\ spec.size <= MaxConfigurationBytes /\ spec.secrets = 0
  /\ DOMAIN spec.value = {"rosMasterUri", "rosIp", "rosHostname"}
  /\ \A name \in DOMAIN spec.value : spec.value[name] # NoText
  /\ LET context == nativeContext(spec) IN
     /\ context.ros_master_uri \in MasterUris
     /\ Len(context.ros_ip) <= MaxIdentityParts /\ Len(context.ros_hostname) <= MaxIdentityParts
     /\ context.ros_ip = Empty \/ context.ros_hostname = Empty
     /\ validateIpAddress(context.ros_ip)
     /\ validateHostname(context.ros_hostname)
     /\ spec.scope.kind = "ros1-native-context"
     /\ context.scope_key \in ScopeKeys
     /\ identifies(spec.scope.attributes, context)

\* Mutant: a variable whose value is empty keeps what it inherited.
setEnvironmentKeeps(environment, name, value) ==
  [environment EXCEPT ![name] = IF value = Empty THEN @ ELSE value]

\* setenv, or unsetenv for an empty value.
setEnvironment(environment, name, value) ==
  [environment EXCEPT ![name] = IF value = Empty THEN NoText ELSE value]

ApplyEnvironment(environment, context) ==
  setEnvironment(
    setEnvironment(
      setEnvironment(environment, "ROS_MASTER_URI", context.ros_master_uri),
      "ROS_IP", context.ros_ip),
    "ROS_HOSTNAME", context.ros_hostname)

\* ros::init reads the environment once; a host name goes before an address.
rosIdentity(environment) ==
  [master |-> environment["ROS_MASTER_URI"],
   host |-> IF environment["ROS_HOSTNAME"] # NoText THEN environment["ROS_HOSTNAME"]
            ELSE environment["ROS_IP"]]

-----------------------------------------------------------------------------
(* Contracts, grants and the context of an operation.                      *)

validateExpectedContract(contract, capability) == contract = Compiled[capability]

\* Exactly two contracts, each of a known capability, not bound before, and
\* equal to the compiled one.
bindCapabilities(contracts) ==
  /\ Len(contracts) = 2
  /\ \A i \in DOMAIN contracts :
       /\ contracts[i].capability \in Capabilities
       /\ \A j \in 1..(i - 1) : contracts[j].capability # contracts[i].capability
       /\ validateExpectedContract(contracts[i], contracts[i].capability)

validateCapabilityGrant(grant, capability) ==
  /\ grant.contract = Compiled[capability]
  /\ grant.endpoints = <<Compiled[capability].endpoint>>
  /\ ~grant.configuration

validateInvocationContext(context, capability) ==
  /\ context.contract = Compiled[capability]
  /\ context.deadline > 0

validateSubject(context, native_context) ==
  /\ context.subject.kind = "ros1-native-context"
  /\ context.subject.key = native_context.scope_key
  /\ identifies(context.subject.attributes, native_context)

-----------------------------------------------------------------------------
(* The input of an operation.  A rate is in tenths of a hertz.             *)

\* parseInput: the class of its error, or "none".
parseInput(input) ==
  CASE ~input.schema -> "permanent"
    [] input.size > Limits.request_bytes -> "resource-exhausted"
    [] ~input.json -> "permanent"
    [] OTHER -> "none"

\* The fields of a publish, and the time the whole of it takes.
validPublish(fields) ==
  /\ fields.named           \* known members, a graph name, a type, an object
  /\ fields.count \in 1..Limits.publish_count
  /\ fields.rate \in Limits.rate[1]..Limits.rate[2]
  /\ 10 * (fields.count - 1) <= Limits.duration * fields.rate
  /\ fields.queue \in 1..Limits.queue
  /\ fields.wait \in 0..Limits.wait

\* The fields of a service call.
validCall(fields) ==
  /\ fields.named
  /\ fields.wait \in 0..Limits.wait
  /\ fields.timeout \in 1..Limits.wait
=============================================================================
