--------------------------- MODULE MCToolsAdapter ----------------------------
(* Instances of ToolsAdapter for TLC. *)
EXTENDS ToolsAdapter, TLC

CONSTANTS c1, c2

MCCalls2 == {c1, c2}
Symmetry2 == Permutations(MCCalls2)
MCTopics == {"t1"}
MCRequests == {[topic |-> "t1", config |-> "a", count |-> 1]}

-----------------------------------------------------------------------------
Uri == <<"http://station:11311">>
Host == <<"uav1", "local">>
Address == <<"10", "0", "0", "5">>

MCMasterUris == {Uri, <<"http://other:11311">>}
MCIpAddresses == {Address}
MCLabels == {"uav1", "local"}
MCScopeKeys == {<<"sha256:1">>, <<"sha256:2">>}

MCCompiled ==
  [c \in {"publish", "service"} |->
     [capability |-> c, endpoint |-> c, digest |-> "compiled"]]

MCLimits ==
  [request_bytes |-> 2, publish_count |-> 10000, rate |-> <<1, 10000>>,
   duration |-> 240, queue |-> 10000, wait |-> 300000]

\* The process may inherit a host name from the shell that started it.
MCEnvironments ==
  {[ROS_MASTER_URI |-> NoText, ROS_IP |-> NoText, ROS_HOSTNAME |-> name] :
     name \in {NoText, Host}}

\* The attributes the Runtime derives from a configuration, with a variation.
Named(ip, hostname) ==
  LET names == {"master-uri"} \cup (IF ip = Empty THEN {} ELSE {"ip"})
                              \cup (IF hostname = Empty THEN {} ELSE {"hostname"})
  IN [n \in names |-> CASE n = "master-uri" -> Uri
                        [] n = "ip" -> ip
                        [] n = "hostname" -> hostname]

Document(ip, hostname, attributes) ==
  [schema |-> TRUE, size |-> 1, secrets |-> 0,
   value |-> [rosMasterUri |-> Uri, rosIp |-> ip, rosHostname |-> hostname],
   scope |-> [kind |-> "ros1-native-context", key |-> <<"sha256:1">>,
              attributes |-> attributes]]

Good == Document(Address, Empty, Named(Address, Empty))

\* The process starts with one native context, or not at all.
MCInitialSpecs ==
  {Good,
   [Good EXCEPT !.schema = FALSE],
   [Good EXCEPT !.size = 2],
   [Good EXCEPT !.secrets = 1],
   [Good EXCEPT !.value = [rosMasterUri |-> Uri, rosIp |-> Address]],
   [Good EXCEPT !.value.rosHostname = NoText],
   [Good EXCEPT !.value.rosMasterUri = <<"station:11311">>],
   [Good EXCEPT !.value.rosMasterUri = <<"http://other:11311">>],
   [Good EXCEPT !.scope.kind = "ros1"],
   [Good EXCEPT !.scope.key = <<"sha1:1">>],
   Document(Address, Host, Named(Address, Host)),
   Document(<<"uav1">>, Empty, Named(<<"uav1">>, Empty)),
   Document(Empty, <<"", "">>, Named(Empty, <<"", "">>)),
   Document(Empty, <<"uav1", "", "local">>, Named(Empty, <<"uav1", "", "local">>)),
   Document(Address, Empty, Named(Empty, Host)),
   Document(Address, Empty, Named(Address, Host))}

\* Later it may be given a context of another process.
MCSpecs ==
  MCInitialSpecs \cup
  {[Good EXCEPT !.scope.key = <<"sha256:2">>],
   Document(Empty, Host, Named(Empty, Host)),
   Document(Empty, Host \o <<"">>, Named(Empty, Host \o <<"">>)),
   Document(Empty, Host \o Host \o <<"">>, Named(Empty, Host \o Host \o <<"">>)),
   Document(Empty, Empty, Named(Empty, Empty))}

MCContractLists ==
  LET publish == MCCompiled["publish"]
      service == MCCompiled["service"]
  IN {<<publish, service>>, <<publish>>, <<publish, publish>>,
      <<publish, [service EXCEPT !.digest = "older"]>>,
      <<publish, [service EXCEPT !.capability = "bag"]>>}

MCGrants ==
  {[contract |-> MCCompiled[c], endpoints |-> e, configuration |-> f] :
     c \in {"publish", "service"}, e \in {<<"publish">>, <<"service">>}, f \in BOOLEAN}

Subject(key, attributes) ==
  [kind |-> "ros1-native-context", key |-> key, attributes |-> attributes]

MCWorkContexts ==
  LET own == Subject(<<"sha256:1">>, Named(Address, Empty))
      others == {Subject(<<"sha256:1">>, Named(Empty, Host)),
                 Subject(<<"sha256:1">>, Named(Address, Host)),
                 Subject(<<"sha256:2">>, Named(Address, Empty))}
      context(c, d, s) == [contract |-> MCCompiled[c], deadline |-> d, subject |-> s]
  IN {context("publish", 5, own), context("service", 5, own),
      context("publish", 0, own)}
     \cup {context("publish", 5, s) : s \in others}

MCInputs ==
  LET one == [named |-> TRUE, count |-> 1, rate |-> 1, queue |-> 1, wait |-> 0,
              timeout |-> 1]
      input == [schema |-> TRUE, size |-> 1, json |-> TRUE, fields |-> one]
  IN {input,
      [input EXCEPT !.schema = FALSE],
      [input EXCEPT !.size = 3],
      [input EXCEPT !.json = FALSE],
      [input EXCEPT !.fields.named = FALSE],
      [input EXCEPT !.fields.wait = 300001],
      [input EXCEPT !.fields.count = 26, !.fields.timeout = 0]}
==============================================================================
