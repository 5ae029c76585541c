-------------------------- MODULE MCComputations --------------------------
\* Every input of a small shape.
EXTENDS Computations

Fields ==
  [scoreName : {Unset, "n1"}, sourceType : {Unset, "Prometheus", "None"},
   sourceHost : {Unset, "h1"}, scoringHost : {Unset, "h2"},
   sourceQuery : {Unset, "q1"}, sourceRange : {0, 1}, interval : {-1, 0, 1}]

\* What an API serves: fields of its own where the spec may have others.
Served ==
  [scoreName : {Unset, "n2"}, sourceType : {Unset, "Prometheus"},
   sourceHost : {Unset, "h3"}, scoringHost : {Unset, "h4"},
   sourceQuery : {"q2"}, sourceRange : {0, 2}, interval : {0, 2}]

MCScorers ==
  [mode : {"Full", "None"}, configHost : {"h5"}, spec : Fields,
   synced : Served \cup {NoConfig}, health : {"Active"},
   sourceAuth : {"none", "broken"}, scoringAuth : {"none"}]

\* Two nodes, at most two pods; the amounts are small multiples of a unit.
MCNodeLists ==
  {<<[name |-> "n1", unschedulable |-> u, alloc |-> x],
     [name |-> "n2", unschedulable |-> FALSE, alloc |-> y]>> :
     u \in BOOLEAN, x \in {Absent, 0, 3, 5}, y \in {Absent, 2}}

PodShapes ==
  [node : {"n1", "n2"}, over : BOOLEAN, containers : {<<>>, <<1>>, <<1, 2>>},
   inits : {<<>>, <<2>>, <<1, 4>>}, overhead : {0, 1}]

MCPodLists == {<<>>} \cup {<<p>> : p \in PodShapes}
                     \cup {<<p, q>> : p \in PodShapes, q \in PodShapes}

\* Integers of five bits, and of three in place of the smaller ones.
MCTypes == [signed : BOOLEAN, limit : {4, Wide}]

MCReadings ==
  [go : {"int"}, value : Signed(Wide)]
  \cup [go : {"uint"}, value : Unsigned(Wide)]
  \cup [go : {"float"}, value : -35..67] \cup [go : {"bool"}, value : BOOLEAN]
  \cup [go : {"nan", "nil", "text"}, value : {""}]

\* A storage of any type, and a volume and a claim that users may have made.
MCStorages ==
  [type : {"PVC", "S3Bucket", "HostPath"}, size : {1, 2, Missing, Unparsable},
   bucket : {"b1", Missing}, options : {<<>>, <<"region">>}]

Volumes ==
  [driver : {"s3", Missing}, bucket : {"b1", "b2"},
   modes : {<<"Once">>, <<"Many">>}, capacity : {1, 2}, class : {"", "c"},
   options : {<<>>}, claim : {Missing} \cup
     [namespace : {"n1", "n2"}, bound : BOOLEAN]]

Claims ==
  [modes : {<<"Once">>, <<"Many">>}, class : {"", Missing},
   volume : {"pv", Missing}, request : {1, 2}]

MCStores == [volume : Volumes \cup {Missing}, claim : Claims \cup {Missing}]

\* Two nodes of up to two addresses.
AddressesOf(node) ==
  {<<>>, <<[internal |-> TRUE, address |-> node]>>,
   <<[internal |-> FALSE, address |-> "ext"],
     [internal |-> TRUE, address |-> node]>>}

MCEndpoints ==
  [listener : [type : {"LoadBalancer", "NodePort"}, ip : {"ip", Missing}],
   nodes : {<<m, n>> : m \in AddressesOf("a1"), n \in AddressesOf("a2")},
   ingress : {<<>>} \cup
     {<<i>> : i \in [ip : {"i1", Missing}, hostname : {"h1", Missing}]}]

\* Parts of at most two values; what is stored has no unset ones.
Parts(values) == {<<>>} \cup {<<v>> : v \in values} \cup (values \X values)
Objects(values) ==
  [main : Parts(values), extra : {<<v>> : v \in values}, labels : {<<>>, <<1>>}]

MCManifests ==
  [kind : {"Service", "Job", "RoleBinding"}, skip : BOOLEAN,
   desired : Objects(0..2), found : Objects(1..2) \cup {Missing}]

MCRounds == [listed : BOOLEAN, deleted : BOOLEAN, scores : 1..2]

\* The hub registers two clusters, and is interrupted by failing calls.
MCRegistrations ==
  [cluster : {"c1", "c2"}, detached : {FALSE}, failing : 1..AllCreated]
  \cup [cluster : {"c1", "c2"}, detached : {TRUE}, failing : {AllCreated}]

=============================================================================
