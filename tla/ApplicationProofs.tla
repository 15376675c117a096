--------------------------- MODULE ApplicationProofs ---------------------------
(***************************************************************************)
(* Theorems about those who use the routes, for every scenario and any     *)
(* number of nodes: the consumers of Delivery, over the promise of         *)
(* Forwarding, and the publish-subscribe application.                      *)
(***************************************************************************)
EXTENDS Delivery, SimplePubSub, TLAPS

-----------------------------------------------------------------------------
(* SimplePubSub.                                                           *)

\* What is asked for is still missing, was announced, and is another node's.
MissingAsked ==
  \A n \in Node :
    /\ requested[n] \subseteq pending[n]
    /\ pending[n] \cap satisfied[n] = {}
    /\ \A p \in pending[n] \cup satisfied[n] : p \in Announced /\ p[1] # n

SyncInv == TypeOK /\ MissingAsked

LEMMA SyncInit == Init => SyncInv
  BY SimplePubSubAssumption DEF Init, SyncInv, TypeOK, MissingAsked

LEMMA SyncStep ==
  ASSUME SyncInv, [Next]_vars
  PROVE  SyncInv' /\ \A n \in Node : satisfied[n] \subseteq satisfied'[n]
<1> USE DEF SyncInv, TypeOK, MissingAsked
<1>1. ASSUME NEW n \in Node, AddNewNamePrefix(n)
      PROVE  SyncInv' /\ UNCHANGED satisfied
  <2>1. /\ round' \in [Node -> Nat] /\ \A k \in Node : round'[k] <= Rounds[k]
        /\ \A k \in Node : round[k] <= round'[k]
    <3>1. /\ round[n] \in Nat /\ Rounds[n] \in Nat /\ round[n] < Rounds[n]
          /\ round' = [round EXCEPT ![n] = round[n] + 1]
      BY <1>1, SimplePubSubAssumption DEF AddNewNamePrefix
    <3>2. round[n] + 1 \in Nat /\ round[n] + 1 <= Rounds[n]
      BY <3>1
    <3>3. \A k \in Node : round'[k] = IF k = n THEN round[n] + 1 ELSE round[k]
      BY <3>1
    <3>4. round' \in [Node -> Nat] /\ \A k \in Node : round'[k] <= Rounds[k]
      BY <3>1, <3>2, <3>3
    <3> QED  BY <3>1, <3>3, <3>4
  <2>2. Announced \subseteq Announced'
    <3> SUFFICES ASSUME NEW p \in Prefixes, p[2] <= round[p[1]]
                 PROVE  p[2] <= round'[p[1]]
      BY DEF Announced
    <3>1. p[1] \in Node /\ p[2] \in Nat
      BY SimplePubSubAssumption DEF Prefixes
    <3> QED  BY <2>1, <3>1
  <2> QED  BY <1>1, <2>1, <2>2 DEF AddNewNamePrefix
<1>2. ASSUME UNCHANGED round
      PROVE  Announced' = Announced
  BY <1>2 DEF Announced
<1>3. ASSUME NEW n \in Node, NEW p \in Prefixes, OnSyncNotify(n, p)
      PROVE  SyncInv' /\ UNCHANGED satisfied
  BY <1>2, <1>3 DEF OnSyncNotify
<1>4. ASSUME NEW n \in Node, CheckPendingSync(n)
      PROVE  SyncInv' /\ UNCHANGED satisfied
  BY <1>2, <1>4 DEF CheckPendingSync
<1>5. ASSUME NEW n \in Node, NEW p \in Prefixes, OnSyncDataContent(n, p)
      PROVE  SyncInv' /\ \A k \in Node : satisfied[k] \subseteq satisfied'[k]
  BY <1>2, <1>5 DEF OnSyncDataContent
<1>6. ASSUME NEW n \in Node, NEW p \in Prefixes, OnSyncDataTimedOut(n, p)
      PROVE  SyncInv' /\ UNCHANGED satisfied
  BY <1>2, <1>6 DEF OnSyncDataTimedOut
<1>7. CASE UNCHANGED vars
  BY <1>2, <1>7 DEF vars
<1> QED  BY <1>1, <1>3, <1>4, <1>5, <1>6, <1>7 DEF Next

LEMMA SyncInvariant == Spec => []SyncInv
  BY SyncInit, SyncStep, PTL DEF Spec

\* The lists of names keep their types (simplepubsub.cpp:80-175).
THEOREM SyncTypeCorrect == Spec => []TypeOK
<1>1. SyncInv => TypeOK
  BY DEF SyncInv
<1> QED  BY <1>1, SyncInvariant, PTL

\* NeverAskedAgain for any number of nodes and rounds: a request under way is
\* for a pending name, and no name is pending and satisfied at once, whatever
\* the order of notifications, checks, answers and expiries
\* (simplepubsub.cpp:133-135, 168-175).
THEOREM SatisfiedIsNeverAskedAgain == Spec => NeverAskedAgain
<1>1. SyncInv /\ [Next]_vars =>
        [\A n \in Node : satisfied[n] \subseteq satisfied'[n]
                         /\ satisfied[n] \cap requested'[n] = {}]_vars
  BY SyncStep DEF SyncInv, MissingAsked
<1> QED  BY <1>1, SyncInvariant, PTL DEF Spec, NeverAskedAgain

\* A node asks for what it has not got, that somebody else has announced
\* (simplepubsub.cpp:122-140, 150-162).
THEOREM OnlyMissingIsAsked == Spec => []MissingAsked
<1>1. SyncInv => MissingAsked
  BY DEF SyncInv
<1> QED  BY <1>1, SyncInvariant, PTL

-----------------------------------------------------------------------------
(* Forwarding.                                                             *)

ForwardingInv == ForwardingTypeOK /\ LeadsOn(serves, hops) /\ NoCircle(hops)

LEMMA ServeStep ==
  ASSUME ForwardingInv, NEW n \in Router, NEW p \in Name, Serve(n, p)
  PROVE  ForwardingInv'
<1> USE DEF ForwardingInv, ForwardingTypeOK
<1>1. /\ serves' = [serves EXCEPT ![n] = @ \cup {p}]
      /\ hops' = [hops EXCEPT ![n][p] = {}]
  BY DEF Serve
<1>2. ForwardingTypeOK'
  BY <1>1
<1>3. \A k \in Router, q \in Name :
        hops'[k][q] = IF k = n /\ q = p THEN {} ELSE hops[k][q]
  BY <1>1
<1>4. LeadsOn(serves', hops')
  <2> SUFFICES ASSUME NEW k \in Router, NEW q \in Name, NEW m \in hops'[k][q],
                      q \notin serves'[m]
               PROVE  hops'[m][q] # {}
    BY DEF LeadsOn
  <2>1. m \in hops[k][q] /\ m \in Router
    BY <1>3
  <2>2. q \notin serves[m] /\ ~(m = n /\ q = p)
    BY <1>1, <2>1
  <2>3. hops[m][q] # {}
    BY <2>1, <2>2 DEF LeadsOn
  <2> QED  BY <1>3, <2>1, <2>2, <2>3
<1>5. NoCircle(hops')
  <2>1. \A k \in Router, q \in Name : hops'[k][q] \subseteq hops[k][q]
    BY <1>3
  <2> SUFFICES ASSUME NEW q \in Name, NEW S \in SUBSET Router,
                      S # {}, \A k \in S : hops'[k][q] \cap S # {}
               PROVE  FALSE
    BY DEF NoCircle
  <2>2. \A k \in S : hops[k][q] \cap S # {}
    BY <2>1
  <2> QED  BY <2>2 DEF NoCircle
<1> QED  BY <1>2, <1>4, <1>5 DEF LeadsOn, NoCircle

LEMMA RerouteStep ==
  ASSUME ForwardingInv, NEW n \in Router, Reroute(n)
  PROVE  ForwardingInv'
<1>1. ForwardingTypeOK'
  BY DEF ForwardingInv, ForwardingTypeOK, Reroute
<1>2. LeadsOn(serves', hops')
  BY DEF Reroute, LeadsOn
<1>3. NoCircle(hops')
  BY DEF Reroute, NoCircle
<1>4. LeadsOn(serves, hops)' /\ NoCircle(hops)'
  BY <1>2, <1>3 DEF LeadsOn, NoCircle
<1> QED  BY <1>1, <1>4 DEF ForwardingInv

\* Whoever has a route reaches a router that serves the prefix: no set of
\* routers that next hops do not lead out of is without one.
HopsReachServers ==
  \A p \in Name : \A S \in SUBSET Router :
    (/\ \E n \in S : p \in serves[n] \/ hops[n][p] # {}
     /\ \A n \in S : hops[n][p] \subseteq S)
      => \E n \in S : p \in serves[n]

LEMMA PromiseReaches ==
  ASSUME ForwardingInv
  PROVE  HopsReachServers
<1> SUFFICES ASSUME NEW p \in Name, NEW S \in SUBSET Router,
                    NEW k \in S, p \in serves[k] \/ hops[k][p] # {},
                    \A n \in S : hops[n][p] \subseteq S,
                    \A n \in S : p \notin serves[n]
             PROVE  FALSE
  BY DEF HopsReachServers
<1> DEFINE T == {n \in S : hops[n][p] # {}}
<1>1. T \in SUBSET Router /\ T # {}
  OBVIOUS
<1>2. ASSUME NEW n \in T
      PROVE  hops[n][p] \cap T # {}
  <2>1. PICK m \in hops[n][p] : TRUE
    BY <1>2
  <2>2. m \in S
    BY <2>1
  <2>3. hops[m][p] # {}
    BY <1>2, <2>1, <2>2 DEF ForwardingInv, LeadsOn
  <2> QED  BY <2>1, <2>2, <2>3
<1> QED  BY <1>1, <1>2 DEF ForwardingInv, NoCircle

\* What routing promises is enough for those who forward, for any number of
\* routers and prefixes and however often routes change: along next hops an
\* Interest finds a producer (ndvr.cpp:722-805, 822-840).
THEOREM PromiseReachesServers == ForwardingSpec => []HopsReachServers
<1>1. ForwardingInit => ForwardingInv
  BY DEF ForwardingInit, ForwardingInv, ForwardingTypeOK, LeadsOn, NoCircle
<1>2. ForwardingInv /\ [ForwardingNext]_forwardingVars => ForwardingInv'
  <2>1. ForwardingInv /\ UNCHANGED forwardingVars => ForwardingInv'
    BY DEF forwardingVars, ForwardingInv, ForwardingTypeOK, LeadsOn, NoCircle
  <2> QED  BY <2>1, ServeStep, RerouteStep DEF ForwardingNext
<1> QED  BY <1>1, <1>2, PromiseReaches, PTL DEF ForwardingSpec

-----------------------------------------------------------------------------
(* Delivery: the state.                                                    *)

Side == Router \cup {App, Air}
Pits == [Router -> [Number -> SUBSET Side]]
Unanswereds == [Router -> SUBSET Number]

\* A step leaves no new records but those of one face at the nodes.
OnlyAdds(old, new, nodes, from) ==
  \A n \in Router, x \in Number : \A f \in new[n][x] \ old[n][x] :
    n \in nodes /\ f = from

\* Interests of a number that enter nodes leave one more record there, and
\* what is new has a record.
LEMMA EnterStep ==
  ASSUME NEW nodes, NEW from \in Side, NEW s \in Number,
         NEW entries \in Pits, NEW new \in Unanswereds,
         \A n \in Router : \A x \in new[n] : entries[n][x] # {},
         Enter(nodes, from, s, entries, new)
  PROVE  /\ pit' \in Pits /\ fresh' \in Unanswereds
         /\ \A n \in Router : \A x \in fresh'[n] : pit'[n][x] # {}
         /\ OnlyAdds(entries, pit', nodes, from)
<1>1. pit' = [n \in Router |-> IF n \in nodes
                                 THEN [entries[n] EXCEPT ![s] = @ \cup {from}]
                                 ELSE entries[n]]
  BY DEF Enter
<1>2. \A n \in Router, x \in Number :
        pit'[n][x] = IF n \in nodes /\ x = s THEN entries[n][x] \cup {from}
                                            ELSE entries[n][x]
  BY <1>1 DEF Pits
<1>3. pit' \in Pits
  BY <1>1 DEF Pits
<1>4. \A n \in Router : fresh'[n] = IF n \in nodes /\ entries[n][s] = {}
                                       THEN new[n] \cup {s} ELSE new[n]
  BY DEF Enter
<1>5. fresh' \in Unanswereds
  BY <1>4 DEF Enter, Unanswereds
<1>6. ASSUME NEW n \in Router, NEW x \in fresh'[n]
      PROVE  pit'[n][x] # {}
  <2>1. x \in Number
    BY <1>5 DEF Unanswereds
  <2>2. CASE x \in new[n]
    <3>1. entries[n][x] # {}
      BY <2>2
    <3> QED  BY <1>2, <2>1, <3>1
  <2>3. CASE x \notin new[n]
    <3>1. x = s /\ n \in nodes
      BY <1>4, <2>3
    <3>2. from \in pit'[n][x]
      BY <1>2, <2>1, <3>1
    <3> QED  BY <3>2
  <2> QED  BY <2>2, <2>3
<1>7. OnlyAdds(entries, pit', nodes, from)
  BY <1>2 DEF OnlyAdds
<1> QED  BY <1>3, <1>5, <1>6, <1>7

\* A scenario's nodes and neighbours are routers.
LEMMA NodesAreRouters ==
  ASSUME net \in SetUps
  PROVE  /\ Nodes \subseteq Router
         /\ \A n \in Router : Neighbors(n) \subseteq Router
         /\ \A n \in Router : FaceOf(n) \in Side
         /\ net.routing \in {"ndvr", "default", "global"}
  BY DeliveryAssumption DEF Nodes, Neighbors, FaceOf, Side

LEMMA FirstRoutesType ==
  ASSUME net \in SetUps, NEW r \in FirstRoutes
  PROVE  r \in [Router -> SUBSET Router]
<1>1. CASE net.routing = "ndvr"
  BY <1>1 DEF FirstRoutes
<1>2. CASE net.routing = "default"
  <2>1. r = [n \in Router |-> IF n \in Nodes THEN Neighbors(n) ELSE {}]
    BY <1>2 DEF FirstRoutes
  <2> QED  BY <2>1, NodesAreRouters
<1>3. CASE net.routing = "global"
  BY <1>3 DEF FirstRoutes
<1> QED  BY <1>1, <1>2, <1>3, NodesAreRouters

LEMMA DeliveryInitType == DeliveryInit => DeliveryTypeOK
<1> SUFFICES ASSUME DeliveryInit  PROVE DeliveryTypeOK
  OBVIOUS
<1>1. net \in SetUps
  BY DEF DeliveryInit
<1>2. serves \in [Router -> SUBSET Name]
  <2>1. PICK i : serves = [n \in Router |->
                   IF n \in Nodes /\ i \in net.serves[n] THEN Name ELSE {}]
    BY DEF DeliveryInit
  <2> QED  BY <2>1
<1>3. hops \in [Router -> [Name -> SUBSET Router]]
  <2>1. PICK r \in FirstRoutes : hops = [n \in Router |-> [p \in Name |-> r[n]]]
    BY DEF DeliveryInit
  <2> QED  BY <1>1, <2>1, FirstRoutesType
<1>4. changes \in 0..MaxChanges /\ next \in [Router -> 0..MaxNumber]
  BY DeliveryAssumption DEF DeliveryInit
<1>5. /\ pit \in Pits /\ fresh \in Unanswereds /\ arrived \in Unanswereds
      /\ \A n \in Router : \A s \in fresh[n] : pit[n][s] # {}
  BY DEF DeliveryInit, Pits, Unanswereds
<1> QED  BY <1>1, <1>2, <1>3, <1>4, <1>5
         DEF DeliveryTypeOK, ForwardingTypeOK, Pits, Side, Unanswereds

\* An entry that goes takes the Interest that is to be forwarded with it.
LEMMA DropStep ==
  ASSUME DeliveryTypeOK, NEW n \in Router, NEW s \in Number
  PROVE  /\ Dropped(n, s) \in Pits
         /\ Taken(n, s) \in Unanswereds
         /\ \A k \in Router : \A x \in Taken(n, s)[k] :
              pit[k][x] # {} /\ Dropped(n, s)[k][x] # {}
         /\ \A k \in Router, x \in Number :
              Dropped(n, s)[k][x] = IF k = n /\ x = s THEN {} ELSE pit[k][x]
<1> USE DEF DeliveryTypeOK, Pits, Side, Unanswereds, Dropped, Taken
<1>1. Dropped(n, s) \in Pits /\ Taken(n, s) \in Unanswereds
  OBVIOUS
<1>2. \A k \in Router, x \in Number :
        Dropped(n, s)[k][x] = IF k = n /\ x = s THEN {} ELSE pit[k][x]
  OBVIOUS
<1>3. ASSUME NEW k \in Router, NEW x \in Taken(n, s)[k]
      PROVE  x \in fresh[k] /\ x \in Number /\ ~(k = n /\ x = s)
  OBVIOUS
<1> QED  BY <1>1, <1>2, <1>3

\* The types that a step of the forwarder or the consumer must keep.
PacketsTypeOK ==
  /\ pit \in Pits /\ fresh \in Unanswereds /\ arrived \in Unanswereds
  /\ \A n \in Router : \A s \in fresh[n] : pit[n][s] # {}

LEMMA PacketStep ==
  ASSUME DeliveryTypeOK, PacketsTypeOK', next' \in [Router -> 0..MaxNumber],
         UNCHANGED <<forwardingVars, net, changes>>
  PROVE  DeliveryTypeOK'
  BY DEF DeliveryTypeOK, ForwardingTypeOK, forwardingVars, PacketsTypeOK,
         Pits, Side, Unanswereds

LEMMA DeliveryTypeStep ==
  ASSUME DeliveryTypeOK, [DeliveryNext]_deliveryVars
  PROVE  DeliveryTypeOK'
<1>0. /\ PacketsTypeOK /\ net \in SetUps /\ Nodes \subseteq Router
      /\ next \in [Router -> 0..MaxNumber]
      /\ hops \in [Router -> [Name -> SUBSET Router]]
      /\ Name = {Prefix}
  BY NodesAreRouters, DeliveryAssumption
  DEF DeliveryTypeOK, ForwardingTypeOK, PacketsTypeOK, Pits, Side, Unanswereds
<1>1. ASSUME NEW n \in Nodes, ChangeRoute(n)
      PROVE  DeliveryTypeOK'
  <2>1. changes' \in 0..MaxChanges
    BY <1>1, DeliveryAssumption DEF ChangeRoute, DeliveryTypeOK
  <2>2. ForwardingTypeOK'
    BY <1>1 DEF ChangeRoute, Reroute, DeliveryTypeOK, ForwardingTypeOK
  <2> QED  BY <1>1, <2>1, <2>2 DEF ChangeRoute, DeliveryTypeOK, packetVars
<1>2. ASSUME NEW n \in Nodes, LearnSharedRoute(n)
      PROVE  DeliveryTypeOK'
  <2>1. hops' = [hops EXCEPT ![n][Prefix] = Neighbors(n)]
    BY <1>2 DEF LearnSharedRoute
  <2>2. n \in Router /\ Neighbors(n) \subseteq Router
    BY <1>0, NodesAreRouters
  <2>3. hops' \in [Router -> [Name -> SUBSET Router]]
    BY <1>0, <2>1, <2>2
  <2> QED  BY <1>2, <2>3
           DEF LearnSharedRoute, DeliveryTypeOK, ForwardingTypeOK, packetVars
<1>3. ASSUME NEW c \in Nodes, RequestSyncData(c)
      PROVE  DeliveryTypeOK'
  <2> DEFINE s == IF next[c] = MaxNumber THEN 0 ELSE next[c]
  <2>1. c \in Router /\ next[c] \in 0..MaxNumber
    BY <1>0
  <2>2. s \in Number /\ s + 1 \in 0..MaxNumber
    BY <2>1, DeliveryAssumption DEF Number
  <2>3. /\ Enter({c}, App, s, pit, fresh)
        /\ next' = [next EXCEPT ![c] = s + 1]
        /\ UNCHANGED <<forwardingVars, net, changes, arrived>>
    BY <1>3 DEF RequestSyncData
  <2> HIDE DEF s
  <2>4. next' \in [Router -> 0..MaxNumber]
    BY <1>0, <2>2, <2>3
  <2>5. /\ pit' \in Pits /\ fresh' \in Unanswereds
        /\ \A n \in Router : \A x \in fresh'[n] : pit'[n][x] # {}
    <3>1. App \in Side
      BY DEF Side
    <3> QED  BY <1>0, <2>2, <2>3, <3>1, EnterStep DEF PacketsTypeOK
  <2> QED  BY <1>0, <2>3, <2>4, <2>5, PacketStep DEF PacketsTypeOK
<1>4. ASSUME NEW n \in Nodes, NEW s \in Number, Forward(n, s)
      PROVE  DeliveryTypeOK'
  <2>1. n \in Router /\ FaceOf(n) \in Side
    BY <1>0, NodesAreRouters
  <2>2. UNCHANGED <<forwardingVars, net, changes, next>>
    BY <1>4 DEF Forward
  <2>3. PacketsTypeOK'
    <3>1. CASE Serves(n)
      <4>1. /\ arrived' = [arrived EXCEPT ![n] = @ \cup {s}]
            /\ fresh' = Taken(n, s) /\ pit' = pit
        BY <1>4, <3>1 DEF Forward
      <4>2. arrived' \in Unanswereds
        BY <1>0, <4>1 DEF PacketsTypeOK, Unanswereds
      <4> QED  BY <1>0, <2>1, <4>1, <4>2, DropStep DEF PacketsTypeOK
    <3>2. CASE ~Serves(n)
      <4>1. PICK to \in Targets(n, s) :
              IF to = {} THEN pit' = Dropped(n, s) /\ fresh' = Taken(n, s)
                         ELSE Enter(to, FaceOf(n), s, pit, Taken(n, s))
        BY <1>4, <3>2 DEF Forward
      <4>2. arrived' = arrived
        BY <1>4, <3>2 DEF Forward
      <4>3. CASE to = {}
        BY <1>0, <2>1, <4>1, <4>2, <4>3, DropStep DEF PacketsTypeOK
      <4>4. CASE to # {}
        <5>1. Enter(to, FaceOf(n), s, pit, Taken(n, s))
          BY <4>1, <4>4
        <5>2. /\ pit \in Pits /\ Taken(n, s) \in Unanswereds
              /\ \A k \in Router : \A x \in Taken(n, s)[k] : pit[k][x] # {}
          BY <1>0, <2>1, DropStep DEF PacketsTypeOK
        <5>3. /\ pit' \in Pits /\ fresh' \in Unanswereds
              /\ \A k \in Router : \A x \in fresh'[k] : pit'[k][x] # {}
          BY <2>1, <5>1, <5>2, EnterStep
        <5> QED  BY <1>0, <4>2, <5>3 DEF PacketsTypeOK
      <4> QED  BY <4>3, <4>4
    <3> QED  BY <3>1, <3>2
  <2> QED  BY <1>0, <2>2, <2>3, PacketStep
<1>5. ASSUME NEW n \in Nodes, NEW s \in Number, OnData(n, s)
      PROVE  DeliveryTypeOK'
  <2>1. UNCHANGED <<forwardingVars, net, changes, next>>
    BY <1>5 DEF OnData
  <2> DEFINE to == {m \in Neighbors(n) : pit[m][s] # {} /\ pit[n][s] \cap {m, Air} # {}}
  <2> HIDE DEF to
  <2>2. arrived' \in Unanswereds
    <3>1. \/ arrived' = [arrived EXCEPT ![n] = @ \ {s}]
          \/ arrived' = [m \in Router |->
                             IF m = n THEN arrived[m] \ {s}
                             ELSE IF m \in to THEN arrived[m] \cup {s}
                             ELSE arrived[m]]
      BY <1>5 DEF OnData, to
    <3> QED  BY <1>0, <3>1 DEF PacketsTypeOK, Unanswereds
  <2>3. n \in Router
    BY <1>0
  <2>4. \/ UNCHANGED <<pit, fresh>>
        \/ pit' = Dropped(n, s) /\ fresh' = Taken(n, s)
    BY <1>5 DEF OnData
  <2>5. PacketsTypeOK'
    BY <1>0, <2>2, <2>3, <2>4, DropStep DEF PacketsTypeOK
  <2> QED  BY <1>0, <2>1, <2>5, PacketStep
<1>6. ASSUME NEW s \in Number, Expire(s)
      PROVE  DeliveryTypeOK'
  <2>1. /\ \A n \in Router : s \notin fresh[n] \cup arrived[n]
        /\ pit' = [n \in Router |-> [pit[n] EXCEPT ![s] = {}]]
        /\ UNCHANGED <<forwardingVars, net, changes, next, fresh, arrived>>
    BY <1>6 DEF Expire
  <2>2. pit' \in Pits
    BY <1>0, <2>1 DEF PacketsTypeOK, Pits
  <2>3. ASSUME NEW n \in Router, NEW x \in fresh'[n]
        PROVE  pit'[n][x] # {}
    <3>1. x \in fresh[n] /\ x # s /\ x \in Number
      BY <1>0, <2>1, <2>3 DEF PacketsTypeOK, Unanswereds
    <3> QED  BY <1>0, <2>1, <3>1 DEF PacketsTypeOK, Pits
  <2>4. PacketsTypeOK'
    BY <1>0, <2>1, <2>2, <2>3 DEF PacketsTypeOK
  <2> QED  BY <1>0, <2>1, <2>4, PacketStep
<1>7. CASE UNCHANGED deliveryVars
  BY <1>7 DEF deliveryVars, forwardingVars, packetVars, DeliveryTypeOK,
              ForwardingTypeOK
<1> QED  BY <1>1, <1>2, <1>3, <1>4, <1>5, <1>6, <1>7 DEF DeliveryNext

\* The records of a node, the Interests it has still to forward and the Data
\* that has reached it keep their types, and what is to be forwarded is still
\* waited for, in every scenario and over every change of routes
\* (rangeconsumer.cpp:60-93).
THEOREM DeliveryTypeCorrect == DeliverySpec => []DeliveryTypeOK
  BY DeliveryInitType, DeliveryTypeStep, PTL DEF DeliverySpec

-----------------------------------------------------------------------------
(* Delivery: routes.                                                       *)

\* Over faces of their own the nodes of a scenario see routes change as
\* Forwarding allows: whatever holds of ForwardingSpec holds of them
\* (ndvr.cpp:722-805; prodcons_ndvr_ucast_best.cpp, ndn-grid-ndvr.cpp).
THEOREM DeliveryImplementsForwarding ==
  ASSUME \A s \in SetUps : s.routing = "ndvr" /\ ~s.shared
  PROVE  DeliverySpec => ForwardingSpec
<1>1. DeliveryInit => ForwardingInit
  <2> SUFFICES ASSUME DeliveryInit  PROVE ForwardingInit
    OBVIOUS
  <2>1. ForwardingTypeOK
    BY DeliveryInitType DEF DeliveryTypeOK
  <2>2. PICK r \in FirstRoutes : hops = [n \in Router |-> [p \in Name |-> r[n]]]
    BY DEF DeliveryInit
  <2>3. r = [n \in Router |-> {}]
    BY <2>2 DEF DeliveryInit, FirstRoutes
  <2> QED  BY <2>1, <2>2, <2>3 DEF ForwardingInit, ForwardingTypeOK
<1>2. DeliveryTypeOK /\ [DeliveryNext]_deliveryVars
        => [ForwardingNext]_forwardingVars
  <2> SUFFICES ASSUME DeliveryTypeOK, [DeliveryNext]_deliveryVars
               PROVE  [ForwardingNext]_forwardingVars
    OBVIOUS
  <2>1. ~net.shared /\ Nodes \subseteq Router
    BY NodesAreRouters DEF DeliveryTypeOK
  <2>2. ASSUME NEW n \in Nodes, ChangeRoute(n)
        PROVE  ForwardingNext
    BY <2>1, <2>2 DEF ChangeRoute, ForwardingNext
  <2>3. ASSUME NEW n \in Nodes, LearnSharedRoute(n)
        PROVE  FALSE
    BY <2>1, <2>3 DEF LearnSharedRoute
  <2>4. ASSUME \/ \E c \in Nodes : RequestSyncData(c)
               \/ \E n \in Nodes, s \in Number : Forward(n, s)
               \/ \E n \in Nodes, s \in Number : OnData(n, s)
               \/ \E s \in Number : Expire(s)
        PROVE  UNCHANGED forwardingVars
    BY <2>4 DEF RequestSyncData, Forward, OnData, Expire
  <2> QED  BY <2>2, <2>3, <2>4 DEF DeliveryNext, deliveryVars
<1>3. DeliverySpec => []DeliveryTypeOK
  BY DeliveryTypeCorrect
<1> QED  BY <1>1, <1>2, <1>3, PTL DEF DeliverySpec, ForwardingSpec

\* Nobody is cut off from the rest.
Connected(s) ==
  \A S \in SUBSET DOMAIN s.serves :
    (/\ S # {}
     /\ \A n \in S, m \in DOMAIN s.serves : <<n, m>> \in s.links => m \in S)
      => S = DOMAIN s.serves

\* Some node of the scenario serves the prefix; default routes lead to every
\* neighbour; other routes that do not change, or that change one by one,
\* lead on and close no circle; those of a broadcast face do close circles,
\* and lead to a producer all the same.
RoutesInv ==
  /\ \E n \in Nodes : Serves(n)
  /\ net.routing = "default" =>
       \A n \in Nodes : hops[n][Prefix] = Neighbors(n)
  /\ net.routing = "default" =>
       \A n \in Router \ Nodes : ~Serves(n) /\ hops[n][Prefix] = {}
  /\ net.routing = "global" \/ (net.routing = "ndvr" /\ ~net.shared) => ForwardingInv
  /\ net.routing = "ndvr" /\ net.shared => HopsReachServers

LEMMA DefaultRoutesReach ==
  ASSUME DeliveryTypeOK, RoutesInv, net.routing = "default", Connected(net)
  PROVE  HopsReachServers
<1> SUFFICES ASSUME NEW S \in SUBSET Router, NEW k \in S,
                    Serves(k) \/ hops[k][Prefix] # {},
                    \A n \in S : hops[n][Prefix] \subseteq S
             PROVE  \E n \in S : Serves(n)
  BY DeliveryAssumption DEF HopsReachServers, Serves
<1> DEFINE T == S \cap Nodes
<1>1. k \in T
  BY DEF RoutesInv
<1>2. \A n \in T, m \in Nodes : <<n, m>> \in net.links => m \in T
  BY DEF RoutesInv, Neighbors
<1>3. T = Nodes
  BY <1>1, <1>2 DEF Connected, Nodes
<1> QED  BY <1>3 DEF RoutesInv

LEMMA RoutesInit ==
  ASSUME DeliveryInit
  PROVE  RoutesInv
<1>0. DeliveryTypeOK /\ Name = {Prefix} /\ net \in SetUps
  BY DeliveryInitType, DeliveryAssumption DEF DeliveryTypeOK
<1>1. PICK i \in UNION {net.serves[n] : n \in DOMAIN net.serves} :
        serves = [n \in Router |->
                    IF n \in Nodes /\ i \in net.serves[n] THEN Name ELSE {}]
  BY DEF DeliveryInit
<1>2. PICK r \in FirstRoutes : hops = [n \in Router |-> [p \in Name |-> r[n]]]
  BY DEF DeliveryInit
<1>3. \E n \in Nodes : Serves(n)
  BY <1>0, <1>1, NodesAreRouters DEF Nodes, Serves
<1>4. \A n \in Router : hops[n][Prefix] = r[n]
  BY <1>0, <1>2
<1>5. \A n \in Router \ Nodes : ~Serves(n)
  BY <1>1 DEF Serves
<1>6. CASE net.routing = "ndvr"
  <2>1. r = [n \in Router |-> {}]
    BY <1>6 DEF FirstRoutes
  <2>2. \A n \in Router, p \in Name : hops[n][p] = {}
    BY <1>2, <2>1
  <2>3. ForwardingInv
    BY <1>0, <2>2 DEF ForwardingInv, DeliveryTypeOK, LeadsOn, NoCircle
  <2> QED  BY <1>3, <1>6, <2>3, PromiseReaches DEF RoutesInv
<1>7. CASE net.routing = "default"
  <2>1. r = [n \in Router |-> IF n \in Nodes THEN Neighbors(n) ELSE {}]
    BY <1>7 DEF FirstRoutes
  <2> QED  BY <1>0, <1>3, <1>4, <1>5, <1>7, <2>1, NodesAreRouters DEF RoutesInv
<1>8. CASE net.routing = "global"
  <2>1. /\ \A n \in Nodes : IF Serves(n) THEN r[n] = {}
                             ELSE \E m \in Neighbors(n) : r[n] = {m}
        /\ \A n \in Router \ Nodes : r[n] = {}
        /\ NoCircle(hops)
    BY <1>2, <1>8 DEF FirstRoutes
  <2>2. LeadsOn(serves, hops)
    <3> SUFFICES ASSUME NEW n \in Router, NEW p \in Name, NEW m \in hops[n][p],
                        p \notin serves[m]
                 PROVE  hops[m][p] # {}
      BY DEF LeadsOn
    <3>1. p = Prefix /\ m \in r[n]
      BY <1>0, <1>4
    <3>2. n \in Nodes /\ m \in Neighbors(n)
      BY <2>1, <3>1
    <3>3. m \in Nodes /\ m \in Router /\ ~Serves(m)
      BY <1>0, <3>1, <3>2, NodesAreRouters DEF Neighbors, Serves
    <3> QED  BY <1>4, <2>1, <3>1, <3>3
  <2> QED  BY <1>0, <1>3, <1>8, <2>1, <2>2
           DEF RoutesInv, ForwardingInv, DeliveryTypeOK
<1> QED  BY <1>0, <1>6, <1>7, <1>8, NodesAreRouters

\* A router with no route, one of whose neighbours knows the way, may take all
\* its neighbours: a set that now lets nobody out held the neighbour's before.
LEMMA SharedRouteReaches ==
  ASSUME DeliveryTypeOK, HopsReachServers, NEW n \in Nodes, LearnSharedRoute(n)
  PROVE  HopsReachServers'
<1>0. /\ Name = {Prefix} /\ n \in Router /\ Neighbors(n) \subseteq Router
      /\ hops \in [Router -> [Name -> SUBSET Router]]
  BY NodesAreRouters, DeliveryAssumption DEF DeliveryTypeOK, ForwardingTypeOK
<1>1. /\ hops[n][Prefix] = {}
      /\ hops' = [hops EXCEPT ![n][Prefix] = Neighbors(n)]
      /\ serves' = serves
  BY DEF LearnSharedRoute
<1>2. PICK m \in Neighbors(n) : Serves(m) \/ hops[m][Prefix] # {}
  BY DEF LearnSharedRoute
<1>3. \A k \in Router :
        hops'[k][Prefix] = IF k = n THEN Neighbors(n) ELSE hops[k][Prefix]
  BY <1>0, <1>1
<1> SUFFICES ASSUME NEW p \in Name, NEW S \in SUBSET Router, NEW k \in S,
                    p \in serves'[k] \/ hops'[k][p] # {},
                    \A j \in S : hops'[j][p] \subseteq S
             PROVE  \E j \in S : p \in serves'[j]
  BY DEF HopsReachServers
<1>4. /\ Prefix \in serves[k] \/ hops'[k][Prefix] # {}
      /\ \A j \in S : hops'[j][Prefix] \subseteq S
  BY <1>0, <1>1
<1>5. \A j \in S : hops[j][Prefix] \subseteq S
  BY <1>1, <1>3, <1>4
<1>6. \E j \in S : Prefix \in serves[j] \/ hops[j][Prefix] # {}
  <2>1. CASE n \in S
    <3>1. m \in S
      BY <1>2, <1>3, <1>4, <2>1
    <3> QED  BY <1>2, <3>1 DEF Serves
  <2>2. CASE n \notin S
    BY <1>3, <1>4, <2>2
  <2> QED  BY <2>1, <2>2
<1>7. \E j \in S : Prefix \in serves[j]
  BY <1>0, <1>5, <1>6 DEF HopsReachServers
<1> QED  BY <1>0, <1>1, <1>7

LEMMA RoutesStep ==
  ASSUME DeliveryTypeOK, RoutesInv, [DeliveryNext]_deliveryVars
  PROVE  RoutesInv'
<1>1. ASSUME UNCHANGED <<forwardingVars, net>>
      PROVE  RoutesInv'
  BY <1>1 DEF RoutesInv, forwardingVars, Nodes, Serves, Neighbors, ForwardingInv,
              ForwardingTypeOK, LeadsOn, NoCircle, HopsReachServers
<1>2. ASSUME NEW n \in Nodes, ChangeRoute(n)
      PROVE  RoutesInv'
  <2>1. /\ net' = net /\ net.routing = "ndvr" /\ ~net.shared /\ Reroute(n)
        /\ n \in Router
    BY <1>2, NodesAreRouters DEF ChangeRoute, DeliveryTypeOK
  <2>2. ForwardingInv'
    BY <2>1, RerouteStep DEF RoutesInv
  <2>3. serves' = serves
    BY <2>1 DEF Reroute
  <2> QED  BY <2>1, <2>2, <2>3 DEF RoutesInv, Nodes, Serves
<1>3. ASSUME NEW n \in Nodes, LearnSharedRoute(n)
      PROVE  RoutesInv'
  <2>1. /\ net' = net /\ serves' = serves
        /\ net.routing = "ndvr" /\ net.shared
    BY <1>3 DEF LearnSharedRoute
  <2>2. HopsReachServers'
    BY <1>3, <2>1, SharedRouteReaches DEF RoutesInv
  <2> QED  BY <2>1, <2>2 DEF RoutesInv, Nodes, Serves
<1>4. ASSUME \/ \E c \in Nodes : RequestSyncData(c)
             \/ \E n \in Nodes, s \in Number : Forward(n, s)
             \/ \E n \in Nodes, s \in Number : OnData(n, s)
             \/ \E s \in Number : Expire(s)
             \/ UNCHANGED deliveryVars
      PROVE  UNCHANGED <<forwardingVars, net>>
  BY <1>4 DEF RequestSyncData, Forward, OnData, Expire, deliveryVars
<1> QED  BY <1>1, <1>2, <1>3, <1>4 DEF DeliveryNext

\* In every scenario, over unicast faces and over a broadcast face, with NDVR
\* and without: a node that has a route reaches a producer over next hops, at
\* every moment of a run in which routes change (ndvr.cpp:722-805, 807-840;
\* prodcons_ndvr_mcast.cpp, prodcons_flood.cpp, ndn-grid-global-best.cpp).
\* Default routes need a scenario in which nobody is cut off.
THEOREM RoutesOfScenariosReachServers ==
  ASSUME \A s \in SetUps : s.routing = "default" => Connected(s)
  PROVE  DeliverySpec => []HopsReachServers
<1>1. DeliveryTypeOK /\ RoutesInv => HopsReachServers
  BY DefaultRoutesReach, PromiseReaches, NodesAreRouters
  DEF RoutesInv, DeliveryTypeOK
<1> QED  BY <1>1, DeliveryInitType, DeliveryTypeStep, RoutesInit, RoutesStep, PTL
         DEF DeliverySpec

-----------------------------------------------------------------------------
(* Delivery: packets.                                                      *)

\* Whom a record at a node may be of: a neighbour that hears the node, the
\* broadcast face, the node's own consumer.
Records(n) ==
  (IF net.shared THEN {Air} ELSE {m \in Nodes : n \in Neighbors(m)})
  \cup (IF n \in net.consumers THEN {App} ELSE {})

\* Next hops are neighbours, and only the scenario's nodes have records.
RecordsInv ==
  /\ \A n \in Router : hops[n][Prefix] # {} => n \in Nodes
  /\ \A n \in Nodes : hops[n][Prefix] \subseteq Neighbors(n)
  /\ \A n \in Router, s \in Number :
       /\ pit[n][s] # {} => n \in Nodes
       /\ pit[n][s] \subseteq Records(n)

LEMMA RecordsInit ==
  ASSUME DeliveryInit
  PROVE  RecordsInv
<1>0. net \in SetUps /\ Name = {Prefix}
  BY DeliveryAssumption DEF DeliveryInit
<1>1. \A n \in Router, s \in Number : pit[n][s] = {}
  BY DEF DeliveryInit
<1>2. PICK r \in FirstRoutes : hops = [n \in Router |-> [p \in Name |-> r[n]]]
  BY DEF DeliveryInit
<1>3. \A n \in Router : hops[n][Prefix] = r[n]
  BY <1>0, <1>2
<1>4. \A n \in Router : (r[n] # {} => n \in Nodes)
                        /\ (n \in Nodes => r[n] \subseteq Neighbors(n))
  <2>1. CASE net.routing = "ndvr"
    BY <2>1 DEF FirstRoutes
  <2>2. CASE net.routing = "default"
    BY <2>2 DEF FirstRoutes
  <2>3. CASE net.routing = "global"
    <3> SUFFICES ASSUME NEW n \in Router
                 PROVE  /\ r[n] # {} => n \in Nodes
                        /\ n \in Nodes => r[n] \subseteq Neighbors(n)
      OBVIOUS
    <3>1. /\ \A k \in Nodes : IF Serves(k) THEN r[k] = {}
                              ELSE \E m \in Neighbors(k) : r[k] = {m}
          /\ \A k \in Router \ Nodes : r[k] = {}
      BY <2>3 DEF FirstRoutes
    <3> QED  BY <3>1
  <2> QED  BY <1>0, <2>1, <2>2, <2>3, NodesAreRouters
<1> QED  BY <1>0, <1>1, <1>3, <1>4, NodesAreRouters DEF RecordsInv

\* A step that adds no records but those of one face that the nodes know.
LEMMA RecordsKept ==
  ASSUME RecordsInv, UNCHANGED <<forwardingVars, net>>,
         NEW nodes \in SUBSET Nodes, NEW from,
         \A n \in nodes : from \in Records(n),
         OnlyAdds(pit, pit', nodes, from)
  PROVE  RecordsInv'
<1>1. Nodes' = Nodes /\ net' = net /\ hops' = hops
  BY DEF Nodes, forwardingVars
<1>2. \A n \in Router : Neighbors(n)' = Neighbors(n) /\ Records(n)' = Records(n)
  BY <1>1 DEF Neighbors, Records
<1>3. \A n \in Nodes : Neighbors(n)' = Neighbors(n)
  BY <1>1 DEF Neighbors
<1>4. ASSUME NEW n \in Router, NEW x \in Number
      PROVE  /\ pit'[n][x] # {} => n \in Nodes
             /\ pit'[n][x] \subseteq Records(n)
  BY <1>4 DEF RecordsInv, OnlyAdds
<1> QED  BY <1>1, <1>2, <1>3, <1>4 DEF RecordsInv

LEMMA RecordsStep ==
  ASSUME DeliveryTypeOK, RecordsInv, [DeliveryNext]_deliveryVars
  PROVE  RecordsInv'
<1>0. /\ Nodes \subseteq Router /\ Name = {Prefix} /\ net \in SetUps
      /\ \A n \in Router : FaceOf(n) \in Side
      /\ hops \in [Router -> [Name -> SUBSET Router]]
      /\ pit \in Pits /\ fresh \in Unanswereds
      /\ \A n \in Router : \A s \in fresh[n] : pit[n][s] # {}
  BY NodesAreRouters, DeliveryAssumption
  DEF DeliveryTypeOK, ForwardingTypeOK, Pits, Side, Unanswereds
<1>1. ASSUME NEW n \in Nodes, NEW next1 \in SUBSET Neighbors(n),
             hops' = [hops EXCEPT ![n][Prefix] = next1], net' = net, pit' = pit
      PROVE  RecordsInv'
  <2>1. Nodes' = Nodes /\ \A k \in Router : Neighbors(k)' = Neighbors(k)
    BY <1>1 DEF Nodes, Neighbors
  <2>2. \A k \in Router : Records(k)' = Records(k)
    BY <1>0, <1>1, <2>1 DEF Records
  <2>3. \A k \in Router :
          hops'[k][Prefix] = IF k = n THEN next1 ELSE hops[k][Prefix]
    BY <1>0, <1>1
  <2>4. \A k \in Router : hops'[k][Prefix] # {} => k \in Nodes
    BY <2>3 DEF RecordsInv
  <2>5. \A k \in Nodes : hops'[k][Prefix] \subseteq Neighbors(k)
    BY <1>0, <2>3 DEF RecordsInv
  <2>6. \A k \in Router, s \in Number :
          /\ pit'[k][s] # {} => k \in Nodes
          /\ pit'[k][s] \subseteq Records(k)
    BY <1>1 DEF RecordsInv
  <2> QED  BY <1>0, <2>1, <2>2, <2>4, <2>5, <2>6 DEF RecordsInv
<1>2. ASSUME NEW n \in Nodes, ChangeRoute(n)
      PROVE  RecordsInv'
  <2>1. PICK m \in Neighbors(n) : hops' = [hops EXCEPT ![n][Prefix] = {m}]
    BY <1>2 DEF ChangeRoute
  <2>2. net' = net /\ pit' = pit /\ {m} \in SUBSET Neighbors(n)
    BY <1>2 DEF ChangeRoute, packetVars
  <2> QED  BY <1>1, <2>1, <2>2
<1>3. ASSUME NEW n \in Nodes, LearnSharedRoute(n)
      PROVE  RecordsInv'
  BY <1>1, <1>3 DEF LearnSharedRoute, packetVars
<1>4. ASSUME NEW c \in Nodes, RequestSyncData(c)
      PROVE  RecordsInv'
  <2> DEFINE s == IF next[c] = MaxNumber THEN 0 ELSE next[c]
  <2>1. next[c] \in 0..MaxNumber
    BY <1>0 DEF DeliveryTypeOK
  <2>2. s \in Number
    BY <2>1, DeliveryAssumption DEF Number
  <2>3. /\ c \in net.consumers /\ Enter({c}, App, s, pit, fresh)
        /\ UNCHANGED <<forwardingVars, net>>
    BY <1>4 DEF RequestSyncData
  <2> HIDE DEF s
  <2>4. OnlyAdds(pit, pit', {c}, App)
    <3>1. App \in Side
      BY DEF Side
    <3> QED  BY <1>0, <2>2, <2>3, <3>1, EnterStep
  <2>5. \A n \in {c} : App \in Records(n)
    BY <2>3 DEF Records
  <2>6. {c} \in SUBSET Nodes
    OBVIOUS
  <2> QED  BY <2>3, <2>4, <2>5, <2>6, RecordsKept
<1>5. ASSUME UNCHANGED <<forwardingVars, net>>,
             \A n \in Router, x \in Number : pit'[n][x] \subseteq pit[n][x]
      PROVE  RecordsInv'
  <2>1. {} \in SUBSET Nodes /\ \A n \in {} : App \in Records(n)
    OBVIOUS
  <2>2. OnlyAdds(pit, pit', {}, App)
    BY <1>5 DEF OnlyAdds
  <2> QED  BY <1>5, <2>1, <2>2, RecordsKept
<1>6. ASSUME NEW n \in Nodes, NEW s \in Number, Forward(n, s)
      PROVE  RecordsInv'
  <2>1. UNCHANGED <<forwardingVars, net>> /\ n \in Router
    BY <1>0, <1>6 DEF Forward
  <2>2. CASE UNCHANGED pit
    BY <1>5, <2>1, <2>2
  <2>3. CASE ~Serves(n)
    <3>1. PICK to \in Targets(n, s) :
            IF to = {} THEN pit' = Dropped(n, s) /\ fresh' = Taken(n, s)
                       ELSE Enter(to, FaceOf(n), s, pit, Taken(n, s))
      BY <1>6, <2>3 DEF Forward
    <3>2. CASE to = {}
      <4>1. \A k \in Router, x \in Number : pit'[k][x] \subseteq pit[k][x]
        BY <2>1, <3>1, <3>2, DropStep
      <4> QED  BY <1>5, <2>1, <4>1
    <3>3. CASE to # {}
      <4>1. to \subseteq hops[n][Prefix]
        BY DEF Targets
      <4>2. to \subseteq Neighbors(n)
        BY <4>1 DEF RecordsInv
      <4>3. \A m \in to : FaceOf(n) \in Records(m)
        BY <4>2 DEF FaceOf, Records
      <4>4. to \in SUBSET Nodes
        BY <4>2 DEF Neighbors
      <4>5. /\ Enter(to, FaceOf(n), s, pit, Taken(n, s))
            /\ FaceOf(n) \in Side /\ Taken(n, s) \in Unanswereds
            /\ \A k \in Router : \A x \in Taken(n, s)[k] : pit[k][x] # {}
        BY <1>0, <2>1, <3>1, <3>3, DropStep
      <4>6. OnlyAdds(pit, pit', to, FaceOf(n))
        BY <1>0, <4>5, EnterStep
      <4> QED  BY <2>1, <4>3, <4>4, <4>6, RecordsKept
    <3> QED  BY <3>2, <3>3
  <2> QED  BY <1>6, <2>2, <2>3 DEF Forward
<1>7. ASSUME NEW n \in Nodes, NEW s \in Number, OnData(n, s)
      PROVE  RecordsInv'
  <2>1. UNCHANGED <<forwardingVars, net>> /\ n \in Router
    BY <1>0, <1>7 DEF OnData
  <2>2. pit' = pit \/ pit' = Dropped(n, s)
    BY <1>7 DEF OnData
  <2>3. \A k \in Router, x \in Number : pit'[k][x] \subseteq pit[k][x]
    BY <2>1, <2>2, DropStep
  <2> QED  BY <1>5, <2>1, <2>3
<1>8. ASSUME NEW s \in Number, Expire(s)
      PROVE  RecordsInv'
  <2>1. /\ UNCHANGED <<forwardingVars, net>>
        /\ pit' = [n \in Router |-> [pit[n] EXCEPT ![s] = {}]]
    BY <1>8 DEF Expire
  <2>2. \A k \in Router, x \in Number : pit'[k][x] \subseteq pit[k][x]
    BY <1>0, <2>1 DEF Pits
  <2> QED  BY <1>5, <2>1, <2>2
<1>9. CASE UNCHANGED deliveryVars
  BY <1>5, <1>9 DEF deliveryVars, packetVars
<1> QED  BY <1>2, <1>3, <1>4, <1>6, <1>7, <1>8, <1>9 DEF DeliveryNext

LEMMA RecordsInvariant == DeliverySpec => [](DeliveryTypeOK /\ RecordsInv)
  BY DeliveryInitType, DeliveryTypeStep, RecordsInit, RecordsStep, PTL
  DEF DeliverySpec

\* Data that goes on from a node goes to everyone whose Interest it answers.
DataGoesBack ==
  [][\A n, m \in Router, s \in Number :
       (/\ s \in arrived[n] \ arrived'[n]
        /\ m \in pit[n][s] \/ (Air \in pit[n][s] /\ m \in Neighbors(n))
        /\ pit[m][s] # {})
         => s \in arrived'[m]]_deliveryVars

\* Who hears a neighbour is heard by it, and nobody is its own neighbour.
TwoWay(s) == \A l \in s.links : l[1] # l[2] /\ <<l[2], l[1]>> \in s.links

\* Data takes the way of the Interests back, over whatever routes these came
\* and however routes have changed since: no node that still waits is passed
\* over, where links are two-way (prodcons_ndvr_ucast_best.cpp:93-120).
THEOREM AskersGetTheData ==
  ASSUME \A s \in SetUps : TwoWay(s)
  PROVE  DeliverySpec => DataGoesBack
<1> DEFINE Back(n, m, s) ==
      (/\ s \in arrived[n] \ arrived'[n]
       /\ m \in pit[n][s] \/ (Air \in pit[n][s] /\ m \in Neighbors(n))
       /\ pit[m][s] # {})
        => s \in arrived'[m]
<1>1. ASSUME DeliveryTypeOK, RecordsInv, [DeliveryNext]_deliveryVars,
             NEW n \in Router, NEW m \in Router, NEW s \in Number,
             s \in arrived[n] \ arrived'[n],
             m \in pit[n][s] \/ (Air \in pit[n][s] /\ m \in Neighbors(n)),
             pit[m][s] # {}
      PROVE  s \in arrived'[m]
  <2>0. /\ arrived \in Unanswereds /\ net \in SetUps
        /\ Nodes \subseteq Router /\ App \notin Router /\ Air \notin Router
    BY <1>1, NodesAreRouters, DeliveryAssumption DEF DeliveryTypeOK, Unanswereds
  <2>1. ASSUME NEW k \in Nodes, NEW x \in Number, Forward(k, x)
        PROVE  arrived[n] \subseteq arrived'[n]
    <3>1. arrived' = arrived \/ arrived' = [arrived EXCEPT ![k] = @ \cup {x}]
      BY <2>1 DEF Forward
    <3> QED  BY <2>0, <3>1 DEF Unanswereds
  <2>2. PICK k \in Nodes, x \in Number : OnData(k, x)
    <3>1. arrived' # arrived
      BY <1>1
    <3> QED  BY <1>1, <2>1, <3>1
             DEF DeliveryNext, deliveryVars, packetVars, ChangeRoute,
                 LearnSharedRoute, RequestSyncData, Expire
  <2> DEFINE to == {j \in Neighbors(k) : pit[j][x] # {}
                                       /\ pit[k][x] \cap {j, Air} # {}}
  <2>3. \/ arrived' = [arrived EXCEPT ![k] = @ \ {x}]
        \/ arrived' = [j \in Router |->
                         IF j = k THEN arrived[j] \ {x}
                         ELSE IF j \in to THEN arrived[j] \cup {x}
                         ELSE arrived[j]]
    BY <2>2 DEF OnData
  <2>4. k \in Router
    BY <2>0
  <2> HIDE DEF to
  <2>5. k = n /\ x = s
    BY <1>1, <2>0, <2>3, <2>4 DEF Unanswereds
  <2>6. arrived' = [j \in Router |->
                      IF j = n THEN arrived[j] \ {s}
                      ELSE IF j \in to THEN arrived[j] \cup {s}
                      ELSE arrived[j]]
    <3>1. pit[n][s] # {}
      BY <1>1
    <3> QED  BY <2>2, <2>5, <3>1 DEF OnData, to
  <2>7. m \in Neighbors(n)
    <3>1. CASE m \in pit[n][s]
      <4>1. m \in Records(n)
        BY <1>1, <3>1 DEF RecordsInv
      <4>2. m \in Nodes /\ n \in Neighbors(m)
        BY <2>0, <4>1 DEF Records
      <4>3. <<m, n>> \in net.links
        BY <4>2 DEF Neighbors
      <4>4. <<n, m>> \in net.links
        BY <2>0, <4>3 DEF TwoWay
      <4> QED  BY <4>2, <4>4 DEF Neighbors
    <3> QED  BY <1>1, <3>1
  <2>8. m # n
    BY <2>0, <2>7 DEF Neighbors, TwoWay
  <2>9. m \in to
    BY <1>1, <2>5, <2>7 DEF to
  <2> QED  BY <2>6, <2>8, <2>9
<1>2. DeliveryTypeOK /\ RecordsInv /\ [DeliveryNext]_deliveryVars
        => [\A n, m \in Router, s \in Number : Back(n, m, s)]_deliveryVars
  BY <1>1
<1> QED  BY <1>2, RecordsInvariant, PTL DEF DeliverySpec, DataGoesBack

-----------------------------------------------------------------------------
(* Delivery: routes that do not change.                                    *)

GlobalRoutes ==
  /\ \A n \in Router : Serves(n) \/ n \notin Nodes => hops[n][Prefix] = {}
  /\ \A n \in Nodes : ~Serves(n) => \E m \in Neighbors(n) : hops[n][Prefix] = {m}

\* A node whose record is at another one waits for this one, and for nothing
\* else; Data finds an entry; and whoever waits has its Interest to forward,
\* Data to pass on, or a record at its next hop.
WayInv ==
  \A n \in Router, s \in Number :
    /\ \A m \in pit[n][s] \cap Router :
         /\ hops[m][Prefix] = {n} /\ pit[m][s] # {}
         /\ s \notin fresh[m] /\ s \notin arrived[m]
    /\ s \in arrived[n] => pit[n][s] # {} /\ s \notin fresh[n]
    /\ pit[n][s] # {} => \/ s \in fresh[n] \/ s \in arrived[n]
                          \/ \E m \in hops[n][Prefix] : n \in pit[m][s]

GlobalNet(s) == s.routing = "global" /\ ~s.shared /\ TwoWay(s)

GlobalInv == DeliveryTypeOK /\ RecordsInv /\ RoutesInv /\ GlobalRoutes /\ WayInv

\* What the invariant says of one scenario with global routes.
LEMMA GlobalFacts ==
  ASSUME GlobalInv, \A s \in SetUps : GlobalNet(s)
  PROVE  /\ net.routing = "global" /\ ~net.shared
         /\ Nodes \subseteq Router /\ Name = {Prefix}
         /\ App \notin Router /\ Air \notin Router /\ App # Air
         /\ hops \in [Router -> [Name -> SUBSET Router]]
         /\ pit \in Pits /\ fresh \in Unanswereds /\ arrived \in Unanswereds
         /\ \A n \in Router : \A s \in fresh[n] : pit[n][s] # {}
         /\ NoCircle(hops)
         /\ \A n \in Router, s \in Number : Air \notin pit[n][s]
<1>1. net \in SetUps /\ GlobalNet(net)
  BY DEF GlobalInv, DeliveryTypeOK
<1>2. \A n \in Router, s \in Number : Air \notin pit[n][s]
  <2> SUFFICES ASSUME NEW n \in Router, NEW s \in Number, Air \in pit[n][s]
               PROVE  FALSE
    OBVIOUS
  <2>1. Air \in Records(n)
    BY DEF GlobalInv, RecordsInv
  <2>2. Air \in Nodes \/ Air = App
    BY <1>1, <2>1 DEF Records, GlobalNet
  <2> QED  BY <1>1, <2>2, NodesAreRouters, DeliveryAssumption
<1> QED  BY <1>1, <1>2, NodesAreRouters, DeliveryAssumption
         DEF GlobalInv, GlobalNet, RoutesInv, ForwardingInv, DeliveryTypeOK,
             ForwardingTypeOK, Pits, Side, Unanswereds

\* No two nodes are each other's next hops, and no node its own.
LEMMA NoPairs ==
  ASSUME NoCircle(hops), Name = {Prefix}, NEW n \in Router, NEW m \in Router,
         m \in hops[n][Prefix]
  PROVE  m # n /\ n \notin hops[m][Prefix]
<1>1. ASSUME n \in hops[m][Prefix]
      PROVE  FALSE
  <2>1. {n, m} \in SUBSET Router /\ {n, m} # {}
    OBVIOUS
  <2>2. \A k \in {n, m} : hops[k][Prefix] \cap {n, m} # {}
    BY <1>1
  <2> QED  BY <2>1, <2>2 DEF NoCircle
<1> QED  BY <1>1

\* While somebody waits, something moves: entries never expire.
LEMMA SomethingMoves ==
  ASSUME GlobalInv, \A s \in SetUps : GlobalNet(s), NEW s \in Number,
         \A n \in Router : s \notin fresh[n] \cup arrived[n]
  PROVE  \A n \in Router : pit[n][s] = {}
<1> DEFINE T == {n \in Router : pit[n][s] # {}}
<1>1. ASSUME NEW n \in T
      PROVE  hops[n][Prefix] \cap T # {}
  <2>1. n \in Router /\ pit[n][s] # {}
    OBVIOUS
  <2>2. PICK m \in hops[n][Prefix] : n \in pit[m][s]
    BY <2>1 DEF GlobalInv, WayInv
  <2>3. m \in Router
    BY <2>1, <2>2, GlobalFacts
  <2> QED  BY <2>2, <2>3
<1>2. T \in SUBSET Router
  OBVIOUS
<1>3. NoCircle(hops) /\ Name = {Prefix}
  BY GlobalFacts
<1>4. T = {}
  <2> HIDE DEF T
  <2> QED  BY <1>1, <1>2, <1>3 DEF NoCircle
<1> QED  BY <1>4

\* A node that has an Interest to forward has somewhere to send it.
LEMMA GlobalTarget ==
  ASSUME GlobalInv, \A s \in SetUps : GlobalNet(s), NEW n \in Nodes,
         NEW s \in Number, ~Serves(n)
  PROVE  \E m \in Router :
           /\ hops[n][Prefix] = {m} /\ m # n
           /\ Targets(n, s) = {{m}} /\ FaceOf(n) = n
<1>0. /\ n \in Router /\ ~net.shared /\ Name = {Prefix} /\ NoCircle(hops)
      /\ hops \in [Router -> [Name -> SUBSET Router]]
  BY GlobalFacts
<1>1. PICK m \in Neighbors(n) : hops[n][Prefix] = {m}
  BY DEF GlobalInv, GlobalRoutes
<1>2. m \in Router
  BY <1>0, <1>1
<1>3. m # n /\ n \notin hops[m][Prefix]
  BY <1>0, <1>1, <1>2, NoPairs
<1>4. m \notin pit[n][s]
  BY <1>0, <1>2, <1>3 DEF GlobalInv, WayInv
<1>5. hops[n][Prefix] \ pit[n][s] = {m}
  BY <1>1, <1>4
<1>6. Targets(n, s) = {{m}}
  BY <1>5 DEF Targets
<1> QED  BY <1>0, <1>1, <1>2, <1>3, <1>6 DEF FaceOf

\* An Interest that enters one node, from its consumer or from a node that has
\* just forwarded it, keeps to the way.
LEMMA EnterKeepsWay ==
  ASSUME GlobalInv, \A s \in SetUps : GlobalNet(s), NEW k \in Router,
         NEW from \in Side, NEW s \in Number, NEW new \in Unanswereds,
         Enter({k}, from, s, pit, new), UNCHANGED <<hops, arrived>>,
         \/ from = App /\ new = fresh
         \/ /\ from \in Router /\ hops[from][Prefix] = {k} /\ from # k
            /\ s \in fresh[from] /\ new = Taken(from, s)
  PROVE  WayInv'
<1>0. /\ pit \in Pits /\ fresh \in Unanswereds /\ arrived \in Unanswereds
      /\ App \notin Router
      /\ \A n \in Router : \A x \in fresh[n] : pit[n][x] # {}
  BY GlobalFacts
<1>1. \A n \in Router, x \in Number :
        pit'[n][x] = IF n = k /\ x = s THEN pit[n][x] \cup {from} ELSE pit[n][x]
  BY <1>0 DEF Enter, Pits
<1>2. \A n \in Router, x \in Number :
        x \in new[n] <=> x \in fresh[n] /\ ~(n = from /\ x = s)
  BY <1>0 DEF Taken, Unanswereds
<1>3. \A n \in Router, x \in Number :
        x \in fresh'[n] <=> \/ x \in fresh[n] /\ ~(n = from /\ x = s)
                            \/ n = k /\ x = s /\ pit[n][x] = {}
  <2>1. \A n \in Router : fresh'[n] = IF n \in {k} /\ pit[n][s] = {}
                                         THEN new[n] \cup {s} ELSE new[n]
    BY DEF Enter
  <2> QED  BY <1>2, <2>1
<1> SUFFICES ASSUME NEW n \in Router, NEW x \in Number
             PROVE  /\ \A m \in pit'[n][x] \cap Router :
                         /\ hops[m][Prefix] = {n} /\ pit'[m][x] # {}
                         /\ x \notin fresh'[m] /\ x \notin arrived[m]
                    /\ x \in arrived[n] => pit'[n][x] # {} /\ x \notin fresh'[n]
                    /\ pit'[n][x] # {} => \/ x \in fresh'[n] \/ x \in arrived[n]
                                           \/ \E m \in hops[n][Prefix] : n \in pit'[m][x]
  BY DEF WayInv
<1>4. ASSUME NEW m \in pit'[n][x] \cap Router
      PROVE  /\ hops[m][Prefix] = {n} /\ pit'[m][x] # {}
             /\ x \notin fresh'[m] /\ x \notin arrived[m]
  <2>1. CASE m \in pit[n][x]
    <3>1. /\ hops[m][Prefix] = {n} /\ pit[m][x] # {}
          /\ x \notin fresh[m] /\ x \notin arrived[m]
      BY <2>1 DEF GlobalInv, WayInv
    <3>2. pit'[m][x] # {}
      BY <1>1, <3>1
    <3>3. x \notin fresh'[m]
      BY <1>3, <3>1
    <3> QED  BY <3>1, <3>2, <3>3
  <2>2. CASE m \notin pit[n][x]
    <3>1. n = k /\ x = s /\ m = from
      BY <1>1, <2>2
    <3>2. hops[m][Prefix] = {n} /\ m # n /\ x \in fresh[m]
      BY <1>0, <3>1
    <3>3. pit[m][x] # {} /\ x \notin arrived[m]
      BY <1>0, <3>2 DEF GlobalInv, WayInv
    <3>4. pit'[m][x] # {}
      BY <1>1, <3>3
    <3>5. x \notin fresh'[m]
      BY <1>3, <3>1, <3>2
    <3> QED  BY <3>1, <3>2, <3>3, <3>4, <3>5
  <2> QED  BY <2>1, <2>2
<1>5. ASSUME x \in arrived[n]
      PROVE  pit'[n][x] # {} /\ x \notin fresh'[n]
  <2>1. pit[n][x] # {} /\ x \notin fresh[n]
    BY <1>5 DEF GlobalInv, WayInv
  <2>2. pit'[n][x] # {}
    BY <1>1, <2>1
  <2>3. x \notin fresh'[n]
    BY <1>3, <2>1
  <2> QED  BY <2>2, <2>3
<1>6. ASSUME pit'[n][x] # {}
      PROVE  \/ x \in fresh'[n] \/ x \in arrived[n]
             \/ \E m \in hops[n][Prefix] : n \in pit'[m][x]
  <2>1. CASE pit[n][x] = {}
    <3>1. n = k /\ x = s
      BY <1>1, <1>6, <2>1
    <3> QED  BY <1>3, <2>1, <3>1
  <2>2. CASE pit[n][x] # {} /\ n = from /\ x = s
    <3>1. hops[n][Prefix] = {k} /\ n \in pit'[k][x]
      BY <1>0, <1>1, <2>2
    <3> QED  BY <3>1
  <2>3. CASE pit[n][x] # {} /\ ~(n = from /\ x = s)
    <3>1. \/ x \in fresh[n] \/ x \in arrived[n]
          \/ \E m \in hops[n][Prefix] : n \in pit[m][x]
      BY <2>3 DEF GlobalInv, WayInv
    <3>2. ASSUME NEW m \in hops[n][Prefix], n \in pit[m][x]
          PROVE  n \in pit'[m][x]
      <4>1. m \in Router
        BY GlobalFacts
      <4> QED  BY <1>1, <3>2, <4>1
    <3> QED  BY <1>3, <2>3, <3>1, <3>2
  <2> QED  BY <2>1, <2>2, <2>3
<1> QED  BY <1>4, <1>5, <1>6

LEMMA ServeKeepsWay ==
  ASSUME GlobalInv, \A s \in SetUps : GlobalNet(s), NEW n \in Router,
         NEW s \in Number, s \in fresh[n], UNCHANGED <<hops, pit>>,
         fresh' = Taken(n, s), arrived' = [arrived EXCEPT ![n] = @ \cup {s}]
  PROVE  WayInv'
<1>0. /\ fresh \in Unanswereds /\ arrived \in Unanswereds
      /\ \A k \in Router : \A x \in fresh[k] : pit[k][x] # {}
  BY GlobalFacts
<1>1. \A k \in Router, x \in Number :
        /\ x \in fresh'[k] <=> x \in fresh[k] /\ ~(k = n /\ x = s)
        /\ x \in arrived'[k] <=> x \in arrived[k] \/ (k = n /\ x = s)
  BY <1>0 DEF Taken, Unanswereds
<1>2. \A k \in Router : n \notin pit[k][s]
  BY DEF GlobalInv, WayInv
<1>3. ASSUME NEW k \in Router, NEW x \in Number, NEW m \in pit[k][x] \cap Router
      PROVE  /\ hops[m][Prefix] = {k} /\ pit[m][x] # {}
             /\ x \notin fresh'[m] /\ x \notin arrived'[m]
  <2>1. /\ hops[m][Prefix] = {k} /\ pit[m][x] # {}
        /\ x \notin fresh[m] /\ x \notin arrived[m]
    BY DEF GlobalInv, WayInv
  <2>2. ~(m = n /\ x = s)
    BY <1>2
  <2> QED  BY <1>1, <2>1, <2>2
<1>4. ASSUME NEW k \in Router, NEW x \in Number, x \in arrived'[k]
      PROVE  pit[k][x] # {} /\ x \notin fresh'[k]
  <2>1. CASE k = n /\ x = s
    BY <1>0, <1>1, <2>1
  <2>2. CASE ~(k = n /\ x = s)
    <3>1. x \in arrived[k]
      BY <1>1, <1>4, <2>2
    <3>2. pit[k][x] # {} /\ x \notin fresh[k]
      BY <3>1 DEF GlobalInv, WayInv
    <3> QED  BY <1>1, <3>2
  <2> QED  BY <2>1, <2>2
<1>5. ASSUME NEW k \in Router, NEW x \in Number, pit[k][x] # {}
      PROVE  \/ x \in fresh'[k] \/ x \in arrived'[k]
             \/ \E m \in hops[k][Prefix] : k \in pit[m][x]
  <2>1. \/ x \in fresh[k] \/ x \in arrived[k]
        \/ \E m \in hops[k][Prefix] : k \in pit[m][x]
    BY <1>5 DEF GlobalInv, WayInv
  <2> QED  BY <1>1, <2>1
<1> QED  BY <1>3, <1>4, <1>5 DEF WayInv

\* Data that reaches a node goes to exactly those whose records are there.
LEMMA DataKeepsWay ==
  ASSUME GlobalInv, \A s \in SetUps : GlobalNet(s), NEW n \in Nodes,
         NEW s \in Number, OnData(n, s)
  PROVE  WayInv'
<1>0. /\ pit \in Pits /\ fresh \in Unanswereds /\ arrived \in Unanswereds
      /\ n \in Router /\ Nodes \subseteq Router /\ net \in SetUps
      /\ \A k \in Router, x \in Number : Air \notin pit[k][x]
      /\ hops \in [Router -> [Name -> SUBSET Router]] /\ Name = {Prefix}
      /\ App \notin Router /\ TwoWay(net) /\ ~net.shared
  <2>1. net \in SetUps /\ TwoWay(net)
    BY DEF GlobalInv, DeliveryTypeOK, GlobalNet
  <2> QED  BY <2>1, GlobalFacts
<1> DEFINE to == {m \in Neighbors(n) : pit[m][s] # {} /\ pit[n][s] \cap {m, Air} # {}}
<1>1. s \in arrived[n] /\ pit[n][s] # {}
  BY <1>0 DEF OnData, GlobalInv, WayInv
<1>2. /\ arrived' = [m \in Router |-> IF m = n THEN arrived[m] \ {s}
                                     ELSE IF m \in to THEN arrived[m] \cup {s}
                                     ELSE arrived[m]]
      /\ pit' = Dropped(n, s) /\ fresh' = Taken(n, s) /\ hops' = hops
  BY <1>1 DEF OnData, forwardingVars
<1>3. \A m \in Router : m \in to <=> m \in pit[n][s]
  <2>1. ASSUME NEW m \in to
        PROVE  m \in pit[n][s]
    BY <1>0, <2>1
  <2>2. ASSUME NEW m \in Router, m \in pit[n][s]
        PROVE  m \in to
    <3>1. m \in Records(n)
      BY <1>0, <2>2 DEF GlobalInv, RecordsInv
    <3>2. m \in Nodes /\ n \in Neighbors(m)
      BY <1>0, <2>2, <3>1 DEF Records
    <3>3. <<m, n>> \in net.links
      BY <3>2 DEF Neighbors
    <3>4. <<n, m>> \in net.links
      BY <1>0, <3>3 DEF TwoWay
    <3>5. pit[m][s] # {}
      BY <1>0, <2>2 DEF GlobalInv, WayInv
    <3> QED  BY <2>2, <3>2, <3>4, <3>5 DEF Neighbors
  <2> QED  BY <2>1, <2>2
<1> HIDE DEF to
<1>4. n \notin pit[n][s] /\ \A k \in Router : n \notin pit[k][s]
  BY <1>0, <1>1 DEF GlobalInv, WayInv
<1>5. \A k \in Router, x \in Number :
        pit'[k][x] = IF k = n /\ x = s THEN {} ELSE pit[k][x]
  BY <1>0, <1>2 DEF Dropped, Pits
<1>6. \A k \in Router, x \in Number :
        x \in fresh'[k] <=> x \in fresh[k] /\ ~(k = n /\ x = s)
  BY <1>0, <1>2 DEF Taken, Unanswereds
<1>7. \A k \in Router, x \in Number :
        x \in arrived'[k] <=> \/ x \in arrived[k] /\ ~(k = n /\ x = s)
                              \/ x = s /\ k \in pit[n][s]
  BY <1>0, <1>2, <1>3, <1>4 DEF Unanswereds
<1>8. ASSUME NEW k \in Router, NEW x \in Number, NEW m \in pit'[k][x] \cap Router
      PROVE  /\ hops[m][Prefix] = {k} /\ pit'[m][x] # {}
             /\ x \notin fresh'[m] /\ x \notin arrived'[m]
  <2>1. ~(k = n /\ x = s) /\ m \in pit[k][x]
    BY <1>5, <1>8
  <2>2. /\ hops[m][Prefix] = {k} /\ pit[m][x] # {}
        /\ x \notin fresh[m] /\ x \notin arrived[m]
    BY <2>1 DEF GlobalInv, WayInv
  <2>3. ~(m = n /\ x = s)
    BY <1>4, <2>1
  <2>4. pit'[m][x] # {}
    BY <1>5, <2>2, <2>3
  <2>5. ~(x = s /\ m \in pit[n][s])
    <3>1. ASSUME x = s, m \in pit[n][s]
          PROVE  FALSE
      <4>1. hops[m][Prefix] = {n}
        BY <1>0, <3>1 DEF GlobalInv, WayInv
      <4> QED  BY <2>1, <2>2, <3>1, <4>1
    <3> QED  BY <3>1
  <2>6. x \notin fresh'[m]
    BY <1>6, <2>2
  <2>7. x \notin arrived'[m]
    BY <1>7, <2>2, <2>5
  <2> QED  BY <2>2, <2>4, <2>6, <2>7
<1>9. ASSUME NEW k \in Router, NEW x \in Number, x \in arrived'[k]
      PROVE  pit'[k][x] # {} /\ x \notin fresh'[k]
  <2>1. /\ ~(k = n /\ x = s)
        /\ x \in arrived[k] \/ (x = s /\ k \in pit[n][s])
    BY <1>4, <1>7, <1>9
  <2>2. pit[k][x] # {} /\ x \notin fresh[k]
    <3>1. CASE x \in arrived[k]
      BY <3>1 DEF GlobalInv, WayInv
    <3>2. CASE x = s /\ k \in pit[n][s]
      BY <1>0, <3>2 DEF GlobalInv, WayInv
    <3> QED  BY <2>1, <3>1, <3>2
  <2>3. pit'[k][x] # {}
    BY <1>5, <2>1, <2>2
  <2>4. x \notin fresh'[k]
    BY <1>6, <2>2
  <2> QED  BY <2>3, <2>4
<1>10. ASSUME NEW k \in Router, NEW x \in Number, pit'[k][x] # {}
       PROVE  \/ x \in fresh'[k] \/ x \in arrived'[k]
              \/ \E m \in hops[k][Prefix] : k \in pit'[m][x]
  <2>1. ~(k = n /\ x = s) /\ pit[k][x] # {}
    BY <1>5, <1>10
  <2>2. \/ x \in fresh[k] \/ x \in arrived[k]
        \/ \E m \in hops[k][Prefix] : k \in pit[m][x]
    BY <2>1 DEF GlobalInv, WayInv
  <2>3. CASE x \in fresh[k]
    BY <1>6, <2>1, <2>3
  <2>4. CASE x \in arrived[k]
    BY <1>7, <2>1, <2>4
  <2>5. ASSUME NEW m \in hops[k][Prefix], k \in pit[m][x]
        PROVE  x \in arrived'[k] \/ k \in pit'[m][x]
    <3>1. m \in Router
      BY <1>0
    <3>2. CASE m = n /\ x = s
      BY <1>7, <2>5, <3>2
    <3>3. CASE ~(m = n /\ x = s)
      BY <1>5, <2>5, <3>1, <3>3
    <3> QED  BY <3>2, <3>3
  <2> QED  BY <2>2, <2>3, <2>4, <2>5
<1> QED  BY <1>2, <1>8, <1>9, <1>10 DEF WayInv

LEMMA GlobalInit ==
  ASSUME DeliveryInit, \A s \in SetUps : GlobalNet(s)
  PROVE  GlobalInv
<1>1. net.routing = "global" /\ Name = {Prefix}
  BY DeliveryAssumption DEF DeliveryInit, GlobalNet
<1>2. PICK r \in FirstRoutes : hops = [n \in Router |-> [p \in Name |-> r[n]]]
  BY DEF DeliveryInit
<1>3. /\ \A n \in Nodes : IF Serves(n) THEN r[n] = {}
                           ELSE \E m \in Neighbors(n) : r[n] = {m}
      /\ \A n \in Router \ Nodes : r[n] = {}
  BY <1>1, <1>2 DEF FirstRoutes
<1>4. \A n \in Router : hops[n][Prefix] = r[n]
  BY <1>1, <1>2
<1>5. Nodes \subseteq Router
  BY NodesAreRouters DEF DeliveryInit
<1>6. GlobalRoutes
  BY <1>3, <1>4, <1>5 DEF GlobalRoutes
<1>7. WayInv
  BY DEF DeliveryInit, WayInv
<1> QED  BY <1>6, <1>7, DeliveryInitType, RecordsInit, RoutesInit DEF GlobalInv

LEMMA GlobalStep ==
  ASSUME GlobalInv, \A s \in SetUps : GlobalNet(s), [DeliveryNext]_deliveryVars
  PROVE  GlobalInv' /\ [\A c \in Nodes : ~Fails(c)]_deliveryVars
<1>0. /\ net.routing = "global" /\ Nodes \subseteq Router /\ App \notin Router
      /\ Name = {Prefix} /\ hops \in [Router -> [Name -> SUBSET Router]]
      /\ pit \in Pits /\ fresh \in Unanswereds /\ arrived \in Unanswereds
  BY GlobalFacts
<1>1. DeliveryTypeOK' /\ RecordsInv' /\ RoutesInv'
  BY DeliveryTypeStep, RecordsStep, RoutesStep DEF GlobalInv
<1>2. ASSUME NEW n \in Nodes, ChangeRoute(n) \/ LearnSharedRoute(n)
      PROVE  FALSE
  BY <1>0, <1>2 DEF ChangeRoute, LearnSharedRoute
<1>3. ASSUME NEW c \in Nodes, RequestSyncData(c)
      PROVE  /\ UNCHANGED <<forwardingVars, net>> /\ WayInv'
             /\ \A n \in Router, x \in Number : pit[n][x] \subseteq pit'[n][x]
  <2> DEFINE s == IF next[c] = MaxNumber THEN 0 ELSE next[c]
  <2>1. next[c] \in 0..MaxNumber
    BY <1>0 DEF GlobalInv, DeliveryTypeOK
  <2>2. s \in Number
    BY <2>1, DeliveryAssumption DEF Number
  <2>3. Enter({c}, App, s, pit, fresh) /\ UNCHANGED <<forwardingVars, net, arrived>>
    BY <1>3 DEF RequestSyncData
  <2> HIDE DEF s
  <2>4. App \in Side /\ hops' = hops /\ c \in Router
    BY <1>0, <2>3 DEF Side, forwardingVars
  <2>5. WayInv'
    BY <1>0, <2>2, <2>3, <2>4, EnterKeepsWay
  <2>6. \A n \in Router, x \in Number : pit[n][x] \subseteq pit'[n][x]
    BY <1>0, <2>3 DEF Enter, Pits
  <2> QED  BY <2>3, <2>5, <2>6
<1>4. ASSUME NEW n \in Nodes, NEW s \in Number, Forward(n, s)
      PROVE  /\ UNCHANGED <<forwardingVars, net>> /\ WayInv'
             /\ \A k \in Router, x \in Number : pit[k][x] \subseteq pit'[k][x]
  <2>1. /\ s \in fresh[n] /\ UNCHANGED <<forwardingVars, net>> /\ hops' = hops
        /\ n \in Router
    BY <1>0, <1>4 DEF Forward, forwardingVars
  <2>2. CASE Serves(n)
    <3>1. /\ arrived' = [arrived EXCEPT ![n] = @ \cup {s}]
          /\ fresh' = Taken(n, s) /\ pit' = pit
      BY <1>4, <2>2 DEF Forward
    <3> QED  BY <2>1, <3>1, ServeKeepsWay
  <2>3. CASE ~Serves(n)
    <3>1. PICK m \in Router : /\ hops[n][Prefix] = {m} /\ m # n
                              /\ Targets(n, s) = {{m}} /\ FaceOf(n) = n
      BY <2>3, GlobalTarget
    <3>2. Enter({m}, n, s, pit, Taken(n, s)) /\ arrived' = arrived
      BY <1>4, <2>3, <3>1 DEF Forward
    <3>3. Taken(n, s) \in Unanswereds
      BY <2>1, DropStep DEF GlobalInv
    <3>4. n \in Side
      BY <2>1 DEF Side
    <3>5. WayInv'
      BY <2>1, <3>1, <3>2, <3>3, <3>4, EnterKeepsWay
    <3>6. \A k \in Router, x \in Number : pit[k][x] \subseteq pit'[k][x]
      BY <1>0, <3>2 DEF Enter, Pits
    <3> QED  BY <2>1, <3>5, <3>6
  <2> QED  BY <2>2, <2>3
<1>5. ASSUME NEW n \in Nodes, NEW s \in Number, OnData(n, s)
      PROVE  /\ UNCHANGED <<forwardingVars, net>> /\ WayInv'
             /\ \A k \in Router, x \in Number :
                  pit[k][x] \subseteq pit'[k][x] \/ x \in arrived[k]
  <2>1. s \in arrived[n] /\ UNCHANGED <<forwardingVars, net>> /\ n \in Router
    BY <1>0, <1>5 DEF OnData
  <2>2. pit' = pit \/ pit' = Dropped(n, s)
    BY <1>5 DEF OnData
  <2>3. \A k \in Router, x \in Number :
          pit[k][x] \subseteq pit'[k][x] \/ x \in arrived[k]
    BY <2>1, <2>2, DropStep DEF GlobalInv
  <2> QED  BY <1>5, <2>1, <2>3, DataKeepsWay
<1>6. ASSUME NEW s \in Number, Expire(s)
      PROVE  FALSE
  BY <1>6, SomethingMoves DEF Expire
<1>7. ASSUME UNCHANGED deliveryVars
      PROVE  /\ UNCHANGED <<forwardingVars, net>> /\ WayInv'
  <2>1. WayInv'
    BY <1>7 DEF GlobalInv, WayInv, deliveryVars, forwardingVars, packetVars
  <2> QED  BY <1>7, <2>1 DEF deliveryVars
<1>8. /\ UNCHANGED <<forwardingVars, net>> /\ WayInv'
      /\ \/ UNCHANGED deliveryVars
         \/ \A k \in Router, x \in Number :
              pit[k][x] \subseteq pit'[k][x] \/ x \in arrived[k]
  BY <1>2, <1>3, <1>4, <1>5, <1>6, <1>7 DEF DeliveryNext
<1>9. GlobalRoutes'
  BY <1>8 DEF GlobalInv, GlobalRoutes, forwardingVars, Serves, Nodes, Neighbors
<1>10. [\A c \in Nodes : ~Fails(c)]_deliveryVars
  BY <1>0, <1>8 DEF Fails
<1> QED  BY <1>1, <1>8, <1>9, <1>10 DEF GlobalInv

\* Where routes do not change, on grids and in any other network with two-way
\* links, no request ever fails, whoever asks and however requests meet on
\* their way: no Interest is dropped, and none waits until it expires.  That is
\* what SettledAnswers promises of routes that have settled
\* (rangeconsumer.cpp:60-87; ndn-grid-global-best.cpp:37-86).
THEOREM NoRequestFails ==
  ASSUME \A s \in SetUps : GlobalNet(s)
  PROVE  DeliverySpec => [][\A c \in Nodes : ~Fails(c)]_deliveryVars
<1>1. GlobalInv /\ [DeliveryNext]_deliveryVars
        => GlobalInv' /\ [\A c \in Nodes : ~Fails(c)]_deliveryVars
  BY GlobalStep
<1>2. DeliveryInit => GlobalInv
  BY GlobalInit
<1> QED  BY <1>1, <1>2, PTL DEF DeliverySpec

-----------------------------------------------------------------------------
(* Scenarios.                                                              *)

\* Radios at equal range hear each other, and nobody itself.
LEMMA GridLinksAreTwoWay ==
  ASSUME NEW num \in Nat, NEW width \in Nat \ {0}, NEW distance \in Nat,
         NEW range \in Nat,
         NEW l \in GridPositions(num, width, distance, range)
  PROVE  l[1] # l[2] /\ <<l[2], l[1]>> \in GridPositions(num, width, distance, range)
<1>1. \A i \in 0..(num - 1) : Column(i, width) \in Int /\ Row(i, width) \in Int
  BY DEF Column, Row
<1>2. \A x, y \in Int : Apart(x, y) = Apart(y, x)
  BY DEF Apart
<1>3. l[1] \in 0..(num - 1) /\ l[2] \in 0..(num - 1) /\ l[1] # l[2]
  BY DEF GridPositions
<1>4. /\ Apart(Column(l[1], width), Column(l[2], width))
           = Apart(Column(l[2], width), Column(l[1], width))
      /\ Apart(Row(l[1], width), Row(l[2], width))
           = Apart(Row(l[2], width), Row(l[1], width))
  BY <1>1, <1>2, <1>3
<1> QED  BY <1>3, <1>4 DEF GridPositions

\* NoRequestFails holds of the grids of ndn-grid-global-best.cpp, of any size.
LEMMA GlobalGridsAreGlobalNets ==
  ASSUME NEW num \in Nat \ {0}
  PROVE  GlobalNet(ndn_grid_global_best(num))
<1>1. num * num \in Nat /\ 1 \in Nat
  BY Z3
<1>2. ndn_grid_global_best(num).links = GridPositions(num * num, num, 1, 1)
  BY DEF ndn_grid_global_best, SetUp, PointToPointGrid
<1>3. \A l \in GridPositions(num * num, num, 1, 1) :
        l[1] # l[2] /\ <<l[2], l[1]>> \in GridPositions(num * num, num, 1, 1)
  BY <1>1, GridLinksAreTwoWay
<1> QED  BY <1>2, <1>3 DEF GlobalNet, TwoWay, ndn_grid_global_best, SetUp

=============================================================================
