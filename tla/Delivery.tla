-------------------------------- MODULE Delivery --------------------------------
(***************************************************************************)
(* What the routes are for: the consumers of a scenario (RangeConsumer,    *)
(* ConsumerCbr) ask a producer for one number after the other, over routes *)
(* that NDVR is still changing.                                            *)
(*                                                                         *)
(* Routes change as module Forwarding allows, which DistanceVector and     *)
(* Ndvr implement where each neighbour has a face of its own.  The         *)
(* forwarder (PIT and strategies of NFD) is external; content stores, which *)
(* only answer sooner, are left out.  Links lose nothing: what can go wrong *)
(* here is left to the routes.                                             *)
(***************************************************************************)
EXTENDS Forwarding, Scenarios

CONSTANTS
  SetUps,      \* scenarios, see module Scenarios
  Prefix,      \* the one name prefix looked at
  MaxNumber,   \* the largest uint32_t
  MaxChanges,  \* bound of the changes of routes: they settle
  App,         \* the face to a node's own application
  Air          \* the broadcast face that all neighbours share

\* Milliseconds from one request to the next; at 0 time would stand still.
Wait(frequency) == 1000 \div frequency

ASSUME DeliveryAssumption ==
  /\ Name = {Prefix}
  /\ App \notin Router
  /\ Air \notin Router \cup {App}
  /\ MaxNumber \in Nat \ {0}
  /\ MaxChanges \in Nat
  /\ \A s \in SetUps : /\ s.links \subseteq Router \X Router
                        /\ DOMAIN s.serves \subseteq Router
                        /\ s.routing \in {"ndvr", "default", "global"}
                        /\ Wait(s.frequency) > 0

VARIABLES
  net,      \* the scenario
  changes,  \* how often routes have changed
  next,     \* the number each consumer asks for next
  pit,      \* the faces on which a node was asked for a number
  fresh,    \* numbers whose PIT entry is new: the Interest is to be forwarded
  arrived   \* numbers whose Data has reached the node

packetVars == <<pit, fresh, arrived>>
deliveryVars == <<forwardingVars, net, changes, next, packetVars>>

Number == 0..(MaxNumber - 1)

DeliveryTypeOK ==
  /\ ForwardingTypeOK
  /\ net \in SetUps
  /\ changes \in 0..MaxChanges
  /\ next \in [Router -> 0..MaxNumber]
  /\ pit \in [Router -> [Number -> SUBSET (Router \cup {App, Air})]]
  /\ fresh \in [Router -> SUBSET Number]
  /\ arrived \in [Router -> SUBSET Number]
  /\ \A n \in Router : \A s \in fresh[n] : pit[n][s] # {}

Nodes == DOMAIN net.serves
Neighbors(n) == {m \in Nodes : <<n, m>> \in net.links}
Serves(n) == Prefix \in serves[n]

\* The face that a node's packets come in on at its neighbours.
FaceOf(n) == IF net.shared THEN Air ELSE n

\* The routes a scenario starts with: none, a default route through every
\* face, or those that GlobalRoutingHelper calculates.
FirstRoutes ==
  CASE net.routing = "ndvr" -> {[n \in Router |-> {}]}
    [] net.routing = "default" ->
         {[n \in Router |-> IF n \in Nodes THEN Neighbors(n) ELSE {}]}
    [] net.routing = "global" ->
         {r \in [Router -> SUBSET Router] :
            /\ \A n \in Nodes : IF Serves(n) THEN r[n] = {}
                                ELSE \E m \in Neighbors(n) : r[n] = {m}
            /\ \A n \in Router \ Nodes : r[n] = {}
            /\ NoCircle([n \in Router |-> [p \in Name |-> r[n]]])}

DeliveryInit ==
  /\ net \in SetUps
  /\ \E i \in UNION {net.serves[n] : n \in DOMAIN net.serves} :
       serves = [n \in Router |->
                   IF n \in Nodes /\ i \in net.serves[n] THEN Name ELSE {}]
  /\ \E r \in FirstRoutes : hops = [n \in Router |-> [p \in Name |-> r[n]]]
  /\ changes = 0
  /\ next = [n \in Router |-> 0]
  /\ pit = [n \in Router |-> [s \in Number |-> {}]]
  /\ fresh = [n \in Router |-> {}]
  /\ arrived = [n \in Router |-> {}]

-----------------------------------------------------------------------------
(* Routes.                                                                 *)

\* A table has one next hop for a prefix.
ChangeRoute(n) ==
  /\ net.routing = "ndvr" /\ ~net.shared
  /\ changes < MaxChanges
  /\ \E m \in Neighbors(n) : hops' = [hops EXCEPT ![n][Prefix] = {m}]
  /\ changes' = changes + 1
  /\ Reroute(n)
  /\ UNCHANGED <<net, next, packetVars>>

\* On a broadcast face that all neighbours share, the route that some
\* neighbour's vector gave leads to all of them.
LearnSharedRoute(n) ==
  /\ net.routing = "ndvr" /\ net.shared
  /\ ~Serves(n)
  /\ hops[n][Prefix] = {}
  /\ \E m \in Neighbors(n) : Serves(m) \/ hops[m][Prefix] # {}
  /\ hops' = [hops EXCEPT ![n][Prefix] = Neighbors(n)]
  /\ UNCHANGED <<serves, net, changes, next, packetVars>>

-----------------------------------------------------------------------------
(* The consumer.                                                           *)

\* Interests for s reach the nodes from the given side; entries they find are
\* joined, others are new.
Enter(nodes, from, s, entries, new) ==
  /\ pit' = [n \in Router |-> IF n \in nodes
                                THEN [entries[n] EXCEPT ![s] = @ \cup {from}]
                                ELSE entries[n]]
  /\ fresh' = [n \in Router |-> IF n \in nodes /\ entries[n][s] = {}
                                  THEN new[n] \cup {s} ELSE new[n]]

\* Mutant: the event captures the number as it was before the wrap.
RequestSyncDataOfCaller(c) ==
  LET s == IF next[c] = MaxNumber THEN 0 ELSE next[c] IN
  /\ c \in net.consumers
  /\ App \notin pit[c][s]
  /\ Enter({c}, App, s, pit, fresh)
  /\ next' = [next EXCEPT ![c] = @ + 1]
  /\ UNCHANGED <<forwardingVars, net, changes, arrived>>

\* Called by Start and by the event it schedules.  A number comes again after
\* 2^32 requests, long after an Interest for it has expired.
RequestSyncData(c) ==
  LET s == IF next[c] = MaxNumber THEN 0 ELSE next[c] IN
  /\ c \in net.consumers
  /\ App \notin pit[c][s]
  /\ Enter({c}, App, s, pit, fresh)
  /\ next' = [next EXCEPT ![c] = s + 1]
  /\ UNCHANGED <<forwardingVars, net, changes, arrived>>

-----------------------------------------------------------------------------
(* The forwarder.                                                          *)

\* Where a new entry's Interest may go: through every next hop's face, or
\* through one; a radio face that all share may lead back to where it came from.
Targets(n, s) ==
  LET hop == hops[n][Prefix] \ pit[n][s] IN
  IF net.shared \/ net.strategy = "multicast" \/ hop = {} THEN {hop}
  ELSE {{m} : m \in hop}

Dropped(n, s) == [pit EXCEPT ![n][s] = {}]
Taken(n, s) == [fresh EXCEPT ![n] = @ \ {s}]

\* The Interest is answered here, goes on, or has nowhere to go.
Forward(n, s) ==
  /\ s \in fresh[n]
  /\ IF Serves(n)
       THEN /\ arrived' = [arrived EXCEPT ![n] = @ \cup {s}]
            /\ fresh' = Taken(n, s)
            /\ UNCHANGED pit
       ELSE /\ UNCHANGED arrived
            /\ \E to \in Targets(n, s) :
                 IF to = {} THEN pit' = Dropped(n, s) /\ fresh' = Taken(n, s)
                            ELSE Enter(to, FaceOf(n), s, pit, Taken(n, s))
  /\ UNCHANGED <<forwardingVars, net, changes, next>>

\* Data satisfies the entry and goes out of the faces it was asked for on, the
\* broadcast face's to every neighbour; nobody waits for unsolicited Data.
OnData(n, s) ==
  LET to == {m \in Neighbors(n) : pit[m][s] # {} /\ pit[n][s] \cap {m, Air} # {}} IN
  /\ s \in arrived[n]
  /\ IF pit[n][s] = {}
       THEN /\ arrived' = [arrived EXCEPT ![n] = @ \ {s}]
            /\ UNCHANGED <<pit, fresh>>
       ELSE /\ arrived' = [m \in Router |->
                             IF m = n THEN arrived[m] \ {s}
                             ELSE IF m \in to THEN arrived[m] \cup {s}
                             ELSE arrived[m]]
            /\ pit' = Dropped(n, s)
            /\ fresh' = Taken(n, s)
  /\ UNCHANGED <<forwardingVars, net, changes, next>>

\* Entries outlive every packet under way: they expire when nothing moves.
Expire(s) ==
  /\ \A n \in Router : s \notin fresh[n] \cup arrived[n]
  /\ \E n \in Router : pit[n][s] # {}
  /\ pit' = [n \in Router |-> [pit[n] EXCEPT ![s] = {}]]
  /\ UNCHANGED <<forwardingVars, net, changes, next, fresh, arrived>>

-----------------------------------------------------------------------------
DeliveryNext ==
  \/ \E n \in Nodes : ChangeRoute(n)
  \/ \E n \in Nodes : LearnSharedRoute(n)
  \/ \E c \in Nodes : RequestSyncData(c)
  \/ \E n \in Nodes, s \in Number : Forward(n, s)
  \/ \E n \in Nodes, s \in Number : OnData(n, s)
  \/ \E s \in Number : Expire(s)

DeliverySpec == DeliveryInit /\ [][DeliveryNext]_deliveryVars

\* The consumer's timer fires again and again, links deliver, entries expire.
\* Nothing makes a route change.
DeliveryFairSpec ==
  /\ DeliverySpec
  /\ \A n \in Router : WF_deliveryVars(n \in Nodes /\ RequestSyncData(n))
  /\ \A n \in Router, s \in Number :
       WF_deliveryVars(n \in Nodes /\ (Forward(n, s) \/ OnData(n, s)))
  /\ \A s \in Number : WF_deliveryVars(Expire(s))

-----------------------------------------------------------------------------
(* Properties.                                                             *)

HasRoute(c) == Serves(c) \/ hops[c][Prefix] # {}

\* OnSyncDataContent is called.
Hears(c) == \E s \in Number : App \in pit[c][s] /\ OnData(c, s)

\* The request ends with no Data: OnSyncDataTimedOut or OnSyncDataNack.
Fails(c) ==
  \E s \in Number : App \in pit[c][s] \ pit'[c][s] /\ s \notin arrived[c]

\* A consumer that has a route hears of its producer again and again, though
\* a request that times out is never repeated and routes go on changing
\* under Interests that wait (rangeconsumer.cpp:60-93).
EveryoneHears ==
  \A c \in Router :
    []<><<c \in net.consumers /\ HasRoute(c) => Hears(c)>>_deliveryVars

\* Once everyone has a route and routes have settled every request is
\* answered: entries that changes left pointing at each other go away, and
\* one next hop after the other leads to the producer (ndvr.cpp:722-805).
SettledAnswers ==
  <>[][(\A c \in Nodes : HasRoute(c)) => \A c \in Nodes : ~Fails(c)]_deliveryVars
=============================================================================
