---------------------------- MODULE DistanceVector ----------------------------
(***************************************************************************)
(* What NDVR promises, without saying when a vector is asked for, how it   *)
(* travels or when a neighbour is given up: a router may publish its       *)
(* distance vector at any time, a neighbour may merge any vector that was  *)
(* ever published (late, twice, out of order, or never), and may give the  *)
(* publisher up at any time.  Module Ndvr implements this one.             *)
(***************************************************************************)
EXTENDS RoutingTable

CONSTANTS
  Node,          \* the routers; also their names in the FIB
  Link,          \* the ordered pairs <<n, m>> where n can hear m
  FaceTo,        \* the face through which n reaches the neighbour m
  NamePrefixes,  \* npv: the prefixes each router is started with
  LatePrefixes,  \* those that a router may be told to announce later
  MaxSeq         \* bound of the sequence numbers

ASSUME DistanceVectorAssumption ==
  /\ Link \subseteq {l \in Node \X Node : l[1] # l[2]}
  /\ FaceTo \in [Link -> Face]
  /\ NamePrefixes \in [Node -> SUBSET Prefix]
  /\ LatePrefixes \in [Node -> SUBSET Prefix]
  /\ Node \cap Prefix = {}
  /\ MaxSeq \in Nat \ {0}

\* Each neighbour has a face of its own: point-to-point links, or the
\* unicast faces that EnableUnicastFaces creates on a broadcast channel.
UnicastFaces ==
  \A n, m, k \in Node :
    (<<n, m>> \in Link /\ <<n, k>> \in Link /\ FaceTo[<<n, m>>] = FaceTo[<<n, k>>])
      => m = k

VARIABLES
  rt,      \* each router's routing table
  fib,     \* each node's FIB, as far as NDVR writes it
  nbrs,    \* each router's neighbours (m_neighMap)
  adverts  \* every vector published so far, with its publisher

vars == <<rt, fib, nbrs, adverts>>

TypeOK ==
  /\ rt \in [Node -> Table]
  /\ fib \in [Node -> SUBSET ((Prefix \cup Node) \X Face)]
  /\ nbrs \in [Node -> SUBSET Node]
  /\ adverts \subseteq [from : Node, vector : Vector]

Init ==
  /\ rt = [n \in Node |-> [p \in Prefix |->
             IF p \in NamePrefixes[n] THEN DirectEntry(1) ELSE NoRoute]]
  /\ fib = [n \in Node |-> {}]
  /\ nbrs = [n \in Node |-> {}]
  /\ adverts = {}

\* The first hello of m: it becomes a neighbour and its name is routed to it.
Discover(n, m) ==
  /\ <<n, m>> \in Link
  /\ m \notin nbrs[n]
  /\ nbrs' = [nbrs EXCEPT ![n] = @ \cup {m}]
  /\ fib' = [fib EXCEPT ![n] = @ \cup {<<m, FaceTo[<<n, m>>]>>}]
  /\ UNCHANGED <<rt, adverts>>

Advertise(n) ==
  /\ adverts' = adverts \cup {[from |-> n, vector |-> EncodeDvInfo(rt[n])]}
  /\ UNCHANGED <<rt, fib, nbrs>>

Merge(n, a) ==
  /\ <<n, a.from>> \in Link
  /\ a.from \in nbrs[n]
  /\ LET face == FaceTo[<<n, a.from>>] IN
     /\ rt' = [rt EXCEPT ![n] = MergeTable(@, a.vector, face)]
     /\ fib' = [fib EXCEPT ![n] = MergeFib(@, rt[n], a.vector, face)]
  /\ UNCHANGED <<nbrs, adverts>>

RemoveNeighbor(n, m) ==
  /\ <<n, m>> \in Link
  /\ m \in nbrs[n]
  /\ LET left == WithdrawTable(rt[n], FaceTo[<<n, m>>]) IN
     /\ \A p \in Known(left) : left[p].seq <= MaxSeq
     /\ rt' = [rt EXCEPT ![n] = left]
  /\ nbrs' = [nbrs EXCEPT ![n] = @ \ {m}]
  /\ UNCHANGED <<fib, adverts>>

\* A prefix that n starts to serve (again) while the daemon runs.
AdvNamePrefix(n, p) ==
  /\ p \in LatePrefixes[n]
  /\ rt' = [rt EXCEPT ![n] = Insert(@, p, DirectEntry(1))]
  /\ UNCHANGED <<fib, nbrs, adverts>>

Next ==
  \/ \E n, m \in Node : Discover(n, m)
  \/ \E n \in Node : Advertise(n)
  \/ \E n \in Node, a \in adverts : Merge(n, a)
  \/ \E n, m \in Node : RemoveNeighbor(n, m)
  \/ \E n \in Node, p \in Prefix : AdvNamePrefix(n, p)

Spec == Init /\ [][Next]_vars

-----------------------------------------------------------------------------
(* Properties.                                                             *)

\* n forwards Interests for p to m: the FIB says so, and n does not serve p.
ForwardsTo(n, m, p) ==
  /\ <<n, m>> \in Link
  /\ <<p, FaceTo[<<n, m>>]>> \in fib[n]
  /\ ~isDirectRoute(rt[n], p)

\* No set of routers passes Interests for a prefix around among themselves:
\* what the sequence numbers are for.  It holds of the FIB as the code leaves
\* it, with the next hops of withdrawn routes that RemoveNeighbor never
\* unregisters (ndvr.cpp:286-322).
NoForwardingLoop ==
  \A p \in Prefix : \A S \in SUBSET Node :
    S # {} => \E n \in S : \A m \in S : ~ForwardsTo(n, m, p)

\* Every next hop knows the prefix itself, so that an Interest is not sent to a
\* router that would drop it: entries are withdrawn and never lost, and only
\* what a router knows is in the vectors it published (ndvr.cpp:299-308,
\* 711-720).  With NoForwardingLoop every path of next hops ends at a router
\* that serves the prefix.
RoutesLeadOn ==
  \A n, m \in Node, p \in Prefix :
    ForwardsTo(n, m, p) => LookupRoute(rt[m], p)

\* For every prefix a router does not serve itself, the FIB holds exactly the
\* next hop of the table's entry, and nothing when there is no entry: AddRoute,
\* UpdateRoute and DeleteRoute keep the two in step (routing-table.cpp:53-73).
FibMatchesTable ==
  \A n \in Node, p \in Prefix :
    ~isDirectRoute(rt[n], p) =>
      {f \in Face : <<p, f>> \in fib[n]} =
        (IF LookupRoute(rt[n], p) THEN {rt[n][p].face} ELSE {})

\* Sequence numbers are the origin's: a usable learned route carries a number
\* that some router published at cost 0, however the withdrawals of
\* RemoveNeighbor drift (ndvr.cpp:302-311, 764-788).
SeqIssuedByOrigin ==
  \A n \in Node, p \in Prefix :
    (/\ LookupRoute(rt[n], p)
     /\ ~isDirectRoute(rt[n], p)
     /\ isValidCost(rt[n][p].cost))
      => \E a \in adverts : /\ a.vector[p] # NoRoute
                            /\ a.vector[p].cost = 0
                            /\ a.vector[p].seq = rt[n][p].seq

\* Later sequence number, or the same at a lower cost.
Fresher(e, d) == e.seq > d.seq \/ (e.seq = d.seq /\ e.cost < d.cost)

\* A route never goes back: an entry is only replaced by a fresher one or by
\* the router's own, and is never lost (ndvr.cpp:764-793).
RoutesOnlyGetFresher ==
  [][\A n \in Node, p \in Prefix :
       LookupRoute(rt[n], p) =>
         /\ LookupRoute(rt'[n], p)
         /\ \/ rt'[n][p] = rt[n][p]
            \/ Fresher(rt'[n][p], rt[n][p])
            \/ rt'[n][p] = DirectEntry(1)]_vars

\* Giving up m withdraws the routes learned from m and no others: a usable
\* route that turns infinite carries a distance that m published. True when
\* every neighbour has a face of its own (ndvr.cpp:297-307).
OthersKeepTheirRoutes ==
  [][\A n \in Node : \A m \in nbrs[n] \ nbrs'[n], p \in Prefix :
       (/\ LookupRoute(rt[n], p) /\ isValidCost(rt[n][p].cost)
        /\ LookupRoute(rt'[n], p) /\ ~isValidCost(rt'[n][p].cost))
         => \E a \in adverts : /\ a.from = m
                               /\ a.vector[p] # NoRoute
                               /\ a.vector[p].seq = rt[n][p].seq
                               /\ a.vector[p].cost + 1 = rt[n][p].cost]_vars

\* What this module does for those who forward Interests.
Routes == INSTANCE Forwarding WITH
  Router <- Node,
  Name <- Prefix,
  serves <- [n \in Node |-> {p \in Prefix : isDirectRoute(rt[n], p)}],
  hops <- [n \in Node |-> [p \in Prefix |-> {m \in Node : ForwardsTo(n, m, p)}]]

\* Module Forwarding is implemented: whatever is merged and whoever is given
\* up, routes change at one router at a time, are not taken away, and lead
\* without circles to a router that serves the prefix (ndvr.cpp:286-322,
\* 722-805, 822-840).
ImplementsForwarding == Routes!ForwardingSpec
=============================================================================
