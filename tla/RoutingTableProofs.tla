-------------------------- MODULE RoutingTableProofs --------------------------
(***************************************************************************)
(* What the operations of the routing table return, preserve and bound,    *)
(* for every table, every vector and every face.                           *)
(***************************************************************************)
EXTENDS RoutingTable, TLAPS

\* Below infinity the cost of one more hop is one more: no wrap to 0, the
\* sanity check of processDvInfoFromNeighbor sees to it (ndvr.cpp:734, 808).
LEMMA CostOfOneMoreHop ==
  ASSUME NEW cost \in 0..InfCost, isValidCost(cost)
  PROVE  CalculateCostToNeigh(cost) = cost + 1 /\ cost + 1 \in 0..InfCost
  BY RoutingTableAssumption, Z3 DEF CalculateCostToNeigh, isValidCost

\* The branch that deletes a route its next hop reports as unreachable is
\* never taken: the sanity check has already skipped such an entry
\* (ndvr.cpp:734, 749-760).
THEOREM InfinityNeverDeletes ==
  ASSUME NEW rt \in Table, NEW vec \in Vector, NEW p \in Prefix, NEW face
  PROVE  ~Deletes(rt, vec, p, face)
  BY RoutingTableAssumption
     DEF Deletes, Skips, isInfinityCost, isValidCost, Vector, Distance

\* A newer number at the cost of the route changes nothing of the entry: it is
\* set on the copy that LookupRoute filled, which goes with the iteration of
\* the loop, though the log says "New SeqNum same cost, update name prefix!"
\* (ndvr.cpp:737-738, 769-775).
THEOREM NewerNumberAtSameCostIsLost ==
  ASSUME NEW rt \in Table, NEW vec \in Vector, NEW p \in Prefix, NEW face,
         ~Skips(rt, vec, p),
         LookupRoute(rt, p),
         vec[p].seq > rt[p].seq,
         CalculateCostToNeigh(vec[p].cost) = rt[p].cost
  PROVE  MergeEntry(rt, vec, p, face) = rt[p]
<1>1. ~Adopts(rt, vec, p)
  BY DEF Adopts, IsNewPrefix, IsNewerAtOtherCost, IsSameSeqAndCheaper, Skips,
         Vector, Distance, Table, Entry, LookupRoute
<1>2. ~Deletes(rt, vec, p, face)
  BY InfinityNeverDeletes
<1> QED  BY <1>1, <1>2 DEF MergeEntry

LEMMA DirectEntryType ==
  ASSUME NEW seq \in Nat
  PROVE  DirectEntry(seq) \in Entry /\ DirectEntry(seq) # NoRoute
  BY RoutingTableAssumption DEF DirectEntry, Entry

LEMMA EncodeType ==
  ASSUME NEW rt \in Table
  PROVE  EncodeDvInfo(rt) \in Vector
  BY DEF EncodeDvInfo, Vector, Table, Distance, Entry, LookupRoute

LEMMA MergeType ==
  ASSUME NEW rt \in Table, NEW vec \in Vector, NEW face \in Face
  PROVE  MergeTable(rt, vec, face) \in Table
<1> SUFFICES ASSUME NEW p \in Prefix
             PROVE  MergeEntry(rt, vec, p, face) \in Entry \cup {NoRoute}
  BY DEF MergeTable, Table
<1>1. CASE Adopts(rt, vec, p)
  <2>1. vec[p] \in Distance /\ isValidCost(vec[p].cost)
    BY <1>1 DEF Adopts, Skips, Vector
  <2>2. CalculateCostToNeigh(vec[p].cost) \in 0..InfCost
    BY <2>1, CostOfOneMoreHop DEF Distance
  <2> QED  BY <1>1, <2>1, <2>2 DEF MergeEntry, Entry, Distance
<1>2. CASE ~Adopts(rt, vec, p)
  BY <1>2 DEF MergeEntry, Table
<1> QED  BY <1>1, <1>2

LEMMA MergeFibType ==
  ASSUME NEW fib, NEW Name, fib \subseteq Name \X Face, Prefix \subseteq Name,
         NEW rt, NEW vec, NEW face \in Face
  PROVE  MergeFib(fib, rt, vec, face) \subseteq Name \X Face
  BY DEF MergeFib, Adopted

LEMMA WithdrawType ==
  ASSUME NEW rt \in Table, NEW face
  PROVE  WithdrawTable(rt, face) \in Table
<1> SUFFICES ASSUME NEW p \in Prefix, rt[p] \in Entry
             PROVE  WithdrawEntry(rt[p], face) \in Entry
  BY DEF WithdrawTable, Table, LookupRoute
<1> QED  BY RoutingTableAssumption DEF WithdrawEntry, Entry, isNextHop

LEMMA InsertType ==
  ASSUME NEW rt \in Table, NEW p \in Prefix, NEW e \in Entry
  PROVE  Insert(rt, p, e) \in Table
  BY DEF Insert, Table
=============================================================================
