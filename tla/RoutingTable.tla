----------------------------- MODULE RoutingTable -----------------------------
(***************************************************************************)
(* The routing table of one NDVR router, and what the daemon does to it:   *)
(* merge a neighbour's distance vector, withdraw the routes of a neighbour *)
(* that went silent, insert a local name prefix.                           *)
(*                                                                         *)
(* The std::map of the code is a total function over the prefixes whose    *)
(* value is NoRoute where the map has no key.  The FIB that the table      *)
(* writes through is a set of <<name, face>> pairs.                        *)
(***************************************************************************)
EXTENDS Naturals, FiniteSets

CONSTANTS
  Prefix,     \* the name prefixes routers announce
  Face,       \* ids of the forwarder's faces (never 0)
  LocalFace,  \* face id 0: the prefix is served by this node
  InfCost,    \* the largest uint32_t, the cost that stands for infinity
  NoRoute     \* the map has no entry

Entry == [seq : Nat, cost : 0..InfCost, face : Face \cup {LocalFace}]
Table == [Prefix -> Entry \cup {NoRoute}]

\* What EncodeDvInfo keeps of an entry: the face stays at home.
Distance == [seq : Nat, cost : 0..InfCost]
Vector == [Prefix -> Distance \cup {NoRoute}]

ASSUME RoutingTableAssumption ==
  /\ InfCost \in Nat \ {0}
  /\ LocalFace \notin Face
  /\ NoRoute \notin Entry
  /\ NoRoute \notin Distance

-----------------------------------------------------------------------------
(* Queries.                                                                *)

LookupRoute(rt, p) == rt[p] # NoRoute
isDirectRoute(rt, p) == LookupRoute(rt, p) /\ rt[p].face = LocalFace
isNextHop(e, face) == e.face = face
isValidCost(cost) == cost < InfCost
isInfinityCost(cost) == cost = InfCost

\* uint32_t addition: one past infinity would be 0.
CalculateCostToNeigh(cost) == (cost + 1) % (InfCost + 1)

Known(rt) == {p \in Prefix : LookupRoute(rt, p)}

\* The digest covers names and sequence numbers, not costs and not faces.
\* SHA-1 is taken to be injective; 0 stands for an absent prefix, whose
\* sequence number no entry has.
Digest(rt) == [p \in Prefix |-> IF LookupRoute(rt, p) THEN rt[p].seq ELSE 0]

\* Mutant: the face goes out with the entry.
EncodeWithFace(rt) == rt

EncodeDvInfo(rt) ==
  [p \in Prefix |-> IF LookupRoute(rt, p)
                      THEN [seq |-> rt[p].seq, cost |-> rt[p].cost]
                      ELSE NoRoute]

-----------------------------------------------------------------------------
(* One entry of a received vector against the local table.                 *)

DirectEntry(seq) == [seq |-> seq, cost |-> 0, face |-> LocalFace]

\* Mutant: the cost of a received entry is not checked.
SkipsAnyCost(rt, vec, p) ==
  vec[p] = NoRoute \/ isDirectRoute(rt, p) \/ vec[p].seq = 0

\* The entry is not there, is for a prefix served here, or is not valid.
Skips(rt, vec, p) ==
  \/ vec[p] = NoRoute
  \/ isDirectRoute(rt, p)
  \/ vec[p].seq = 0
  \/ ~isValidCost(vec[p].cost)

IsNewPrefix(rt, p) == ~LookupRoute(rt, p)

\* Mutant: the number need not be newer.
IsNotOlderAtOtherCost(rt, vec, p) ==
  /\ vec[p].seq >= rt[p].seq
  /\ CalculateCostToNeigh(vec[p].cost) # rt[p].cost

IsNewerAtOtherCost(rt, vec, p) ==
  /\ vec[p].seq > rt[p].seq
  /\ CalculateCostToNeigh(vec[p].cost) # rt[p].cost

\* Mutant: cheaper is better whatever the number.
IsCheaper(rt, vec, p) == CalculateCostToNeigh(vec[p].cost) < rt[p].cost

IsSameSeqAndCheaper(rt, vec, p) ==
  /\ vec[p].seq = rt[p].seq
  /\ CalculateCostToNeigh(vec[p].cost) < rt[p].cost

\* AddRoute or UpdateRoute stores the received distance.  A newer sequence
\* number at the same cost is written to a copy of the entry only.
Adopts(rt, vec, p) ==
  /\ ~Skips(rt, vec, p)
  /\ \/ IsNewPrefix(rt, p)
     \/ /\ LookupRoute(rt, p)
        /\ ~isInfinityCost(vec[p].cost)
        /\ \/ IsNewerAtOtherCost(rt, vec, p)
           \/ IsSameSeqAndCheaper(rt, vec, p)

\* DeleteRoute, when the next hop itself reports an infinite cost.
Deletes(rt, vec, p, face) ==
  /\ ~Skips(rt, vec, p)
  /\ LookupRoute(rt, p)
  /\ isInfinityCost(vec[p].cost)
  /\ isNextHop(rt[p], face)

-----------------------------------------------------------------------------
(* The whole vector, as processDvInfoFromNeighbor leaves table and FIB.    *)

MergeEntry(rt, vec, p, face) ==
  IF Adopts(rt, vec, p)
    THEN [seq  |-> vec[p].seq,
          cost |-> CalculateCostToNeigh(vec[p].cost),
          face |-> face]
  ELSE IF Deletes(rt, vec, p, face) THEN NoRoute
  ELSE rt[p]

MergeTable(rt, vec, face) == [p \in Prefix |-> MergeEntry(rt, vec, p, face)]

Adopted(rt, vec) == {p \in Prefix : Adopts(rt, vec, p)}
Deleted(rt, vec, face) == {p \in Prefix : Deletes(rt, vec, p, face)}

\* Mutant: UpdateRoute unregisters last.
MergeFibUnregistersLast(fib, rt, vec, face) ==
  (fib \cup {<<p, face>> : p \in Adopted(rt, vec)})
    \ {<<p, rt[p].face>> : p \in Adopted(rt, vec) \cap Known(rt)}

\* The next hop of the stored entry is unregistered, the new one registered.
MergeFib(fib, rt, vec, face) ==
  ((fib \ {<<p, rt[p].face>> : p \in Adopted(rt, vec) \cap Known(rt)})
        \ {<<p, face>> : p \in Deleted(rt, vec, face)})
        \cup {<<p, face>> : p \in Adopted(rt, vec)}

HasChanged(rt, vec, face) == Adopted(rt, vec) \cup Deleted(rt, vec, face) # {}

-----------------------------------------------------------------------------
(* The loop of RemoveNeighbor: the routes through the face get an infinite *)
(* cost and an odd step of the sequence number, the local ones an even.    *)

\* Mutant: every learned route is withdrawn.
WithdrawAnyLearned(e, face) ==
  IF isNextHop(e, LocalFace)
    THEN [e EXCEPT !.seq = @ + 2]
    ELSE [seq |-> e.seq + 1, cost |-> InfCost, face |-> e.face]

WithdrawEntry(e, face) ==
  IF isNextHop(e, face)
    THEN [seq |-> e.seq + 1, cost |-> InfCost, face |-> e.face]
  ELSE IF isNextHop(e, LocalFace) THEN [e EXCEPT !.seq = @ + 2]
  ELSE e

\* Mutant: the routes of the neighbour are erased.
WithdrawByErasing(rt, face) ==
  [p \in Prefix |-> IF LookupRoute(rt, p) /\ isNextHop(rt[p], face)
                      THEN NoRoute ELSE rt[p]]

WithdrawTable(rt, face) ==
  [p \in Prefix |-> IF LookupRoute(rt, p) THEN WithdrawEntry(rt[p], face)
                                          ELSE NoRoute]

\* RoutingTable::insert writes the map and never the FIB.
Insert(rt, p, e) == [rt EXCEPT ![p] = e]
=============================================================================
