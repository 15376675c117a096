------------------------- MODULE DistanceVectorProofs -------------------------
(***************************************************************************)
(* Theorems about DistanceVector for every network, every assignment of    *)
(* prefixes and every bound.                                               *)
(*                                                                         *)
(* The argument for loop freedom: give every router and prefix a rank, the *)
(* (seq, cost) of the last route it adopted.  Withdrawing a route leaves   *)
(* the rank alone, adopting one makes it fresher, and the next hop always  *)
(* has a fresher rank or serves the prefix itself.  A loop would make some *)
(* rank fresher than itself.                                               *)
(***************************************************************************)
EXTENDS DistanceVector, RoutingTableProofs, WellFoundedInduction

LEMMA InitType == Init => TypeOK
<1> SUFFICES ASSUME Init PROVE TypeOK
  OBVIOUS
<1>1. DirectEntry(1) \in Entry
  BY DirectEntryType
<1>2. rt \in [Node -> Table]
  BY <1>1 DEF Init, Table
<1> QED  BY <1>2 DEF Init, TypeOK

LEMMA NextType == TypeOK /\ [Next]_vars => TypeOK'
<1> SUFFICES ASSUME TypeOK, [Next]_vars PROVE TypeOK'
  OBVIOUS
<1> USE DEF TypeOK
<1>1. ASSUME NEW n \in Node, NEW m \in Node, Discover(n, m)
      PROVE  TypeOK'
  <2>1. FaceTo[<<n, m>>] \in Face
    BY <1>1, DistanceVectorAssumption DEF Discover
  <2> QED  BY <1>1, <2>1 DEF Discover
<1>2. ASSUME NEW n \in Node, Advertise(n)
      PROVE  TypeOK'
  <2>1. EncodeDvInfo(rt[n]) \in Vector
    BY EncodeType
  <2> QED  BY <1>2, <2>1 DEF Advertise
<1>3. ASSUME NEW n \in Node, NEW a \in adverts, Merge(n, a)
      PROVE  TypeOK'
  <2> DEFINE face == FaceTo[<<n, a.from>>]
  <2>1. face \in Face /\ a.vector \in Vector
    BY <1>3, DistanceVectorAssumption DEF Merge
  <2>2. MergeTable(rt[n], a.vector, face) \in Table
    BY <2>1, MergeType
  <2>3. MergeFib(fib[n], rt[n], a.vector, face) \subseteq (Prefix \cup Node) \X Face
    <3>1. fib[n] \subseteq (Prefix \cup Node) \X Face /\ Prefix \subseteq Prefix \cup Node
      OBVIOUS
    <3> QED  BY <2>1, <3>1, MergeFibType
  <2> QED  BY <1>3, <2>2, <2>3 DEF Merge
<1>4. ASSUME NEW n \in Node, NEW m \in Node, RemoveNeighbor(n, m)
      PROVE  TypeOK'
  <2>1. WithdrawTable(rt[n], FaceTo[<<n, m>>]) \in Table
    BY WithdrawType
  <2> QED  BY <1>4, <2>1 DEF RemoveNeighbor
<1>5. ASSUME NEW n \in Node, NEW p \in Prefix, AdvNamePrefix(n, p)
      PROVE  TypeOK'
  <2>1. Insert(rt[n], p, DirectEntry(1)) \in Table
    BY DirectEntryType, InsertType
  <2> QED  BY <1>5, <2>1 DEF AdvNamePrefix
<1>6. CASE UNCHANGED vars
  BY <1>6 DEF vars
<1> QED  BY <1>1, <1>2, <1>3, <1>4, <1>5, <1>6 DEF Next

\* Tables, FIBs, neighbour sets and vectors keep their types: costs fit in a
\* uint32_t and no route learned from a neighbour ever gets face 0.
THEOREM TypeCorrect == Spec => []TypeOK
<1>1. Init => TypeOK
  BY InitType
<1>2. TypeOK /\ [Next]_vars => TypeOK'
  BY NextType
<1> QED  BY <1>1, <1>2, PTL DEF Spec
-----------------------------------------------------------------------------
(* What one step does to the route of one router for one prefix.           *)

Learned(vec, p, face) ==
  [seq |-> vec[p].seq, cost |-> vec[p].cost + 1, face |-> face]

LEMMA MergeStep ==
  ASSUME TypeOK, NEW n \in Node, NEW a \in adverts, Merge(n, a),
         NEW k \in Node, NEW p \in Prefix
  PROVE  /\ k = n /\ Adopts(rt[n], a.vector, p) =>
               rt'[k][p] = Learned(a.vector, p, FaceTo[<<n, a.from>>])
         /\ ~(k = n /\ Adopts(rt[n], a.vector, p)) => rt'[k][p] = rt[k][p]
<1> DEFINE face == FaceTo[<<n, a.from>>]
<1>1. rt[n] \in Table /\ a.vector \in Vector
  BY DEF TypeOK
<1>2. ~Deletes(rt[n], a.vector, p, face)
  BY <1>1, InfinityNeverDeletes
<1>3. ASSUME Adopts(rt[n], a.vector, p)
      PROVE  CalculateCostToNeigh(a.vector[p].cost) = a.vector[p].cost + 1
  <2>1. a.vector[p] \in Distance /\ isValidCost(a.vector[p].cost)
    BY <1>1, <1>3 DEF Adopts, Skips, Vector
  <2> QED  BY <2>1, CostOfOneMoreHop DEF Distance
<1>4. rt'[k] = IF k = n THEN MergeTable(rt[n], a.vector, face) ELSE rt[k]
  BY DEF Merge, TypeOK
<1> QED  BY <1>2, <1>3, <1>4 DEF MergeTable, MergeEntry, Learned

\* An adopted distance is valid, of an issued sequence number, and fresher
\* than the stored one.
LEMMA AdoptsFresher ==
  ASSUME NEW table \in Table, NEW vec \in Vector, NEW p \in Prefix,
         Adopts(table, vec, p)
  PROVE  /\ vec[p] \in Distance /\ vec[p] # NoRoute
         /\ vec[p].seq > 0 /\ isValidCost(vec[p].cost)
         /\ ~isDirectRoute(table, p)
         /\ LookupRoute(table, p) =>
              \/ vec[p].seq > table[p].seq
              \/ vec[p].seq = table[p].seq /\ vec[p].cost + 1 < table[p].cost
<1>1. vec[p] \in Distance /\ isValidCost(vec[p].cost) /\ vec[p].seq # 0
  BY DEF Adopts, Skips, Vector
<1>2. CalculateCostToNeigh(vec[p].cost) = vec[p].cost + 1
  BY <1>1, CostOfOneMoreHop DEF Distance
<1> QED
  BY <1>1, <1>2 DEF Adopts, Skips, Distance, IsNewPrefix, IsNewerAtOtherCost,
                    IsSameSeqAndCheaper

LEMMA WithdrawStep ==
  ASSUME TypeOK, NEW n \in Node, NEW m \in Node, RemoveNeighbor(n, m),
         NEW k \in Node, NEW p \in Prefix
  PROVE  /\ ~LookupRoute(rt[k], p) => rt'[k][p] = rt[k][p]
         /\ k # n => rt'[k][p] = rt[k][p]
         /\ LookupRoute(rt[k], p) =>
              /\ rt'[k][p] \in Entry /\ rt'[k][p] # NoRoute
              /\ rt'[k][p].face = rt[k][p].face
              /\ \/ rt'[k][p] = rt[k][p]
                 \/ /\ rt'[k][p].cost = InfCost
                    /\ rt'[k][p].face # LocalFace
                    /\ rt'[k][p].seq = rt[k][p].seq + 1
                    /\ rt'[k][p].seq <= MaxSeq
                 \/ /\ rt'[k][p].cost = rt[k][p].cost
                    /\ rt'[k][p].face = LocalFace
                    /\ rt'[k][p].seq = rt[k][p].seq + 2
                    /\ rt'[k][p].seq <= MaxSeq
<1> DEFINE face == FaceTo[<<n, m>>]
           left == WithdrawTable(rt[n], face)
<1>1. rt'[k] = IF k = n THEN left ELSE rt[k]
  BY DEF RemoveNeighbor, TypeOK
<1>2. CASE k # n \/ ~LookupRoute(rt[k], p)
  BY <1>1, <1>2 DEF WithdrawTable, LookupRoute, TypeOK, Table
<1>3. CASE k = n /\ LookupRoute(rt[k], p)
  <2>1. rt[n][p] \in Entry
    BY <1>3 DEF TypeOK, Table, LookupRoute
  <2>2. face \in Face /\ face # LocalFace
    BY RoutingTableAssumption, DistanceVectorAssumption DEF RemoveNeighbor
  <2>3. left[p] = WithdrawEntry(rt[n][p], face)
    BY <1>3 DEF WithdrawTable
  <2>4. left[p] \in Entry /\ left[p] # NoRoute
    BY <2>1, <2>3, RoutingTableAssumption DEF WithdrawEntry, Entry
  <2>5. left[p].seq <= MaxSeq
    BY <2>4 DEF RemoveNeighbor, Known, LookupRoute
  <2>6. CASE rt[n][p].face = face
    BY <1>1, <1>3, <2>1, <2>2, <2>3, <2>4, <2>5, <2>6
       DEF WithdrawEntry, isNextHop, Entry
  <2>7. CASE rt[n][p].face # face /\ rt[n][p].face = LocalFace
    <3>1. left[p] = [rt[n][p] EXCEPT !.seq = @ + 2]
      BY <2>3, <2>7 DEF WithdrawEntry, isNextHop
    <3> QED  BY <1>1, <1>3, <2>1, <2>4, <2>5, <2>7, <3>1 DEF Entry
  <2>8. CASE rt[n][p].face # face /\ rt[n][p].face # LocalFace
    BY <1>1, <1>3, <2>1, <2>3, <2>4, <2>8 DEF WithdrawEntry, isNextHop
  <2> QED  BY <2>6, <2>7, <2>8
<1> QED  BY <1>2, <1>3

LEMMA InsertStep ==
  ASSUME TypeOK, NEW n \in Node, NEW q \in Prefix, AdvNamePrefix(n, q),
         NEW k \in Node, NEW p \in Prefix
  PROVE  rt'[k][p] = IF k = n /\ p = q THEN DirectEntry(1) ELSE rt[k][p]
  BY DEF AdvNamePrefix, Insert, TypeOK, Table

LEMMA EntryStep ==
  ASSUME TypeOK, [Next]_vars, NEW k \in Node, NEW p \in Prefix,
         LookupRoute(rt[k], p)
  PROVE  /\ LookupRoute(rt'[k], p)
         /\ \/ rt'[k][p] = rt[k][p]
            \/ Fresher(rt'[k][p], rt[k][p])
            \/ rt'[k][p] = DirectEntry(1)
         /\ isDirectRoute(rt[k], p) => isDirectRoute(rt'[k], p)
<1>1. rt[k][p] \in Entry
  BY DEF TypeOK, Table, LookupRoute
<1>2. ASSUME NEW n \in Node, NEW a \in adverts, Merge(n, a),
             k = n, Adopts(rt[n], a.vector, p)
      PROVE  /\ LookupRoute(rt'[k], p)
             /\ Fresher(rt'[k][p], rt[k][p])
             /\ ~isDirectRoute(rt[k], p)
  <2>1. rt'[k][p] = Learned(a.vector, p, FaceTo[<<n, a.from>>])
    BY <1>2, MergeStep
  <2>2. rt[n] \in Table /\ a.vector \in Vector
    BY <1>2 DEF TypeOK
  <2>3. /\ a.vector[p] \in Distance
        /\ isValidCost(a.vector[p].cost)
        /\ ~isDirectRoute(rt[n], p)
        /\ \/ a.vector[p].seq > rt[k][p].seq
           \/ /\ a.vector[p].seq = rt[k][p].seq
              /\ a.vector[p].cost + 1 < rt[k][p].cost
    BY <1>2, <2>2, AdoptsFresher
  <2>4. FaceTo[<<n, a.from>>] \in Face
    BY <1>2, DistanceVectorAssumption DEF Merge
  <2>5. a.vector[p].cost + 1 \in 0..InfCost
    BY <2>3, CostOfOneMoreHop DEF Distance
  <2>6. rt'[k][p] \in Entry
    BY <2>1, <2>3, <2>4, <2>5 DEF Learned, Entry, Distance
  <2> QED
    BY <1>2, <2>1, <2>3, <2>6, RoutingTableAssumption DEF Learned, Fresher, LookupRoute
<1>3. ASSUME NEW n \in Node, NEW a \in adverts, Merge(n, a),
             ~(k = n /\ Adopts(rt[n], a.vector, p))
      PROVE  rt'[k][p] = rt[k][p]
  BY <1>3, MergeStep
<1>4. ASSUME NEW n \in Node, NEW m \in Node, RemoveNeighbor(n, m)
      PROVE  /\ LookupRoute(rt'[k], p)
             /\ rt'[k][p] = rt[k][p] \/ Fresher(rt'[k][p], rt[k][p])
             /\ rt'[k][p].face = rt[k][p].face
  <2>1. /\ rt'[k][p] \in Entry /\ rt'[k][p] # NoRoute
        /\ rt'[k][p].face = rt[k][p].face
        /\ \/ rt'[k][p] = rt[k][p]
           \/ rt'[k][p].seq = rt[k][p].seq + 1
           \/ rt'[k][p].seq = rt[k][p].seq + 2
    BY <1>4, WithdrawStep
  <2> QED  BY <1>1, <2>1 DEF Fresher, LookupRoute, Entry
<1>5. ASSUME NEW n \in Node, NEW q \in Prefix, AdvNamePrefix(n, q)
      PROVE  rt'[k][p] = rt[k][p] \/ rt'[k][p] = DirectEntry(1)
  BY <1>5, InsertStep
<1>6. ASSUME \/ \E n, m \in Node : Discover(n, m)
             \/ \E n \in Node : Advertise(n)
             \/ UNCHANGED vars
      PROVE  rt' = rt
  BY <1>6 DEF Discover, Advertise, vars
<1>7. DirectEntry(1) # NoRoute /\ DirectEntry(1).face = LocalFace
  BY DirectEntryType DEF DirectEntry
<1> QED
  BY <1>2, <1>3, <1>4, <1>5, <1>6, <1>7 DEF Next, LookupRoute, isDirectRoute

\* RoutesOnlyGetFresher for every network: no sequence of merges and
\* withdrawals takes a router back to an older route (ndvr.cpp:764-793).
THEOREM FreshnessIsMonotone == Spec => RoutesOnlyGetFresher
<1>1. TypeOK /\ [Next]_vars =>
        [\A n \in Node, p \in Prefix :
           LookupRoute(rt[n], p) =>
             /\ LookupRoute(rt'[n], p)
             /\ \/ rt'[n][p] = rt[n][p]
                \/ Fresher(rt'[n][p], rt[n][p])
                \/ rt'[n][p] = DirectEntry(1)]_vars
  BY EntryStep
<1> QED  BY <1>1, TypeCorrect, PTL DEF Spec, RoutesOnlyGetFresher

-----------------------------------------------------------------------------
(* The FIB and the table.                                                  *)

\* A route that is not direct after a step was not direct before.
LEMMA WasNotDirect ==
  ASSUME TypeOK, [Next]_vars, NEW n \in Node, NEW p \in Prefix,
         ~isDirectRoute(rt'[n], p)
  PROVE  ~isDirectRoute(rt[n], p)
  BY EntryStep DEF isDirectRoute

LEMMA FibStep ==
  ASSUME TypeOK, FibMatchesTable, [Next]_vars
  PROVE  FibMatchesTable'
<1> DEFINE Faces(n, p) == {f \in Face : <<p, f>> \in fib[n]}
           Hop(n, p) == IF LookupRoute(rt[n], p) THEN {rt[n][p].face} ELSE {}
<1> SUFFICES ASSUME NEW k \in Node, NEW p \in Prefix, ~isDirectRoute(rt'[k], p)
             PROVE  {f \in Face : <<p, f>> \in fib'[k]} =
                      (IF LookupRoute(rt'[k], p) THEN {rt'[k][p].face} ELSE {})
  BY DEF FibMatchesTable
<1>1. Faces(k, p) = Hop(k, p)
  BY WasNotDirect DEF FibMatchesTable
<1>2. ASSUME NEW n \in Node, NEW m \in Node, Discover(n, m)
      PROVE  rt' = rt /\ {f \in Face : <<p, f>> \in fib'[k]} = Faces(k, p)
  <2>1. p # m
    BY DistanceVectorAssumption
  <2> QED  BY <1>2, <2>1 DEF Discover, TypeOK
<1>3. ASSUME NEW n \in Node, NEW a \in adverts, Merge(n, a)
      PROVE  {f \in Face : <<p, f>> \in fib'[k]} =
               (IF LookupRoute(rt'[k], p) THEN {rt'[k][p].face} ELSE {})
  <2> DEFINE face == FaceTo[<<n, a.from>>]
  <2>1. rt[n] \in Table /\ a.vector \in Vector /\ face \in Face
    BY <1>3, DistanceVectorAssumption DEF TypeOK, Merge
  <2>2. Deleted(rt[n], a.vector, face) = {}
    BY <2>1, InfinityNeverDeletes DEF Deleted
  <2>3. fib'[k] = IF k = n THEN MergeFib(fib[n], rt[n], a.vector, face) ELSE fib[k]
    BY <1>3 DEF Merge, TypeOK
  <2>4. CASE k = n /\ Adopts(rt[n], a.vector, p)
    <3>1. rt'[k][p] = Learned(a.vector, p, face)
      BY <1>3, <2>4, MergeStep
    <3>2. rt'[k][p].face = face
      BY <3>1 DEF Learned
    <3>3. rt'[k][p] # NoRoute
      <4>1. a.vector[p] \in Distance /\ isValidCost(a.vector[p].cost)
        BY <2>1, <2>4, AdoptsFresher
      <4>2. a.vector[p].cost + 1 \in 0..InfCost
        BY <4>1, CostOfOneMoreHop DEF Distance
      <4>3. rt'[k][p] \in Entry
        BY <2>1, <3>1, <4>1, <4>2 DEF Learned, Entry, Distance
      <4> QED  BY <4>3, RoutingTableAssumption
    <3>4. \A f \in Face : <<p, f>> \in fib'[k] <=> f = face
      <4>1. p \in Adopted(rt[n], a.vector)
        BY <2>4 DEF Adopted
      <4>2. ASSUME NEW f \in Face, <<p, f>> \in fib[k], LookupRoute(rt[k], p)
            PROVE  <<p, f>> \in {<<q, rt[n][q].face>> :
                                   q \in Adopted(rt[n], a.vector) \cap Known(rt[n])}
        BY <1>1, <2>4, <4>1, <4>2 DEF Known
      <4>3. ASSUME NEW f \in Face, ~LookupRoute(rt[k], p)
            PROVE  <<p, f>> \notin fib[k]
        BY <1>1, <4>3
      <4> QED
        BY <2>1, <2>2, <2>3, <2>4, <4>1, <4>2, <4>3 DEF MergeFib
    <3> QED  BY <2>1, <3>2, <3>3, <3>4 DEF LookupRoute
  <2>5. CASE ~(k = n /\ Adopts(rt[n], a.vector, p))
    <3>1. rt'[k][p] = rt[k][p]
      BY <1>3, <2>5, MergeStep
    <3>2. \A f \in Face : <<p, f>> \in fib'[k] <=> <<p, f>> \in fib[k]
      BY <2>2, <2>3, <2>5 DEF MergeFib, Adopted
    <3> QED  BY <1>1, <3>1, <3>2 DEF LookupRoute
  <2> QED  BY <2>4, <2>5
<1>4. ASSUME NEW n \in Node, NEW m \in Node, RemoveNeighbor(n, m)
      PROVE  /\ fib' = fib
             /\ LookupRoute(rt'[k], p) <=> LookupRoute(rt[k], p)
             /\ LookupRoute(rt[k], p) => rt'[k][p].face = rt[k][p].face
  <2>1. fib' = fib
    BY <1>4 DEF RemoveNeighbor
  <2>2. CASE LookupRoute(rt[k], p)
    <3>1. rt'[k][p] # NoRoute /\ rt'[k][p].face = rt[k][p].face
      BY <1>4, <2>2, WithdrawStep
    <3> QED  BY <2>1, <2>2, <3>1 DEF LookupRoute
  <2>3. CASE ~LookupRoute(rt[k], p)
    <3>1. rt'[k][p] = rt[k][p]
      BY <1>4, <2>3, WithdrawStep
    <3> QED  BY <2>1, <2>3, <3>1 DEF LookupRoute
  <2> QED  BY <2>2, <2>3
<1>5. ASSUME NEW n \in Node, NEW q \in Prefix, AdvNamePrefix(n, q)
      PROVE  fib' = fib /\ rt'[k][p] = rt[k][p]
  <2>1. DirectEntry(1) # NoRoute /\ DirectEntry(1).face = LocalFace
    BY DirectEntryType DEF DirectEntry
  <2>2. rt'[k][p] = IF k = n /\ p = q THEN DirectEntry(1) ELSE rt[k][p]
    BY <1>5, InsertStep
  <2> QED  BY <1>5, <2>1, <2>2 DEF AdvNamePrefix, isDirectRoute, LookupRoute
<1>6. ASSUME (\E n \in Node : Advertise(n)) \/ UNCHANGED vars
      PROVE  fib' = fib /\ rt' = rt
  BY <1>6 DEF Advertise, vars
<1> QED
  BY <1>1, <1>2, <1>3, <1>4, <1>5, <1>6 DEF Next, LookupRoute

\* FibMatchesTable for every network: no next hop is left behind in the FIB
\* and none is missing, for the prefixes a router does not serve itself.
THEOREM FibFollowsTable == Spec => []FibMatchesTable
<1>1. Init => FibMatchesTable
  BY DirectEntryType DEF Init, FibMatchesTable, LookupRoute, isDirectRoute, DirectEntry
<1>2. TypeOK /\ FibMatchesTable /\ [Next]_vars => FibMatchesTable'
  BY FibStep
<1> QED  BY <1>1, <1>2, TypeCorrect, PTL DEF Spec

-----------------------------------------------------------------------------
(* Sequence numbers stay within their bound, in tables and in vectors.     *)

SeqBounded ==
  /\ \A n \in Node, p \in Prefix : LookupRoute(rt[n], p) => rt[n][p].seq <= MaxSeq
  /\ \A a \in adverts, p \in Prefix : a.vector[p] # NoRoute => a.vector[p].seq <= MaxSeq

\* A published vector is what its publisher's table holds at that moment.
LEMMA AdvertiseStep ==
  ASSUME TypeOK, NEW n \in Node, Advertise(n), NEW a \in adverts', a \notin adverts,
         NEW p \in Prefix
  PROVE  /\ a.from = n /\ rt' = rt
         /\ a.vector[p] # NoRoute =>
              /\ LookupRoute(rt[n], p) /\ rt[n][p] \in Entry
              /\ a.vector[p].seq = rt[n][p].seq
              /\ a.vector[p].cost = rt[n][p].cost
<1>1. a = [from |-> n, vector |-> EncodeDvInfo(rt[n])] /\ rt' = rt
  BY DEF Advertise
<1>2. LookupRoute(rt[n], p) => rt[n][p] \in Entry
  BY DEF TypeOK, Table, LookupRoute
<1> QED  BY <1>1, <1>2 DEF EncodeDvInfo

LEMMA SeqBoundedStep ==
  ASSUME TypeOK, SeqBounded, [Next]_vars
  PROVE  SeqBounded'
<1>1. ASSUME NEW k \in Node, NEW p \in Prefix, LookupRoute(rt'[k], p)
      PROVE  rt'[k][p].seq <= MaxSeq
  <2>1. CASE rt'[k][p] = rt[k][p]
    BY <1>1, <2>1 DEF SeqBounded, LookupRoute
  <2>2. ASSUME NEW n \in Node, NEW a \in adverts, Merge(n, a), rt'[k][p] # rt[k][p]
        PROVE  rt'[k][p].seq <= MaxSeq
    <3>1. /\ Adopts(rt[n], a.vector, p)
          /\ rt'[k][p] = Learned(a.vector, p, FaceTo[<<n, a.from>>])
      BY <2>2, MergeStep
    <3>2. a.vector[p] # NoRoute
      BY <3>1 DEF Adopts, Skips
    <3>3. rt'[k][p].seq = a.vector[p].seq
      BY <3>1 DEF Learned
    <3> QED  BY <3>2, <3>3 DEF SeqBounded
  <2>3. ASSUME NEW n \in Node, NEW m \in Node, RemoveNeighbor(n, m), rt'[k][p] # rt[k][p]
        PROVE  rt'[k][p].seq <= MaxSeq
    BY <2>3, WithdrawStep
  <2>4. ASSUME NEW n \in Node, NEW q \in Prefix, AdvNamePrefix(n, q), rt'[k][p] # rt[k][p]
        PROVE  rt'[k][p].seq <= MaxSeq
    BY <2>4, InsertStep, DistanceVectorAssumption DEF DirectEntry
  <2>5. ASSUME \/ \E n, m \in Node : Discover(n, m)
               \/ \E n \in Node : Advertise(n)
               \/ UNCHANGED vars
        PROVE  rt' = rt
    BY <2>5 DEF Discover, Advertise, vars
  <2> QED  BY <2>1, <2>2, <2>3, <2>4, <2>5 DEF Next
<1>2. ASSUME NEW a \in adverts', NEW p \in Prefix, a.vector[p] # NoRoute
      PROVE  a.vector[p].seq <= MaxSeq
  <2>1. CASE a \in adverts
    BY <1>2, <2>1 DEF SeqBounded
  <2>2. ASSUME NEW n \in Node, Advertise(n), a \notin adverts
        PROVE  a.vector[p].seq <= MaxSeq
    BY <1>2, <2>2, AdvertiseStep DEF SeqBounded
  <2>3. (\E n \in Node : Advertise(n)) \/ adverts' = adverts
    BY DEF Next, Discover, Merge, RemoveNeighbor, AdvNamePrefix, vars
  <2> QED  BY <2>1, <2>2, <2>3
<1> QED  BY <1>1, <1>2 DEF SeqBounded

-----------------------------------------------------------------------------
(* The ranks.                                                              *)

Rank == [seq : 0..MaxSeq, cost : 0..InfCost]
Ranks == [Node -> [Prefix -> Rank]]

\* A learned route has its own distance as its rank, a withdrawn one still the
\* distance it had when it was adopted; no route has the lowest rank.
RanksRoutes(rank) ==
  \A n \in Node, p \in Prefix :
    /\ ~LookupRoute(rt[n], p) => rank[n][p].seq = 0
    /\ LookupRoute(rt[n], p) /\ ~isDirectRoute(rt[n], p) =>
         \/ rank[n][p].seq = rt[n][p].seq /\ rank[n][p].cost = rt[n][p].cost
         \/ rank[n][p].seq < rt[n][p].seq /\ rt[n][p].cost = InfCost

\* A router that does not serve p has published nothing fresher than its rank.
RanksAdverts(rank) ==
  \A a \in adverts, p \in Prefix :
    (a.vector[p] # NoRoute /\ isValidCost(a.vector[p].cost)) =>
      \/ isDirectRoute(rt[a.from], p)
      \/ ~Fresher(a.vector[p], rank[a.from][p])

\* The next hop of every learned route serves the prefix or is fresher.
RanksNextHops(rank) ==
  \A n, m \in Node, p \in Prefix :
    (/\ <<n, m>> \in Link
     /\ LookupRoute(rt[n], p) /\ rt[n][p].face = FaceTo[<<n, m>>])
      => \/ isDirectRoute(rt[m], p)
         \/ Fresher(rank[m][p], rank[n][p])

Ranked(rank) == RanksRoutes(rank) /\ RanksAdverts(rank) /\ RanksNextHops(rank)

RankInv == \E rank \in Ranks : Ranked(rank)

LEMMA InitRank == Init => RankInv
<1> SUFFICES ASSUME Init PROVE RankInv
  OBVIOUS
<1> DEFINE low == [n \in Node |-> [p \in Prefix |-> [seq |-> 0, cost |-> 0]]]
<1>1. low \in Ranks
  BY RoutingTableAssumption, DistanceVectorAssumption DEF Ranks, Rank
<1>2. \A n \in Node, p \in Prefix :
        rt[n][p] = NoRoute \/ rt[n][p] = DirectEntry(1)
  BY DEF Init
<1>3. DirectEntry(1) # NoRoute /\ DirectEntry(1).face = LocalFace
  BY DirectEntryType DEF DirectEntry
<1>4. RanksRoutes(low)
  BY <1>2, <1>3 DEF RanksRoutes, LookupRoute, isDirectRoute
<1>5. RanksAdverts(low)
  BY DEF RanksAdverts, Init
<1>6. RanksNextHops(low)
  <2>1. \A l \in Link : FaceTo[l] # LocalFace
    BY RoutingTableAssumption, DistanceVectorAssumption
  <2> QED  BY <1>2, <1>3, <2>1 DEF RanksNextHops, LookupRoute
<1> QED  BY <1>1, <1>4, <1>5, <1>6 DEF RankInv, Ranked

LEMMA RankAdvertise ==
  ASSUME TypeOK, NEW rank \in Ranks, Ranked(rank), NEW n \in Node, Advertise(n)
  PROVE  Ranked(rank)'
<1>1. rt' = rt
  BY DEF Advertise
<1>2. RanksRoutes(rank)' /\ RanksNextHops(rank)'
  BY <1>1 DEF Ranked, RanksRoutes, RanksNextHops
<1>3. RanksAdverts(rank)'
  <2> SUFFICES ASSUME NEW a \in adverts', NEW p \in Prefix, a.vector[p] # NoRoute,
                      isValidCost(a.vector[p].cost), ~isDirectRoute(rt[a.from], p)
               PROVE  ~Fresher(a.vector[p], rank[a.from][p])
    BY <1>1 DEF RanksAdverts
  <2>1. CASE a \in adverts
    BY <2>1 DEF Ranked, RanksAdverts
  <2>2. CASE a \notin adverts
    <3>1. /\ a.from = n /\ LookupRoute(rt[n], p) /\ rt[n][p] \in Entry
          /\ a.vector[p].seq = rt[n][p].seq /\ a.vector[p].cost = rt[n][p].cost
      BY <2>2, AdvertiseStep
    <3>2. rank[n][p].seq = rt[n][p].seq /\ rank[n][p].cost = rt[n][p].cost
      BY <3>1, RoutingTableAssumption DEF Ranked, RanksRoutes, isValidCost
    <3> QED  BY <3>1, <3>2 DEF Fresher, Entry
  <2> QED  BY <2>1, <2>2
<1> QED  BY <1>2, <1>3 DEF Ranked

LEMMA RankWithdraw ==
  ASSUME TypeOK, NEW rank \in Ranks, Ranked(rank),
         NEW n \in Node, NEW m \in Node, RemoveNeighbor(n, m)
  PROVE  Ranked(rank)'
<1>1. adverts' = adverts
  BY DEF RemoveNeighbor
<1>2. ASSUME NEW k \in Node, NEW p \in Prefix
      PROVE  /\ LookupRoute(rt'[k], p) <=> LookupRoute(rt[k], p)
             /\ isDirectRoute(rt'[k], p) <=> isDirectRoute(rt[k], p)
             /\ LookupRoute(rt[k], p) => rt'[k][p].face = rt[k][p].face
  BY WithdrawStep DEF LookupRoute, isDirectRoute
<1>3. RanksAdverts(rank)'
  <2>1. \A a \in adverts : a.from \in Node
    BY DEF TypeOK
  <2> QED  BY <1>1, <1>2, <2>1 DEF Ranked, RanksAdverts
<1>4. RanksNextHops(rank)'
  BY <1>2 DEF Ranked, RanksNextHops
<1>5. RanksRoutes(rank)'
  <2> SUFFICES ASSUME NEW k \in Node, NEW p \in Prefix,
                      LookupRoute(rt[k], p), ~isDirectRoute(rt[k], p)
               PROVE  \/ /\ rank[k][p].seq = rt'[k][p].seq
                         /\ rank[k][p].cost = rt'[k][p].cost
                      \/ rank[k][p].seq < rt'[k][p].seq /\ rt'[k][p].cost = InfCost
    BY <1>2 DEF Ranked, RanksRoutes
  <2>1. /\ rank[k][p] \in Rank
        /\ rt[k][p] \in Entry
        /\ rt'[k][p] \in Entry
    BY WithdrawStep DEF Ranks, TypeOK, Table, LookupRoute
  <2>2. rank[k][p].seq <= rt[k][p].seq
    BY <2>1 DEF Ranked, RanksRoutes, Rank, Entry
  <2>3. CASE rt'[k][p] = rt[k][p]
    BY <2>3 DEF Ranked, RanksRoutes
  <2>4. CASE rt'[k][p] # rt[k][p]
    <3>1. rt'[k][p].cost = InfCost /\ rt'[k][p].seq = rt[k][p].seq + 1
      BY <2>4, WithdrawStep DEF isDirectRoute, LookupRoute
    <3> QED  BY <2>1, <2>2, <3>1 DEF Rank, Entry
  <2> QED  BY <2>3, <2>4
<1> QED  BY <1>3, <1>4, <1>5 DEF Ranked

LEMMA RankInsert ==
  ASSUME TypeOK, NEW rank \in Ranks, Ranked(rank),
         NEW n \in Node, NEW q \in Prefix, AdvNamePrefix(n, q)
  PROVE  Ranked(rank)'
<1>1. adverts' = adverts
  BY DEF AdvNamePrefix
<1>2. ASSUME NEW k \in Node, NEW p \in Prefix
      PROVE  \/ rt'[k][p] = rt[k][p]
             \/ /\ LookupRoute(rt'[k], p) /\ isDirectRoute(rt'[k], p)
                /\ rt'[k][p].face = LocalFace
  BY InsertStep, DirectEntryType DEF DirectEntry, LookupRoute, isDirectRoute
<1>3. RanksRoutes(rank)'
  BY <1>2 DEF Ranked, RanksRoutes, LookupRoute, isDirectRoute
<1>4. RanksAdverts(rank)'
  <2>1. \A a \in adverts : a.from \in Node
    BY DEF TypeOK
  <2> QED
    BY <1>1, <1>2, <2>1 DEF Ranked, RanksAdverts, LookupRoute, isDirectRoute
<1>5. RanksNextHops(rank)'
  <2>1. \A l \in Link : FaceTo[l] # LocalFace
    BY RoutingTableAssumption, DistanceVectorAssumption
  <2> QED
    BY <1>2, <2>1 DEF Ranked, RanksNextHops, LookupRoute, isDirectRoute
<1> QED  BY <1>3, <1>4, <1>5 DEF Ranked

LEMMA RankMerge ==
  ASSUME UnicastFaces, TypeOK, SeqBounded, NEW rank \in Ranks, Ranked(rank),
         NEW n \in Node, NEW a \in adverts, Merge(n, a)
  PROVE  RankInv'
<1> DEFINE m == a.from
           face == FaceTo[<<n, m>>]
           adopts(p) == Adopts(rt[n], a.vector, p)
<1>0. /\ rt[n] \in Table /\ a.vector \in Vector /\ face \in Face
      /\ m \in Node /\ <<n, m>> \in Link /\ n # m /\ adverts' = adverts
  BY DistanceVectorAssumption DEF TypeOK, Merge
\* Every adopted distance becomes the rank.
<1>1. ASSUME NEW p \in Prefix, adopts(p)
      PROVE  /\ a.vector[p] \in Distance /\ a.vector[p] # NoRoute
             /\ a.vector[p].seq > 0 /\ a.vector[p].seq <= MaxSeq
             /\ a.vector[p].cost + 1 \in 0..InfCost
             /\ isValidCost(a.vector[p].cost)
             /\ ~isDirectRoute(rt[n], p)
  <2>1. /\ a.vector[p] \in Distance /\ a.vector[p] # NoRoute
        /\ a.vector[p].seq > 0 /\ isValidCost(a.vector[p].cost)
        /\ ~isDirectRoute(rt[n], p)
    BY <1>0, <1>1, AdoptsFresher
  <2>2. a.vector[p].cost + 1 \in 0..InfCost
    BY <2>1, CostOfOneMoreHop DEF Distance
  <2> QED  BY <2>1, <2>2 DEF SeqBounded
<1>2. PICK new \in Ranks :
        \A k \in Node, p \in Prefix :
          new[k][p] = IF k = n /\ adopts(p)
                        THEN [seq |-> a.vector[p].seq, cost |-> a.vector[p].cost + 1]
                        ELSE rank[k][p]
  <2> DEFINE f == [k \in Node |-> [p \in Prefix |->
                    IF k = n /\ adopts(p)
                      THEN [seq |-> a.vector[p].seq, cost |-> a.vector[p].cost + 1]
                      ELSE rank[k][p]]]
  <2>1. f \in Ranks
    BY <1>1, DistanceVectorAssumption DEF Ranks, Rank, Distance
  <2> QED  BY <2>1
<1>3. ASSUME NEW k \in Node, NEW p \in Prefix
      PROVE  new[k][p] \in Rank /\ rank[k][p] \in Rank
  BY <1>3 DEF Ranks
\* The ranks only get fresher.
<1>4. ASSUME NEW p \in Prefix, adopts(p)
      PROVE  Fresher(new[n][p], rank[n][p])
  <2>1. new[n][p].seq = a.vector[p].seq /\ new[n][p].cost = a.vector[p].cost + 1
    <3>1. new[n][p] = [seq |-> a.vector[p].seq, cost |-> a.vector[p].cost + 1]
      BY <1>2, <1>4
    <3> QED  BY <3>1
  <2>2. CASE ~LookupRoute(rt[n], p)
    <3>1. rank[n][p].seq = 0
      BY <2>2 DEF Ranked, RanksRoutes
    <3> QED  BY <1>1, <1>4, <2>1, <3>1 DEF Fresher
  <2>3. CASE LookupRoute(rt[n], p)
    <3>1. \/ a.vector[p].seq > rt[n][p].seq
          \/ a.vector[p].seq = rt[n][p].seq /\ a.vector[p].cost + 1 < rt[n][p].cost
      BY <1>0, <1>4, <2>3, AdoptsFresher
    <3>2. \/ rank[n][p].seq = rt[n][p].seq /\ rank[n][p].cost = rt[n][p].cost
          \/ rank[n][p].seq < rt[n][p].seq
      BY <1>1, <1>4, <2>3 DEF Ranked, RanksRoutes
    <3>3. rt[n][p] \in Entry /\ a.vector[p] \in Distance
      BY <1>0, <1>1, <1>4, <2>3 DEF Table, LookupRoute
    <3> QED  BY <1>3, <2>1, <3>1, <3>2, <3>3 DEF Fresher, Rank, Entry, Distance
  <2> QED  BY <2>2, <2>3
<1>5. ASSUME NEW k \in Node, NEW p \in Prefix
      PROVE  new[k][p] = rank[k][p] \/ Fresher(new[k][p], rank[k][p])
  BY <1>2, <1>4
\* What the step does to the routes.
<1>6. ASSUME NEW k \in Node, NEW p \in Prefix, ~(k = n /\ adopts(p))
      PROVE  rt'[k][p] = rt[k][p] /\ new[k][p] = rank[k][p]
  BY <1>2, <1>6, MergeStep
<1>7. ASSUME NEW p \in Prefix, adopts(p)
      PROVE  /\ LookupRoute(rt'[n], p) /\ ~isDirectRoute(rt'[n], p)
             /\ rt'[n][p].seq = new[n][p].seq /\ rt'[n][p].cost = new[n][p].cost
             /\ rt'[n][p].face = face
  <2>1. rt'[n][p] = Learned(a.vector, p, face)
    BY <1>7, MergeStep
  <2>2. rt'[n][p] \in Entry
    BY <1>0, <1>1, <1>7, <2>1 DEF Learned, Entry, Distance
  <2>3. new[n][p] = [seq |-> a.vector[p].seq, cost |-> a.vector[p].cost + 1]
    BY <1>2, <1>7
  <2> QED
    BY <1>0, <2>1, <2>2, <2>3, RoutingTableAssumption
       DEF Learned, LookupRoute, isDirectRoute
<1>8. ASSUME NEW k \in Node, NEW p \in Prefix, isDirectRoute(rt[k], p)
      PROVE  isDirectRoute(rt'[k], p)
  BY <1>1, <1>6, <1>8 DEF isDirectRoute, LookupRoute
<1>9. RanksRoutes(new)'
  <2> SUFFICES ASSUME NEW k \in Node, NEW p \in Prefix
        PROVE  /\ ~LookupRoute(rt'[k], p) => new[k][p].seq = 0
               /\ LookupRoute(rt'[k], p) /\ ~isDirectRoute(rt'[k], p) =>
                    \/ /\ new[k][p].seq = rt'[k][p].seq
                       /\ new[k][p].cost = rt'[k][p].cost
                    \/ new[k][p].seq < rt'[k][p].seq /\ rt'[k][p].cost = InfCost
    BY DEF RanksRoutes
  <2>1. CASE k = n /\ adopts(p)
    BY <1>7, <2>1
  <2>2. CASE ~(k = n /\ adopts(p))
    BY <1>6, <2>2 DEF Ranked, RanksRoutes, LookupRoute, isDirectRoute
  <2> QED  BY <2>1, <2>2
<1>10. RanksAdverts(new)'
  <2> SUFFICES ASSUME NEW b \in adverts, NEW p \in Prefix, b.vector[p] # NoRoute,
                      isValidCost(b.vector[p].cost), ~isDirectRoute(rt'[b.from], p)
               PROVE  ~Fresher(b.vector[p], new[b.from][p])
    BY <1>0 DEF RanksAdverts
  <2>1. b.from \in Node /\ b.vector[p] \in Distance
    BY DEF TypeOK, Vector
  <2>2. ~Fresher(b.vector[p], rank[b.from][p])
    BY <1>8, <2>1 DEF Ranked, RanksAdverts
  <2> QED  BY <1>3, <1>5, <2>1, <2>2 DEF Fresher, Rank, Distance
<1>11. RanksNextHops(new)'
  <2> SUFFICES ASSUME NEW k \in Node, NEW j \in Node, NEW p \in Prefix,
                      <<k, j>> \in Link, LookupRoute(rt'[k], p),
                      rt'[k][p].face = FaceTo[<<k, j>>], ~isDirectRoute(rt'[j], p)
               PROVE  Fresher(new[j][p], new[k][p])
    BY DEF RanksNextHops
  <2>1. ~isDirectRoute(rt[j], p)
    BY <1>8
  <2>2. CASE k = n /\ adopts(p)
    <3>1. j = m
      BY <1>0, <1>7, <2>2 DEF UnicastFaces
    <3>2. new[j][p] = rank[m][p]
      BY <1>0, <1>6, <3>1
    <3>3. ~Fresher(a.vector[p], rank[m][p])
      BY <1>1, <2>1, <2>2, <3>1 DEF Ranked, RanksAdverts
    <3>4. new[k][p].seq = a.vector[p].seq /\ new[k][p].cost = a.vector[p].cost + 1
      <4>1. new[k][p] = [seq |-> a.vector[p].seq, cost |-> a.vector[p].cost + 1]
        BY <1>2, <2>2
      <4> QED  BY <4>1
    <3>5. rank[m][p] \in Rank /\ a.vector[p] \in Distance
      BY <1>0, <1>1, <1>3, <2>2
    <3> QED  BY <3>2, <3>3, <3>4, <3>5 DEF Fresher, Rank, Distance
  <2>3. CASE ~(k = n /\ adopts(p))
    <3>1. rt'[k][p] = rt[k][p] /\ new[k][p] = rank[k][p]
      BY <1>6, <2>3
    <3>2. Fresher(rank[j][p], rank[k][p])
      BY <2>1, <3>1 DEF Ranked, RanksNextHops, LookupRoute
    <3> QED  BY <1>3, <1>5, <3>1, <3>2 DEF Fresher, Rank
  <2> QED  BY <2>2, <2>3
<1> QED  BY <1>9, <1>10, <1>11 DEF RankInv, Ranked

LEMMA RankStep ==
  ASSUME UnicastFaces, TypeOK, SeqBounded, RankInv, [Next]_vars
  PROVE  RankInv'
<1> PICK rank \in Ranks : Ranked(rank)
  BY DEF RankInv
<1>1. ASSUME \E n \in Node : Advertise(n)
      PROVE  Ranked(rank)'
  BY <1>1, RankAdvertise
<1>2. ASSUME NEW n \in Node, NEW a \in adverts, Merge(n, a)
      PROVE  RankInv'
  BY <1>2, RankMerge
<1>3. ASSUME \E n, m \in Node : RemoveNeighbor(n, m)
      PROVE  Ranked(rank)'
  BY <1>3, RankWithdraw
<1>4. ASSUME \E n \in Node, p \in Prefix : AdvNamePrefix(n, p)
      PROVE  Ranked(rank)'
  BY <1>4, RankInsert
<1>5. ASSUME (\E n, m \in Node : Discover(n, m)) \/ UNCHANGED vars
      PROVE  Ranked(rank)'
  <2>1. rt' = rt /\ adverts' = adverts
    BY <1>5 DEF Discover, vars
  <2> QED  BY <2>1 DEF Ranked, RanksRoutes, RanksAdverts, RanksNextHops
<1>6. Ranked(rank)' => RankInv'
  BY DEF RankInv
<1> QED  BY <1>1, <1>2, <1>3, <1>4, <1>5, <1>6 DEF Next

-----------------------------------------------------------------------------
(* From ranks to the absence of loops.                                     *)

\* Ranks cannot get fresher for ever: among those of a set of routers there is
\* one with the largest sequence number and, among these, the lowest cost.
LEMMA FreshestOf ==
  ASSUME NEW S, NEW r \in [S -> Rank], S # {}
  PROVE  \E n \in S : \A m \in S : ~Fresher(r[m], r[n])
<1> DEFINE Gaps == {MaxSeq - r[n].seq : n \in S}
<1>1. Gaps \subseteq Nat /\ Gaps # {}
  BY DistanceVectorAssumption DEF Rank
<1>2. PICK g \in Gaps : \A h \in Gaps : <<h, g>> \notin OpToRel(<, Nat)
  BY <1>1, NatLessThanWellFounded, WFMin
<1>3. PICK n1 \in S : g = MaxSeq - r[n1].seq
  OBVIOUS
<1>4. \A n \in S : r[n].seq <= r[n1].seq
  <2>1. ASSUME NEW n \in S PROVE MaxSeq - r[n].seq \in Gaps
    OBVIOUS
  <2>2. ASSUME NEW n \in S PROVE ~(MaxSeq - r[n].seq < g)
    BY <1>1, <1>2, <2>1, <2>2 DEF OpToRel
  <2> QED  BY <1>3, <2>2, DistanceVectorAssumption DEF Rank
<1> DEFINE Top == {n \in S : r[n].seq = r[n1].seq}
           Costs == {r[n].cost : n \in Top}
<1>5. Costs \subseteq Nat /\ Costs # {}
  BY <1>3, RoutingTableAssumption DEF Rank
<1>6. PICK c \in Costs : \A d \in Costs : <<d, c>> \notin OpToRel(<, Nat)
  BY <1>5, NatLessThanWellFounded, WFMin
<1>7. PICK n2 \in Top : c = r[n2].cost
  OBVIOUS
<1>8. ASSUME NEW m \in S PROVE ~Fresher(r[m], r[n2])
  <2>1. CASE m \notin Top
    BY <1>4, <1>7, <2>1 DEF Fresher, Rank
  <2>2. CASE m \in Top
    <3>1. r[m].cost \in Costs
      BY <2>2
    <3>2. ~(r[m].cost < c)
      BY <1>5, <1>6, <3>1 DEF OpToRel
    <3> QED  BY <1>7, <2>2, <3>2 DEF Fresher, Rank
  <2> QED  BY <2>1, <2>2
<1> QED  BY <1>7, <1>8

LEMMA RankedHasNoLoop ==
  ASSUME TypeOK, FibMatchesTable, RankInv
  PROVE  NoForwardingLoop
<1> SUFFICES ASSUME NEW p \in Prefix, NEW S \in SUBSET Node, S # {}
             PROVE  \E n \in S : \A m \in S : ~ForwardsTo(n, m, p)
  BY DEF NoForwardingLoop
<1> PICK rank \in Ranks : Ranked(rank)
  BY DEF RankInv
<1>1. CASE \E n \in S : isDirectRoute(rt[n], p)
  BY <1>1 DEF ForwardsTo
<1>2. CASE \A n \in S : ~isDirectRoute(rt[n], p)
  <2> DEFINE r == [n \in S |-> rank[n][p]]
  <2>1. r \in [S -> Rank]
    BY DEF Ranks
  <2>2. PICK n \in S : \A m \in S : ~Fresher(r[m], r[n])
    BY <2>1, FreshestOf
  <2>3. ASSUME NEW m \in S, ForwardsTo(n, m, p)
        PROVE  FALSE
    <3>1. <<n, m>> \in Link /\ <<p, FaceTo[<<n, m>>]>> \in fib[n]
      BY <2>3 DEF ForwardsTo
    <3>2. FaceTo[<<n, m>>] \in Face
      BY <3>1, DistanceVectorAssumption
    <3>3. LookupRoute(rt[n], p) /\ rt[n][p].face = FaceTo[<<n, m>>]
      BY <1>2, <3>1, <3>2 DEF FibMatchesTable
    <3>4. Fresher(rank[m][p], rank[n][p])
      BY <1>2, <3>1, <3>3 DEF Ranked, RanksNextHops
    <3> QED  BY <2>2, <3>4
  <2> QED  BY <2>3
<1> QED  BY <1>1, <1>2

\* NoForwardingLoop for every network of unicast faces: whatever is merged
\* late, twice, out of order or never, and whoever is given up, no Interest
\* can be passed around in a circle (ndvr.cpp:286-322, 722-805).
THEOREM LoopFreedom ==
  ASSUME UnicastFaces
  PROVE  Spec => []NoForwardingLoop
<1>1. Init => SeqBounded /\ RankInv
  BY InitRank, DistanceVectorAssumption DEF Init, SeqBounded, LookupRoute, DirectEntry
<1>2. TypeOK /\ SeqBounded /\ RankInv /\ [Next]_vars => SeqBounded' /\ RankInv'
  BY SeqBoundedStep, RankStep
<1>3. TypeOK /\ FibMatchesTable /\ RankInv => NoForwardingLoop
  BY RankedHasNoLoop
<1> QED  BY <1>1, <1>2, <1>3, TypeCorrect, FibFollowsTable, PTL DEF Spec

-----------------------------------------------------------------------------
(* Where sequence numbers come from.                                       *)

Issued(p, seq) ==
  \E a \in adverts : /\ a.vector[p] # NoRoute
                     /\ a.vector[p].cost = 0
                     /\ a.vector[p].seq = seq

DirectCostsNothing ==
  \A n \in Node, p \in Prefix : isDirectRoute(rt[n], p) => rt[n][p].cost = 0

AdvertsIssued ==
  \A a \in adverts, p \in Prefix :
    a.vector[p] # NoRoute /\ isValidCost(a.vector[p].cost) => Issued(p, a.vector[p].seq)

IssuedInv == DirectCostsNothing /\ AdvertsIssued /\ SeqIssuedByOrigin

LEMMA AdvertsGrow ==
  ASSUME TypeOK, [Next]_vars
  PROVE  adverts \subseteq adverts'
  BY DEF Next, Discover, Advertise, Merge, RemoveNeighbor, AdvNamePrefix, vars

LEMMA IssuedStep ==
  ASSUME TypeOK, IssuedInv, [Next]_vars
  PROVE  IssuedInv'
<1>1. ASSUME NEW p \in Prefix, NEW seq, Issued(p, seq)
      PROVE  Issued(p, seq)'
  BY <1>1, AdvertsGrow DEF Issued
<1>2. \A k \in Node, p \in Prefix :
        \/ rt'[k][p] = rt[k][p]
        \/ rt'[k][p] = DirectEntry(1)
        \/ /\ rt'[k][p].face = LocalFace /\ LookupRoute(rt[k], p)
           /\ rt[k][p].face = LocalFace /\ rt'[k][p].cost = rt[k][p].cost
        \/ rt'[k][p].cost = InfCost /\ rt'[k][p].face # LocalFace
        \/ \E n \in Node, a \in adverts :
             /\ Merge(n, a) /\ k = n /\ Adopts(rt[n], a.vector, p)
             /\ rt'[k][p] = Learned(a.vector, p, FaceTo[<<n, a.from>>])
  <2> SUFFICES ASSUME NEW k \in Node, NEW p \in Prefix, rt'[k][p] # rt[k][p]
        PROVE  \/ rt'[k][p] = DirectEntry(1)
               \/ /\ rt'[k][p].face = LocalFace /\ LookupRoute(rt[k], p)
                  /\ rt[k][p].face = LocalFace /\ rt'[k][p].cost = rt[k][p].cost
               \/ rt'[k][p].cost = InfCost /\ rt'[k][p].face # LocalFace
               \/ \E n \in Node, a \in adverts :
                    /\ Merge(n, a) /\ k = n /\ Adopts(rt[n], a.vector, p)
                    /\ rt'[k][p] = Learned(a.vector, p, FaceTo[<<n, a.from>>])
    OBVIOUS
  <2>1. ASSUME NEW n \in Node, NEW a \in adverts, Merge(n, a)
        PROVE  /\ k = n /\ Adopts(rt[n], a.vector, p)
               /\ rt'[k][p] = Learned(a.vector, p, FaceTo[<<n, a.from>>])
    BY <2>1, MergeStep
  <2>2. ASSUME NEW n \in Node, NEW m \in Node, RemoveNeighbor(n, m)
        PROVE  \/ /\ rt'[k][p].face = LocalFace /\ LookupRoute(rt[k], p)
                  /\ rt[k][p].face = LocalFace /\ rt'[k][p].cost = rt[k][p].cost
               \/ rt'[k][p].cost = InfCost /\ rt'[k][p].face # LocalFace
    BY <2>2, WithdrawStep
  <2>3. ASSUME NEW n \in Node, NEW q \in Prefix, AdvNamePrefix(n, q)
        PROVE  rt'[k][p] = DirectEntry(1)
    BY <2>3, InsertStep
  <2>4. ~(\/ \E n, m \in Node : Discover(n, m)
          \/ \E n \in Node : Advertise(n)
          \/ UNCHANGED vars)
    BY DEF Discover, Advertise, vars
  <2> QED  BY <2>1, <2>2, <2>3, <2>4 DEF Next
<1>3. ASSUME NEW n \in Node, NEW a \in adverts, NEW p \in Prefix, Merge(n, a),
             Adopts(rt[n], a.vector, p)
      PROVE  /\ a.vector[p] # NoRoute /\ isValidCost(a.vector[p].cost)
             /\ FaceTo[<<n, a.from>>] # LocalFace
  <2>1. rt[n] \in Table /\ a.vector \in Vector
    BY DEF TypeOK
  <2>2. a.vector[p] # NoRoute /\ isValidCost(a.vector[p].cost)
    BY <1>3, <2>1, AdoptsFresher
  <2> QED  BY <1>3, <2>2, RoutingTableAssumption, DistanceVectorAssumption DEF Merge
<1>4. DirectCostsNothing'
  <2> SUFFICES ASSUME NEW k \in Node, NEW p \in Prefix, isDirectRoute(rt'[k], p)
               PROVE  rt'[k][p].cost = 0
    BY DEF DirectCostsNothing
  <2>1. DirectEntry(1).cost = 0
    BY DEF DirectEntry
  <2>2. \A n \in Node, a \in adverts :
          Merge(n, a) /\ Adopts(rt[n], a.vector, p) =>
            rt'[k][p] # Learned(a.vector, p, FaceTo[<<n, a.from>>])
    BY <1>3 DEF Learned, isDirectRoute
  <2> QED
    BY <1>2, <2>1, <2>2 DEF IssuedInv, DirectCostsNothing, isDirectRoute, LookupRoute
<1>5. AdvertsIssued'
  <2> SUFFICES ASSUME NEW a \in adverts', NEW p \in Prefix, a.vector[p] # NoRoute,
                      isValidCost(a.vector[p].cost)
               PROVE  Issued(p, a.vector[p].seq)'
    BY DEF AdvertsIssued
  <2>1. CASE a \in adverts
    BY <1>1, <2>1 DEF IssuedInv, AdvertsIssued
  <2>2. ASSUME NEW n \in Node, Advertise(n), a \notin adverts
        PROVE  Issued(p, a.vector[p].seq)'
    <3>1. /\ LookupRoute(rt[n], p)
          /\ a.vector[p].seq = rt[n][p].seq /\ a.vector[p].cost = rt[n][p].cost
      BY <2>2, AdvertiseStep
    <3>2. CASE isDirectRoute(rt[n], p)
      BY <3>1, <3>2 DEF IssuedInv, DirectCostsNothing, Issued
    <3>3. CASE ~isDirectRoute(rt[n], p)
      <4>1. Issued(p, rt[n][p].seq)
        BY <3>1, <3>3 DEF IssuedInv, SeqIssuedByOrigin, Issued
      <4> QED  BY <1>1, <3>1, <4>1
    <3> QED  BY <3>2, <3>3
  <2>3. (\E n \in Node : Advertise(n)) \/ adverts' = adverts
    BY DEF Next, Discover, Merge, RemoveNeighbor, AdvNamePrefix, vars
  <2> QED  BY <2>1, <2>2, <2>3
<1>6. SeqIssuedByOrigin'
  <2> SUFFICES ASSUME NEW k \in Node, NEW p \in Prefix, LookupRoute(rt'[k], p),
                      ~isDirectRoute(rt'[k], p), isValidCost(rt'[k][p].cost),
                      NEW seq, seq = rt'[k][p].seq
               PROVE  Issued(p, seq)'
    BY DEF SeqIssuedByOrigin, Issued
  <2>1. CASE rt'[k][p] = rt[k][p]
    <3>1. Issued(p, rt[k][p].seq)
      BY <2>1 DEF IssuedInv, SeqIssuedByOrigin, Issued, LookupRoute, isDirectRoute
    <3> QED  BY <1>1, <2>1, <3>1
  <2>2. ASSUME NEW n \in Node, NEW a \in adverts, Merge(n, a), k = n,
               Adopts(rt[n], a.vector, p),
               rt'[k][p] = Learned(a.vector, p, FaceTo[<<n, a.from>>])
        PROVE  Issued(p, seq)'
    <3>1. Issued(p, a.vector[p].seq)
      BY <1>3, <2>2 DEF IssuedInv, AdvertsIssued
    <3>2. rt'[k][p].seq = a.vector[p].seq
      BY <2>2 DEF Learned
    <3> QED  BY <1>1, <3>1, <3>2
  <2>3. /\ rt'[k][p] # DirectEntry(1)
        /\ rt'[k][p].face # LocalFace
        /\ rt'[k][p].cost # InfCost
    BY RoutingTableAssumption DEF isDirectRoute, DirectEntry, isValidCost
  <2> QED  BY <1>2, <2>1, <2>2, <2>3
<1> QED  BY <1>4, <1>5, <1>6 DEF IssuedInv

\* SeqIssuedByOrigin for every network: no router makes up a sequence number
\* for a route that others could use (ndvr.cpp:302-311, 764-788).
THEOREM SequenceNumbersAreIssued == Spec => []SeqIssuedByOrigin
<1>1. Init => IssuedInv
  <2>1. DirectEntry(1).cost = 0 /\ DirectEntry(1).face = LocalFace
    BY DEF DirectEntry
  <2> QED
    BY <2>1 DEF Init, IssuedInv, DirectCostsNothing, AdvertsIssued, SeqIssuedByOrigin,
                isDirectRoute, LookupRoute
<1>2. TypeOK /\ IssuedInv /\ [Next]_vars => IssuedInv'
  BY IssuedStep
<1>3. IssuedInv => SeqIssuedByOrigin
  BY DEF IssuedInv
<1> QED  BY <1>1, <1>2, <1>3, TypeCorrect, PTL DEF Spec

-----------------------------------------------------------------------------
(* Where next hops lead.                                                   *)

\* What n's table says of m as a next hop.
RoutesVia(n, m, p) ==
  /\ <<n, m>> \in Link
  /\ LookupRoute(rt[n], p)
  /\ rt[n][p].face = FaceTo[<<n, m>>]

AdvertsKnown ==
  \A a \in adverts, p \in Prefix :
    a.vector[p] # NoRoute => LookupRoute(rt[a.from], p)

NextHopsKnow ==
  \A n, m \in Node, p \in Prefix : RoutesVia(n, m, p) => LookupRoute(rt[m], p)

LearnedFromNeighbors ==
  \A n \in Node, p \in Prefix :
    LookupRoute(rt[n], p) /\ ~isDirectRoute(rt[n], p) =>
      \E m \in Node : RoutesVia(n, m, p)

LeadInv == AdvertsKnown /\ NextHopsKnow /\ LearnedFromNeighbors

\* What a step leaves of an entry: its next hop, or that of a vector with the
\* prefix, or it is the router's own.
LEMMA NextHopStep ==
  ASSUME TypeOK, [Next]_vars, NEW k \in Node, NEW p \in Prefix,
         LookupRoute(rt'[k], p), ~isDirectRoute(rt'[k], p)
  PROVE  \/ LookupRoute(rt[k], p) /\ rt'[k][p].face = rt[k][p].face
         \/ \E a \in adverts : /\ <<k, a.from>> \in Link
                               /\ a.vector[p] # NoRoute
                               /\ rt'[k][p].face = FaceTo[<<k, a.from>>]
<1>1. ASSUME NEW n \in Node, NEW a \in adverts, Merge(n, a), rt'[k][p] # rt[k][p]
      PROVE  /\ <<k, a.from>> \in Link /\ a.vector[p] # NoRoute
             /\ rt'[k][p].face = FaceTo[<<k, a.from>>]
  <2>1. k = n /\ Adopts(rt[n], a.vector, p)
    BY <1>1, MergeStep
  <2>2. rt'[k][p] = Learned(a.vector, p, FaceTo[<<n, a.from>>])
    BY <1>1, <2>1, MergeStep
  <2>3. rt'[k][p].face = FaceTo[<<n, a.from>>]
    BY <2>2 DEF Learned
  <2> QED  BY <1>1, <2>1, <2>3 DEF Merge, Adopts, Skips
<1>2. ASSUME NEW n \in Node, NEW m \in Node, RemoveNeighbor(n, m)
      PROVE  LookupRoute(rt[k], p) /\ rt'[k][p].face = rt[k][p].face
  <2>1. LookupRoute(rt[k], p)
    BY <1>2, WithdrawStep DEF LookupRoute
  <2> QED  BY <1>2, <2>1, WithdrawStep
<1>3. ASSUME NEW n \in Node, NEW q \in Prefix, AdvNamePrefix(n, q)
      PROVE  rt'[k][p] = rt[k][p]
  BY <1>3, InsertStep, DirectEntryType DEF isDirectRoute, LookupRoute, DirectEntry
<1>4. ASSUME \/ \E n, m \in Node : Discover(n, m)
             \/ \E n \in Node : Advertise(n)
             \/ UNCHANGED vars
      PROVE  rt' = rt
  BY <1>4 DEF Discover, Advertise, vars
<1> QED  BY <1>1, <1>2, <1>3, <1>4 DEF Next, LookupRoute

LEMMA LeadStep ==
  ASSUME UnicastFaces, TypeOK, LeadInv, [Next]_vars
  PROVE  LeadInv'
<1>1. \A k \in Node, p \in Prefix : LookupRoute(rt[k], p) => LookupRoute(rt'[k], p)
  BY EntryStep
<1>2. AdvertsKnown'
  <2> SUFFICES ASSUME NEW a \in adverts', NEW p \in Prefix, a.vector[p] # NoRoute
               PROVE  LookupRoute(rt'[a.from], p)
    BY DEF AdvertsKnown
  <2>1. CASE a \in adverts
    BY <1>1, <2>1 DEF AdvertsKnown, LeadInv, TypeOK
  <2>2. ASSUME NEW n \in Node, Advertise(n), a \notin adverts
        PROVE  LookupRoute(rt'[a.from], p)
    BY <2>2, AdvertiseStep
  <2>3. (\E n \in Node : Advertise(n)) \/ adverts' = adverts
    BY DEF Next, Discover, Merge, RemoveNeighbor, AdvNamePrefix, vars
  <2> QED  BY <2>1, <2>2, <2>3
<1>3. ASSUME NEW n \in Node, NEW m \in Node, NEW p \in Prefix,
             <<n, m>> \in Link, LookupRoute(rt'[n], p),
             rt'[n][p].face = FaceTo[<<n, m>>]
      PROVE  LookupRoute(rt'[m], p)
  <2>1. ~isDirectRoute(rt'[n], p)
    BY <1>3, RoutingTableAssumption, DistanceVectorAssumption DEF isDirectRoute
  <2>2. CASE LookupRoute(rt[n], p) /\ rt'[n][p].face = rt[n][p].face
    BY <1>1, <1>3, <2>2 DEF LeadInv, NextHopsKnow, RoutesVia
  <2>3. ASSUME NEW a \in adverts, <<n, a.from>> \in Link, a.vector[p] # NoRoute,
               rt'[n][p].face = FaceTo[<<n, a.from>>]
        PROVE  LookupRoute(rt'[m], p)
    <3>1. a.from = m
      BY <1>3, <2>3 DEF UnicastFaces, TypeOK
    <3> QED  BY <1>1, <2>3, <3>1 DEF LeadInv, AdvertsKnown
  <2> QED  BY <1>3, <2>1, <2>2, <2>3, NextHopStep
<1>4. ASSUME NEW n \in Node, NEW p \in Prefix,
             LookupRoute(rt'[n], p), ~isDirectRoute(rt'[n], p)
      PROVE  \E m \in Node : <<n, m>> \in Link /\ rt'[n][p].face = FaceTo[<<n, m>>]
  <2>1. ASSUME LookupRoute(rt[n], p), rt'[n][p].face = rt[n][p].face
        PROVE  \E m \in Node : <<n, m>> \in Link /\ rt'[n][p].face = FaceTo[<<n, m>>]
    <3>1. ~isDirectRoute(rt[n], p)
      BY <1>4, <2>1 DEF isDirectRoute
    <3> QED  BY <2>1, <3>1 DEF LeadInv, LearnedFromNeighbors, RoutesVia
  <2>2. ASSUME NEW a \in adverts, <<n, a.from>> \in Link,
               rt'[n][p].face = FaceTo[<<n, a.from>>]
        PROVE  \E m \in Node : <<n, m>> \in Link /\ rt'[n][p].face = FaceTo[<<n, m>>]
    BY <2>2 DEF TypeOK
  <2> QED  BY <1>4, <2>1, <2>2, NextHopStep
<1>5. NextHopsKnow'
  BY <1>3 DEF NextHopsKnow, RoutesVia, LookupRoute
<1>6. LearnedFromNeighbors'
  BY <1>4 DEF LearnedFromNeighbors, RoutesVia, LookupRoute, isDirectRoute
<1> QED  BY <1>2, <1>5, <1>6 DEF LeadInv

\* The FIB adds nothing to the table: n forwards to the next hop of its entry.
LEMMA ForwardsByTable ==
  ASSUME FibMatchesTable, NEW n \in Node, NEW m \in Node, NEW p \in Prefix
  PROVE  ForwardsTo(n, m, p) <=> RoutesVia(n, m, p) /\ ~isDirectRoute(rt[n], p)
<1>1. <<n, m>> \in Link => FaceTo[<<n, m>>] \in Face
  BY DistanceVectorAssumption
<1> QED  BY <1>1 DEF ForwardsTo, RoutesVia, FibMatchesTable

LEMMA LeadsKnow ==
  ASSUME FibMatchesTable, LeadInv
  PROVE  RoutesLeadOn
  BY ForwardsByTable DEF RoutesLeadOn, LeadInv, NextHopsKnow

LEMMA LeadInvariant ==
  ASSUME UnicastFaces
  PROVE  Spec => []LeadInv
<1>1. Init => LeadInv
  <2>1. DirectEntry(1) # NoRoute /\ DirectEntry(1).face = LocalFace
    BY DirectEntryType DEF DirectEntry
  <2>2. \A l \in Link : FaceTo[l] # LocalFace
    BY RoutingTableAssumption, DistanceVectorAssumption
  <2> QED
    BY <2>1, <2>2 DEF Init, LeadInv, AdvertsKnown, NextHopsKnow, LearnedFromNeighbors,
                      RoutesVia, LookupRoute, isDirectRoute
<1>2. TypeOK /\ LeadInv /\ [Next]_vars => LeadInv'
  BY LeadStep
<1> QED  BY <1>1, <1>2, TypeCorrect, PTL DEF Spec

\* RoutesLeadOn for every network of unicast faces: an Interest is never sent
\* to a router without an entry for its prefix, since entries are withdrawn
\* and not erased (ndvr.cpp:299-308, 711-720).
THEOREM NextHopsKnowThePrefix ==
  ASSUME UnicastFaces
  PROVE  Spec => []RoutesLeadOn
<1>1. FibMatchesTable /\ LeadInv => RoutesLeadOn
  BY LeadsKnow
<1> QED  BY <1>1, FibFollowsTable, LeadInvariant, PTL

\* Whoever knows a prefix reaches a producer: a set of routers that holds every
\* next hop of its members, and one that knows the prefix, holds a router that
\* serves it. Taken of the routers an Interest can come to, the Interest may
\* end at a producer and cannot end anywhere else.
RoutesReachProducers ==
  \A p \in Prefix : \A S \in SUBSET Node :
    (/\ \E n \in S : LookupRoute(rt[n], p)
     /\ \A n \in S, m \in Node : ForwardsTo(n, m, p) => m \in S)
      => \E n \in S : isDirectRoute(rt[n], p)

LEMMA KnownReachesProducer ==
  ASSUME FibMatchesTable, LeadInv, NoForwardingLoop
  PROVE  RoutesReachProducers
<1> SUFFICES ASSUME NEW p \in Prefix, NEW S \in SUBSET Node,
                    NEW k \in S, LookupRoute(rt[k], p),
                    \A n \in S, m \in Node : ForwardsTo(n, m, p) => m \in S,
                    \A n \in S : ~isDirectRoute(rt[n], p)
             PROVE  FALSE
  BY DEF RoutesReachProducers
<1> DEFINE T == {n \in S : LookupRoute(rt[n], p)}
<1>1. PICK n \in T : \A m \in T : ~ForwardsTo(n, m, p)
  <2>1. T \in SUBSET Node /\ T # {}
    OBVIOUS
  <2> QED  BY <2>1 DEF NoForwardingLoop
<1>2. PICK m \in Node : RoutesVia(n, m, p)
  BY <1>1 DEF LeadInv, LearnedFromNeighbors
<1>3. ForwardsTo(n, m, p) /\ m \in S
  BY <1>1, <1>2, ForwardsByTable
<1>4. LookupRoute(rt[m], p)
  BY <1>1, <1>3, LeadsKnow DEF RoutesLeadOn
<1> QED  BY <1>1, <1>3, <1>4

\* In every network of unicast faces the routes of the FIBs lead to producers,
\* those that were withdrawn and not unregistered included: neither a circle
\* nor a router without an entry is where they end (ndvr.cpp:286-322, 722-805).
THEOREM RoutesEndAtProducers ==
  ASSUME UnicastFaces
  PROVE  Spec => []RoutesReachProducers
<1>1. FibMatchesTable /\ LeadInv /\ NoForwardingLoop => RoutesReachProducers
  BY KnownReachesProducer
<1> QED  BY <1>1, FibFollowsTable, LeadInvariant, LoopFreedom, PTL

-----------------------------------------------------------------------------
(* Whose routes a removal withdraws.                                       *)

\* m published the distance of p that n's entry is made of.
HeardFrom(n, m, p) ==
  \E a \in adverts : /\ a.from = m
                     /\ a.vector[p] # NoRoute
                     /\ a.vector[p].seq = rt[n][p].seq
                     /\ a.vector[p].cost + 1 = rt[n][p].cost

\* A usable learned route is a distance that the neighbour at its face
\* published, one hop on.
RoutesWereHeard ==
  \A n \in Node, p \in Prefix :
    (LookupRoute(rt[n], p) /\ ~isDirectRoute(rt[n], p) /\ isValidCost(rt[n][p].cost))
      => \E m \in Node : RoutesVia(n, m, p) /\ HeardFrom(n, m, p)

\* A usable learned route after a step was there before or was just merged.
LEMMA UsableStep ==
  ASSUME TypeOK, [Next]_vars, NEW k \in Node, NEW p \in Prefix,
         LookupRoute(rt'[k], p), ~isDirectRoute(rt'[k], p), isValidCost(rt'[k][p].cost)
  PROVE  \/ rt'[k][p] = rt[k][p]
         \/ \E a \in adverts :
              /\ <<k, a.from>> \in Link
              /\ a.vector[p] # NoRoute
              /\ rt'[k][p] = Learned(a.vector, p, FaceTo[<<k, a.from>>])
<1>1. ASSUME NEW n \in Node, NEW a \in adverts, Merge(n, a), rt'[k][p] # rt[k][p]
      PROVE  /\ <<k, a.from>> \in Link /\ a.vector[p] # NoRoute
             /\ rt'[k][p] = Learned(a.vector, p, FaceTo[<<k, a.from>>])
  <2>1. k = n /\ Adopts(rt[n], a.vector, p)
    BY <1>1, MergeStep
  <2>2. rt'[k][p] = Learned(a.vector, p, FaceTo[<<n, a.from>>])
    BY <1>1, <2>1, MergeStep
  <2> QED  BY <1>1, <2>1, <2>2 DEF Merge, Adopts, Skips
<1>2. ASSUME NEW n \in Node, NEW m \in Node, RemoveNeighbor(n, m)
      PROVE  rt'[k][p] = rt[k][p]
  <2>1. rt'[k][p].cost # InfCost
    BY RoutingTableAssumption DEF isValidCost
  <2>2. rt'[k][p].face # LocalFace
    BY DEF isDirectRoute
  <2> QED  BY <1>2, <2>1, <2>2, WithdrawStep
<1>3. ASSUME NEW n \in Node, NEW q \in Prefix, AdvNamePrefix(n, q)
      PROVE  rt'[k][p] = rt[k][p]
  BY <1>3, InsertStep, DirectEntryType DEF isDirectRoute, LookupRoute, DirectEntry
<1>4. ASSUME \/ \E n, m \in Node : Discover(n, m)
             \/ \E n \in Node : Advertise(n)
             \/ UNCHANGED vars
      PROVE  rt' = rt
  BY <1>4 DEF Discover, Advertise, vars
<1> QED  BY <1>1, <1>2, <1>3, <1>4 DEF Next

LEMMA HeardStep ==
  ASSUME TypeOK, RoutesWereHeard, [Next]_vars
  PROVE  RoutesWereHeard'
<1> SUFFICES ASSUME NEW k \in Node, NEW p \in Prefix,
                    LookupRoute(rt'[k], p), ~isDirectRoute(rt'[k], p),
                    isValidCost(rt'[k][p].cost)
             PROVE  \E m \in Node : RoutesVia(k, m, p)' /\ HeardFrom(k, m, p)'
  BY DEF RoutesWereHeard, LookupRoute, isDirectRoute, isValidCost
<1>1. CASE rt'[k][p] = rt[k][p]
  <2>1. PICK m \in Node : RoutesVia(k, m, p) /\ HeardFrom(k, m, p)
    BY <1>1 DEF RoutesWereHeard, LookupRoute, isDirectRoute
  <2>2. RoutesVia(k, m, p)'
    BY <1>1, <2>1 DEF RoutesVia, LookupRoute
  <2>3. HeardFrom(k, m, p)'
    BY <1>1, <2>1, AdvertsGrow DEF HeardFrom
  <2> QED  BY <2>2, <2>3
<1>2. ASSUME NEW a \in adverts, <<k, a.from>> \in Link, a.vector[p] # NoRoute,
             rt'[k][p] = Learned(a.vector, p, FaceTo[<<k, a.from>>])
      PROVE  \E m \in Node : RoutesVia(k, m, p)' /\ HeardFrom(k, m, p)'
  <2>1. a.from \in Node /\ a \in adverts'
    BY AdvertsGrow DEF TypeOK
  <2>2. RoutesVia(k, a.from, p)'
    BY <1>2 DEF RoutesVia, LookupRoute, Learned
  <2>3. HeardFrom(k, a.from, p)'
    BY <1>2, <2>1 DEF HeardFrom, Learned
  <2> QED  BY <2>1, <2>2, <2>3
<1> QED  BY <1>1, <1>2, UsableStep

\* A usable route that a removal turns infinite went through the face of the
\* neighbour given up.
LEMMA RemovalWithdraws ==
  ASSUME TypeOK, NEW n \in Node, NEW m \in Node, RemoveNeighbor(n, m), NEW p \in Prefix,
         LookupRoute(rt[n], p), isValidCost(rt[n][p].cost), ~isValidCost(rt'[n][p].cost)
  PROVE  rt[n][p].face = FaceTo[<<n, m>>] /\ ~isDirectRoute(rt[n], p)
<1> DEFINE face == FaceTo[<<n, m>>]
<1>1. face # LocalFace
  BY RoutingTableAssumption, DistanceVectorAssumption DEF RemoveNeighbor
<1>2. rt'[n][p] = WithdrawEntry(rt[n][p], face)
  BY DEF RemoveNeighbor, WithdrawTable, TypeOK
<1>3. rt[n][p] \in Entry
  BY DEF TypeOK, Table, LookupRoute
<1>4. CASE rt[n][p].face # face
  <2>1. rt'[n][p].cost = rt[n][p].cost
    BY <1>2, <1>3, <1>4 DEF WithdrawEntry, isNextHop, Entry
  <2> QED  BY <2>1
<1> QED  BY <1>1, <1>4 DEF isDirectRoute

LEMMA RemovalStep ==
  ASSUME UnicastFaces, TypeOK, RoutesWereHeard, [Next]_vars,
         NEW n \in Node, NEW m \in nbrs[n] \ nbrs'[n], NEW p \in Prefix,
         LookupRoute(rt[n], p), isValidCost(rt[n][p].cost), ~isValidCost(rt'[n][p].cost)
  PROVE  HeardFrom(n, m, p)
<1>0. m \in Node
  BY DEF TypeOK
<1>1. RemoveNeighbor(n, m)
  <2>1. ASSUME NEW k \in Node, NEW l \in Node, Discover(k, l)
        PROVE  nbrs[n] \subseteq nbrs'[n]
    BY <2>1 DEF Discover, TypeOK
  <2>2. ASSUME NEW k \in Node, NEW l \in Node, RemoveNeighbor(k, l)
        PROVE  k = n /\ l = m
    BY <2>2 DEF RemoveNeighbor, TypeOK
  <2>3. ASSUME \/ \E k \in Node : Advertise(k)
               \/ \E k \in Node, a \in adverts : Merge(k, a)
               \/ \E k \in Node, q \in Prefix : AdvNamePrefix(k, q)
               \/ UNCHANGED vars
        PROVE  nbrs' = nbrs
    BY <2>3 DEF Advertise, Merge, AdvNamePrefix, vars
  <2> QED  BY <2>1, <2>2, <2>3 DEF Next
<1>2. rt[n][p].face = FaceTo[<<n, m>>] /\ ~isDirectRoute(rt[n], p)
  BY <1>0, <1>1, RemovalWithdraws
<1>3. PICK k \in Node : RoutesVia(n, k, p) /\ HeardFrom(n, k, p)
  BY <1>2 DEF RoutesWereHeard
<1>4. k = m
  BY <1>0, <1>1, <1>2, <1>3 DEF UnicastFaces, RoutesVia, RemoveNeighbor
<1> QED  BY <1>3, <1>4

\* OthersKeepTheirRoutes for every network of unicast faces: the withdrawal
\* loop goes by the face alone, and a route at the face of m is one that m
\* published (ndvr.cpp:297-307).
THEOREM RemovalSparesOthers ==
  ASSUME UnicastFaces
  PROVE  Spec => OthersKeepTheirRoutes
<1>1. Init => RoutesWereHeard
  <2>1. DirectEntry(1) # NoRoute /\ DirectEntry(1).face = LocalFace
    BY DirectEntryType DEF DirectEntry
  <2> QED  BY <2>1 DEF Init, RoutesWereHeard, LookupRoute, isDirectRoute
<1>2. TypeOK /\ RoutesWereHeard /\ [Next]_vars => RoutesWereHeard'
  BY HeardStep
<1>3. TypeOK /\ RoutesWereHeard /\ [Next]_vars =>
        [\A n \in Node : \A m \in nbrs[n] \ nbrs'[n], p \in Prefix :
           (/\ LookupRoute(rt[n], p) /\ isValidCost(rt[n][p].cost)
            /\ LookupRoute(rt'[n], p) /\ ~isValidCost(rt'[n][p].cost))
             => \E a \in adverts : /\ a.from = m
                                   /\ a.vector[p] # NoRoute
                                   /\ a.vector[p].seq = rt[n][p].seq
                                   /\ a.vector[p].cost + 1 = rt[n][p].cost]_vars
  BY RemovalStep DEF HeardFrom
<1> QED  BY <1>1, <1>2, <1>3, TypeCorrect, PTL DEF Spec, OthersKeepTheirRoutes

-----------------------------------------------------------------------------
(* The refinement of module Forwarding.                                    *)

NextHops(n, p) == {m \in Node : ForwardsTo(n, m, p)}

\* Everything a step must keep, before and after it.
ForwardInv == TypeOK /\ FibMatchesTable /\ LeadInv /\ NoForwardingLoop

\* The next hops by a router's table alone.
TableHops(n, table, p) ==
  {m \in Node : /\ <<n, m>> \in Link
                /\ LookupRoute(table, p) /\ ~isDirectRoute(table, p)
                /\ table[p].face = FaceTo[<<n, m>>]}

LEMMA HopsByTable ==
  ASSUME FibMatchesTable, NEW n \in Node, NEW p \in Prefix
  PROVE  NextHops(n, p) = TableHops(n, rt[n], p)
<1>1. \A l \in Link : FaceTo[l] \in Face
  BY DistanceVectorAssumption
<1> QED  BY <1>1 DEF FibMatchesTable, NextHops, TableHops, ForwardsTo

LEMMA HopsByTableNext ==
  ASSUME FibMatchesTable', NEW n \in Node, NEW p \in Prefix
  PROVE  NextHops(n, p)' = TableHops(n, rt'[n], p)
<1>1. \A l \in Link : FaceTo[l] \in Face
  BY DistanceVectorAssumption
<1> QED
  BY <1>1 DEF FibMatchesTable, NextHops, TableHops, ForwardsTo, LookupRoute, isDirectRoute

\* Entries with the same next hop are the same to those who forward.
LEMMA SameFaceSameHops ==
  ASSUME NEW old, NEW new, NEW n \in Node, NEW p \in Prefix,
         LookupRoute(new, p) <=> LookupRoute(old, p),
         LookupRoute(old, p) => new[p].face = old[p].face
  PROVE  /\ TableHops(n, new, p) = TableHops(n, old, p)
         /\ isDirectRoute(new, p) <=> isDirectRoute(old, p)
<1>1. isDirectRoute(new, p) <=> isDirectRoute(old, p)
  BY DEF isDirectRoute
<1> QED  BY <1>1 DEF TableHops

\* The three things a step may do to what routers serve and where they forward
\* to: nothing, a change of one router's next hops, or a prefix served.
ServingStays ==
  \A k \in Node, p \in Prefix : isDirectRoute(rt'[k], p) <=> isDirectRoute(rt[k], p)
RoutesStay ==
  ServingStays /\ \A k \in Node, p \in Prefix : NextHops(k, p)' = NextHops(k, p)
Rerouted(n) ==
  /\ ServingStays
  /\ \A k \in Node \ {n}, p \in Prefix : NextHops(k, p)' = NextHops(k, p)
  /\ \A p \in Prefix : NextHops(n, p) # {} => NextHops(n, p)' # {}
Served(n, q) ==
  \A k \in Node, p \in Prefix :
    /\ isDirectRoute(rt'[k], p) <=> isDirectRoute(rt[k], p) \/ (k = n /\ p = q)
    /\ NextHops(k, p)' = IF k = n /\ p = q THEN {} ELSE NextHops(k, p)

LEMMA ForwardStep ==
  ASSUME UnicastFaces, ForwardInv, ForwardInv', [Next]_vars
  PROVE  \/ RoutesStay
         \/ \E n \in Node : Rerouted(n)
         \/ \E n \in Node, q \in Prefix : Served(n, q)
<1> USE DEF ForwardInv
<1>0. \A n \in Node, p \in Prefix :
        /\ NextHops(n, p) = TableHops(n, rt[n], p)
        /\ NextHops(n, p)' = TableHops(n, rt'[n], p)
  BY HopsByTable, HopsByTableNext
<1>1. ASSUME rt' = rt
      PROVE  RoutesStay
  BY <1>0, <1>1 DEF RoutesStay, ServingStays
<1>2. ASSUME NEW n \in Node, NEW m \in Node, RemoveNeighbor(n, m)
      PROVE  RoutesStay
  <2> SUFFICES ASSUME NEW k \in Node, NEW p \in Prefix
               PROVE  /\ isDirectRoute(rt'[k], p) <=> isDirectRoute(rt[k], p)
                      /\ TableHops(k, rt'[k], p) = TableHops(k, rt[k], p)
    BY <1>0 DEF RoutesStay, ServingStays
  <2>1. LookupRoute(rt'[k], p) <=> LookupRoute(rt[k], p)
    BY <1>2, WithdrawStep DEF LookupRoute
  <2>2. LookupRoute(rt[k], p) => rt'[k][p].face = rt[k][p].face
    BY <1>2, WithdrawStep
  <2> QED  BY <2>1, <2>2, SameFaceSameHops
<1>3. ASSUME NEW n \in Node, NEW a \in adverts, Merge(n, a)
      PROVE  Rerouted(n)
  <2> DEFINE face == FaceTo[<<n, a.from>>]
  <2>1. <<n, a.from>> \in Link /\ a.from \in Node /\ face # LocalFace
    BY <1>3, RoutingTableAssumption, DistanceVectorAssumption DEF Merge, TypeOK
  <2>2. ASSUME NEW k \in Node, NEW p \in Prefix, ~(k = n /\ Adopts(rt[n], a.vector, p))
        PROVE  rt'[k][p] = rt[k][p]
    BY <1>3, <2>2, MergeStep
  <2>3. ASSUME NEW p \in Prefix, Adopts(rt[n], a.vector, p)
        PROVE  /\ rt'[n][p].face = face
               /\ ~isDirectRoute(rt[n], p) /\ ~isDirectRoute(rt'[n], p)
    <3>1. rt'[n][p] = Learned(a.vector, p, face)
      BY <1>3, <2>3, MergeStep
    <3>2. rt'[n][p].face = face
      BY <3>1 DEF Learned
    <3> QED  BY <2>1, <2>3, <3>2 DEF isDirectRoute, Adopts, Skips
  <2>4. ASSUME NEW p \in Prefix, Adopts(rt[n], a.vector, p), NextHops(n, p) # {}
        PROVE  NextHops(n, p)' # {}
    <3>1. LookupRoute(rt[n], p)
      BY <1>0, <2>4 DEF TableHops
    <3>2. LookupRoute(rt'[n], p)
      BY <3>1, EntryStep
    <3>3. a.from \in TableHops(n, rt'[n], p)
      BY <2>1, <2>3, <2>4, <3>2 DEF TableHops
    <3> QED  BY <1>0, <3>3
  <2>5. ASSUME NEW k \in Node, NEW p \in Prefix, rt'[k][p] = rt[k][p]
        PROVE  /\ isDirectRoute(rt'[k], p) <=> isDirectRoute(rt[k], p)
               /\ NextHops(k, p)' = NextHops(k, p)
    BY <1>0, <2>5, SameFaceSameHops DEF LookupRoute
  <2>6. \A k \in Node, p \in Prefix :
          isDirectRoute(rt'[k], p) <=> isDirectRoute(rt[k], p)
    BY <2>2, <2>3, <2>5
  <2>7. \A k \in Node \ {n}, p \in Prefix : NextHops(k, p)' = NextHops(k, p)
    BY <2>2, <2>5
  <2>8. \A p \in Prefix : NextHops(n, p) # {} => NextHops(n, p)' # {}
    BY <2>2, <2>4, <2>5
  <2> QED  BY <2>6, <2>7, <2>8 DEF Rerouted, ServingStays
<1>4. ASSUME NEW n \in Node, NEW q \in Prefix, AdvNamePrefix(n, q)
      PROVE  Served(n, q)
  <2> SUFFICES ASSUME NEW k \in Node, NEW p \in Prefix
               PROVE  /\ isDirectRoute(rt'[k], p) <=>
                           isDirectRoute(rt[k], p) \/ (k = n /\ p = q)
                      /\ NextHops(k, p)' = IF k = n /\ p = q THEN {} ELSE NextHops(k, p)
    BY DEF Served
  <2>1. CASE k = n /\ p = q
    <3>1. isDirectRoute(rt'[k], p)
      BY <1>4, <2>1, InsertStep, DirectEntryType DEF isDirectRoute, LookupRoute, DirectEntry
    <3> QED  BY <1>0, <2>1, <3>1 DEF TableHops
  <2>2. CASE ~(k = n /\ p = q)
    <3>1. rt'[k][p] = rt[k][p]
      BY <1>4, <2>2, InsertStep
    <3> QED  BY <1>0, <2>2, <3>1, SameFaceSameHops DEF LookupRoute
  <2> QED  BY <2>1, <2>2
<1>5. ASSUME \/ \E n, m \in Node : Discover(n, m)
             \/ \E n \in Node : Advertise(n)
             \/ UNCHANGED vars
      PROVE  RoutesStay
  BY <1>1, <1>5 DEF Discover, Advertise, vars
<1>6. CASE Next
  BY <1>2, <1>3, <1>4, <1>5, <1>6 DEF Next
<1>7. CASE UNCHANGED vars
  BY <1>5, <1>7
<1> QED  BY <1>6, <1>7

\* A step that keeps the invariant is a step of module Forwarding, or none.
LEMMA StepIsRouting ==
  ASSUME UnicastFaces, ForwardInv, ForwardInv', [Next]_vars
  PROVE  [Routes!ForwardingNext]_(Routes!forwardingVars)
<1> DEFINE srv == [n \in Node |-> {p \in Prefix : isDirectRoute(rt[n], p)}]
           hop == [n \in Node |-> [p \in Prefix |-> {m \in Node : ForwardsTo(n, m, p)}]]
<1>0. /\ \A k \in Node, p \in Prefix : hop[k][p] = NextHops(k, p)
      /\ \A k \in Node, p \in Prefix : hop'[k][p] = NextHops(k, p)'
  BY DEF NextHops
<1>1. CASE RoutesStay
  <2>1. srv' = srv
    BY <1>1 DEF RoutesStay, ServingStays
  <2>2. hop' = hop
    BY <1>1 DEF RoutesStay, NextHops
  <2> QED  BY <2>1, <2>2 DEF Routes!forwardingVars
<1>2. ASSUME NEW n \in Node, Rerouted(n)
      PROVE  [Routes!ForwardingNext]_(Routes!forwardingVars)
  <2>1. srv' = srv
    BY <1>2 DEF Rerouted, ServingStays
  <2>2. \A m \in Node \ {n} : hop'[m] = hop[m]
    BY <1>2 DEF Rerouted, NextHops
  <2>3. \A p \in Prefix : hop[n][p] # {} => hop'[n][p] # {}
    BY <1>2, <1>0 DEF Rerouted
  <2>4. \A p \in Prefix : p \in srv[n] => hop'[n][p] = {}
    BY <1>2 DEF Rerouted, ServingStays, ForwardsTo
  <2>5. Routes!LeadsOn(srv, hop')
    <3> SUFFICES ASSUME NEW k \in Node, NEW p \in Prefix, NEW m \in hop'[k][p],
                        p \notin srv[m]
                 PROVE  hop'[m][p] # {}
      BY DEF Routes!LeadsOn
    <3>1. m \in Node /\ m \in TableHops(k, rt'[k], p)
      BY <1>0, HopsByTableNext DEF ForwardInv, NextHops
    <3>2. LookupRoute(rt'[m], p) /\ ~isDirectRoute(rt'[m], p)
      BY <1>2, <3>1 DEF Rerouted, ServingStays, ForwardInv, LeadInv, NextHopsKnow,
                        RoutesVia, TableHops, LookupRoute
    <3>3. \E d \in Node : d \in TableHops(m, rt'[m], p)
      BY <3>1, <3>2 DEF ForwardInv, LeadInv, LearnedFromNeighbors, RoutesVia, TableHops,
                        LookupRoute, isDirectRoute
    <3> QED  BY <1>0, <3>1, <3>3, HopsByTableNext DEF ForwardInv
  <2>6. Routes!NoCircle(hop')
    BY DEF ForwardInv, NoForwardingLoop, Routes!NoCircle
  <2>7. CASE hop' = hop
    BY <2>1, <2>7 DEF Routes!forwardingVars
  <2>8. CASE hop[n] # hop'[n]
    <3>1. Routes!Reroute(n)
      <4> HIDE DEF srv, hop
      <4>1. /\ hop[n] # hop'[n]
            /\ srv' = srv
            /\ \A m \in Node \ {n} : hop'[m] = hop[m]
            /\ \A p \in Prefix : /\ hop[n][p] # {} => hop'[n][p] # {}
                                 /\ p \in srv[n] => hop'[n][p] = {}
            /\ Routes!LeadsOn(srv, hop')
            /\ Routes!NoCircle(hop')
        BY <2>1, <2>2, <2>3, <2>4, <2>5, <2>6, <2>8
      <4> USE DEF srv, hop
      <4> QED  BY <4>1 DEF Routes!Reroute
    <3> QED  BY <3>1 DEF Routes!ForwardingNext
  <2> QED  BY <2>2, <2>7, <2>8
<1>3. ASSUME NEW n \in Node, NEW q \in Prefix, Served(n, q)
      PROVE  [Routes!ForwardingNext]_(Routes!forwardingVars)
  <2>1. srv' = [srv EXCEPT ![n] = @ \cup {q}]
    BY <1>3 DEF Served
  <2>2. hop' = [hop EXCEPT ![n][q] = {}]
    <3>1. \A k \in Node, p \in Prefix :
            hop'[k][p] = IF k = n /\ p = q THEN {} ELSE hop[k][p]
      BY <1>0, <1>3 DEF Served
    <3>2. /\ hop = [k \in Node |-> [p \in Prefix |-> hop[k][p]]]
          /\ hop' = [k \in Node |-> [p \in Prefix |-> hop'[k][p]]]
      OBVIOUS
    <3> HIDE DEF hop
    <3> QED  BY <3>1, <3>2
  <2> QED  BY <2>1, <2>2 DEF Routes!ForwardingNext, Routes!Serve
<1> QED  BY <1>1, <1>2, <1>3, ForwardStep

\* DistanceVector does what module Forwarding says, for every network of
\* unicast faces: an Interest that follows the FIBs never meets a router
\* without a next hop, nor goes round for ever, however vectors are merged and
\* neighbours are given up on its way (ndvr.cpp:286-322, 722-805, 822-840).
THEOREM RoutesAreForwarding ==
  ASSUME UnicastFaces
  PROVE  Spec => ImplementsForwarding
<1>1. Init => Routes!ForwardingInit
  BY DEF Init, Routes!ForwardingInit, ForwardsTo
<1>2. ForwardInv /\ ForwardInv' /\ [Next]_vars
        => [Routes!ForwardingNext]_(Routes!forwardingVars)
  BY StepIsRouting
<1>3. Spec => []ForwardInv
  BY TypeCorrect, FibFollowsTable, LeadInvariant, LoopFreedom, PTL DEF ForwardInv
<1> QED  BY <1>1, <1>2, <1>3, PTL DEF Spec, ImplementsForwarding, Routes!ForwardingSpec
=============================================================================
