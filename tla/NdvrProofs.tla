------------------------------ MODULE NdvrProofs ------------------------------
(***************************************************************************)
(* Theorems about Ndvr for every network and every bound: its types, that  *)
(* it implements DistanceVector, that what a router holds of another's     *)
(* digest and version is never ahead of it, that in every tree without     *)
(* loss a router that does not ask has missed nothing, and what the        *)
(* theorems about DistanceVector say of it.                                *)
(***************************************************************************)
EXTENDS Ndvr, RoutingTableProofs, FiniteSetTheorems

\* Neighbours and hellos exist along links only, a hello carries a version,
\* and what is being validated was published.
LinkInv ==
  /\ \A n, m \in Node : neighVer[n][m] # 0 => <<n, m>> \in Link
  /\ \A n, m \in Node : hello[n][m] # NoHello =>
       <<n, m>> \in Link /\ hello[n][m].version \in Version
  /\ \A n \in Node : validating[n] \subseteq data

SeqInv ==
  /\ \A n \in Node, p \in Prefix : LookupRoute(rt[n], p) => rt[n][p].seq <= MaxSeq
  /\ \A d \in data, p \in Prefix : d.vector[p] # NoRoute => d.vector[p].seq <= MaxSeq

NInv == TypeOK /\ LinkInv /\ SeqInv

LEMMA DigestType ==
  ASSUME NEW table \in Table,
         \A p \in Prefix : LookupRoute(table, p) => table[p].seq <= MaxSeq
  PROVE  Digest(table) \in DigestValue
<1> SUFFICES ASSUME NEW p \in Prefix, LookupRoute(table, p)
             PROVE  table[p].seq \in 0..MaxSeq
  BY NdvrAssumption DEF Digest, DigestValue
<1>1. table[p] \in Entry
  BY DEF Table, LookupRoute
<1> QED  BY <1>1, NdvrAssumption DEF Entry

LEMMA HelloConstants ==
  /\ NoHello \in Hello
  /\ \A h \in Hello : h.version \in Version => h # NoHello
  BY NdvrAssumption DEF NoHello, Hello, DigestValue, NoDigest, Version

LEMMA InitInv == Init => NInv
<1> SUFFICES ASSUME Init PROVE NInv
  OBVIOUS
<1>1. DirectEntry(1) \in Entry /\ DirectEntry(1).seq = 1
  BY DirectEntryType DEF DirectEntry
<1>2. rt \in [Node -> Table]
  BY <1>1 DEF Init, Table
<1>3. \A n \in Node, p \in Prefix : LookupRoute(rt[n], p) => rt[n][p].seq <= MaxSeq
  BY <1>1, NdvrAssumption DEF Init, LookupRoute
<1>4. digest \in [Node -> DigestValue]
  <2>1. \A n \in Node : Digest(rt[n]) \in DigestValue
    BY <1>2, <1>3, DigestType
  <2> QED  BY <2>1 DEF Init
<1>5. TypeOK
  BY <1>2, <1>4, HelloConstants, NdvrAssumption DEF Init, TypeOK, Version
<1> QED  BY <1>3, <1>5 DEF Init, NInv, LinkInv, SeqInv

LEMMA SendHelloInv ==
  ASSUME NInv, NEW n \in Node, SendHelloInterest(n)
  PROVE  NInv'
<1> DEFINE h == [size |-> Cardinality(Known(rt[n])), digest |-> digest[n],
                 version |-> version[n]]
<1>1. h \in Hello /\ h.version \in Version
  <2>1. Cardinality(Known(rt[n])) \in Nat
    BY NdvrAssumption, FS_Subset, FS_CardinalityType DEF Known
  <2> QED  BY <2>1 DEF NInv, TypeOK, Hello, Version
<1>2. \A m, k \in Node :
        hello'[m][k] = IF k = n /\ <<m, n>> \in Link THEN h ELSE hello[m][k]
  BY DEF SendHelloInterest, NInv, TypeOK
<1>3. hello' \in [Node -> [Node -> Hello]]
  BY <1>1 DEF SendHelloInterest, NInv, TypeOK
<1>4. TypeOK'
  BY <1>3 DEF SendHelloInterest, NInv, TypeOK, tableVars, pullVars
<1>5. LinkInv'
  BY <1>1, <1>2 DEF SendHelloInterest, NInv, LinkInv, tableVars, pullVars
<1>6. SeqInv'
  BY DEF SendHelloInterest, NInv, SeqInv, tableVars, pullVars
<1> QED  BY <1>4, <1>5, <1>6 DEF NInv

LEMMA OnHelloInv ==
  ASSUME NInv, NEW n \in Node, NEW m \in Node, OnHelloInterest(n, m)
  PROVE  NInv'
<1> DEFINE h == hello[n][m]
<1>1. h # NoHello /\ <<n, m>> \in Link /\ h.version \in Version /\ h \in Hello
  BY DEF OnHelloInterest, NInv, LinkInv, TypeOK
<1>2. FaceTo[<<n, m>>] \in Face
  BY <1>1, NdvrAssumption
<1>3. neighVer' \in [Node -> [Node -> 0..MaxVersion]]
  BY <1>1, NdvrAssumption DEF OnHelloInterest, NInv, TypeOK, Version
<1>4. dvSched' \in [Node -> SUBSET Node]
  BY DEF OnHelloInterest, SchedDvInfoInterest, NInv, TypeOK
<1>5. TypeOK'
  <2>1. fib' \in [Node -> SUBSET ((Prefix \cup Node) \X Face)]
    BY <1>2 DEF OnHelloInterest, NInv, TypeOK
  <2>2. hello' \in [Node -> [Node -> Hello]]
    BY HelloConstants DEF OnHelloInterest, NInv, TypeOK
  <2>3. UNCHANGED <<rt, version, digest, pullVars>>
    BY DEF OnHelloInterest
  <2> QED
    BY <1>3, <1>4, <2>1, <2>2, <2>3 DEF NInv, TypeOK, pullVars
<1>6. LinkInv'
  BY <1>1 DEF OnHelloInterest, NInv, TypeOK, LinkInv, pullVars
<1>7. SeqInv'
  BY DEF OnHelloInterest, NInv, SeqInv, pullVars
<1> QED  BY <1>5, <1>6, <1>7 DEF NInv

LEMMA PullInv ==
  ASSUME NInv,
         NEW n \in Node,
         \/ \E m \in Node : SendDvInfoInterest(n, m)
         \/ \E i \in interests : OnDvInfoInterest(n, i)
         \/ \E d \in data : OnDvInfoContent(n, d)
         \/ \E r \in pend[n] : OnDvInfoTimedOut(n, r)
         \/ \E d \in data : OnDvInfoValidationFailed(n, d)
  PROVE  NInv'
<1>1. UNCHANGED <<rt, fib, version, digest, neighVer, hello, data>>
  BY DEF SendDvInfoInterest, OnDvInfoInterest, OnDvInfoContent, OnDvInfoTimedOut,
         OnDvInfoValidationFailed, tableVars
<1>2. ASSUME NEW m \in Node, SendDvInfoInterest(n, m)
      PROVE  TypeOK' /\ validating' = validating
  <2>1. neighVer[n][m] # 0 => neighVer[n][m] \in Version
    BY DEF NInv, TypeOK, Version
  <2>2. interests' \subseteq [from : Node, to : Node, version : Version]
    BY <1>2, <2>1 DEF SendDvInfoInterest, NInv, TypeOK
  <2>3. pend' \in [Node -> SUBSET Request]
    BY <1>2, <2>1 DEF SendDvInfoInterest, NInv, TypeOK, Request
  <2>4. dvSched' \in [Node -> SUBSET Node] /\ UNCHANGED <<replyEv, validating>>
    BY <1>2 DEF SendDvInfoInterest, NInv, TypeOK
  <2> QED  BY <1>1, <2>2, <2>3, <2>4 DEF NInv, TypeOK
<1>3. ASSUME NEW i \in interests, OnDvInfoInterest(n, i)
      PROVE  TypeOK' /\ validating' = validating
  <2>1. i.version \in 0..MaxVersion
    BY NdvrAssumption DEF NInv, TypeOK, Version
  <2> QED  BY <1>1, <1>3, <2>1 DEF OnDvInfoInterest, NInv, TypeOK
<1>4. ASSUME NEW d \in data, OnDvInfoContent(n, d)
      PROVE  TypeOK' /\ \A k \in Node : validating'[k] \subseteq validating[k] \cup {d}
  BY <1>1, <1>4 DEF OnDvInfoContent, NInv, TypeOK
<1>5. ASSUME NEW r \in pend[n], OnDvInfoTimedOut(n, r)
      PROVE  TypeOK' /\ validating' = validating
  BY <1>1, <1>5 DEF OnDvInfoTimedOut, NInv, TypeOK
<1>6. ASSUME NEW d \in data, OnDvInfoValidationFailed(n, d)
      PROVE  TypeOK' /\ \A k \in Node : validating'[k] \subseteq validating[k]
  BY <1>1, <1>6 DEF OnDvInfoValidationFailed, NInv, TypeOK
<1>7. LinkInv'
  BY <1>1, <1>2, <1>3, <1>4, <1>5, <1>6 DEF NInv, LinkInv
<1>8. SeqInv'
  BY <1>1 DEF NInv, SeqInv
<1> QED  BY <1>2, <1>3, <1>4, <1>5, <1>6, <1>7, <1>8 DEF NInv

LEMMA ReplyInv ==
  ASSUME NInv, NEW n \in Node, ReplyDvInfoInterest(n)
  PROVE  NInv'
<1> DEFINE d == [from |-> n, version |-> replyEv[n], vector |-> EncodeDvInfo(rt[n])]
<1>1. d \in DvInfo
  <2>1. EncodeDvInfo(rt[n]) \in Vector
    BY EncodeType DEF NInv, TypeOK
  <2> QED  BY <2>1 DEF ReplyDvInfoInterest, NInv, TypeOK, DvInfo, Version
<1>2. TypeOK'
  BY <1>1, NdvrAssumption DEF ReplyDvInfoInterest, NInv, TypeOK, tableVars
<1>3. LinkInv'
  BY DEF ReplyDvInfoInterest, NInv, LinkInv, tableVars
<1>4. \A p \in Prefix : d.vector[p] # NoRoute => d.vector[p].seq <= MaxSeq
  BY DEF NInv, SeqInv, EncodeDvInfo
<1>5. SeqInv'
  BY <1>4 DEF ReplyDvInfoInterest, NInv, SeqInv, tableVars
<1> QED  BY <1>2, <1>3, <1>5 DEF NInv

\* What the answer leaves: the old table, or the merged one.
LEMMA ValidatedStep ==
  ASSUME NInv, NEW n \in Node, NEW d \in data, OnValidatedDvInfo(n, d)
  PROVE  \/ UNCHANGED tableVars
         \/ /\ neighVer[n][d.from] # 0 /\ d.from \in Node
            /\ <<n, d.from>> \in Link /\ FaceTo[<<n, d.from>>] \in Face
            /\ rt[n] \in Table /\ d.vector \in Vector
            /\ rt' = [rt EXCEPT ![n] =
                        MergeTable(rt[n], d.vector, FaceTo[<<n, d.from>>])]
            /\ fib' = [fib EXCEPT ![n] =
                        MergeFib(fib[n], rt[n], d.vector, FaceTo[<<n, d.from>>])]
<1>1. d.from \in Node /\ rt[n] \in Table /\ d.vector \in Vector
  BY DEF NInv, TypeOK, DvInfo
<1>2. neighVer[n][d.from] # 0 =>
        <<n, d.from>> \in Link /\ FaceTo[<<n, d.from>>] \in Face
  BY <1>1, NdvrAssumption DEF NInv, LinkInv
<1> QED  BY <1>1, <1>2 DEF OnValidatedDvInfo

LEMMA MergeSeq ==
  ASSUME NEW table \in Table, NEW vec \in Vector, NEW face, NEW p \in Prefix,
         LookupRoute(table, p) => table[p].seq <= MaxSeq,
         vec[p] # NoRoute => vec[p].seq <= MaxSeq,
         LookupRoute(MergeTable(table, vec, face), p)
  PROVE  MergeTable(table, vec, face)[p].seq <= MaxSeq
<1>1. MergeTable(table, vec, face)[p] = MergeEntry(table, vec, p, face)
  BY DEF MergeTable
<1> QED  BY <1>1 DEF MergeEntry, Adopts, Skips, LookupRoute

LEMMA ValidatedInv ==
  ASSUME NInv, NEW n \in Node, NEW d \in data, OnValidatedDvInfo(n, d)
  PROVE  NInv'
<1> DEFINE face == FaceTo[<<n, d.from>>]
           merged == MergeTable(rt[n], d.vector, face)
<1>1. /\ UNCHANGED <<neighVer, dvSched, replyEv, hello, interests, pend, data>>
      /\ validating' = [validating EXCEPT ![n] = @ \ {d}]
  BY DEF OnValidatedDvInfo
<1>2. validating' \in [Node -> SUBSET DvInfo] /\ LinkInv'
  BY <1>1 DEF NInv, TypeOK, LinkInv
<1>3. CASE UNCHANGED tableVars
  <2>1. TypeOK'
    BY <1>1, <1>2, <1>3 DEF NInv, TypeOK, tableVars
  <2>2. SeqInv'
    BY <1>1, <1>3 DEF NInv, SeqInv, tableVars
  <2> QED  BY <1>2, <2>1, <2>2 DEF NInv
<1>4. CASE ~UNCHANGED tableVars
  <2>1. /\ neighVer[n][d.from] # 0 /\ face \in Face
        /\ rt[n] \in Table /\ d.vector \in Vector
        /\ rt' = [rt EXCEPT ![n] = merged]
        /\ fib' = [fib EXCEPT ![n] = MergeFib(fib[n], rt[n], d.vector, face)]
    BY <1>4, ValidatedStep
  <2>2. merged \in Table
    BY <2>1, MergeType
  <2>3. rt' \in [Node -> Table]
    BY <2>1, <2>2 DEF NInv, TypeOK
  <2>4. fib' \in [Node -> SUBSET ((Prefix \cup Node) \X Face)]
    <3>1. fib[n] \subseteq (Prefix \cup Node) \X Face /\ Prefix \subseteq Prefix \cup Node
      BY DEF NInv, TypeOK
    <3>2. MergeFib(fib[n], rt[n], d.vector, face) \subseteq (Prefix \cup Node) \X Face
      BY <2>1, <3>1, MergeFibType
    <3> QED  BY <2>1, <3>2 DEF NInv, TypeOK
  <2>5. \A p \in Prefix : LookupRoute(merged, p) => merged[p].seq <= MaxSeq
    BY <2>1, MergeSeq DEF NInv, SeqInv
  <2>6. SeqInv'
    BY <1>1, <2>1, <2>5 DEF NInv, SeqInv, TypeOK
  <2>7. /\ version' \in [Node -> Version]
        /\ digest' \in [Node -> DigestValue]
    <3>1. Digest(merged) \in DigestValue
      BY <2>2, <2>5, DigestType
    <3>2. PICK changed \in BOOLEAN :
            /\ changed => version[n] < MaxVersion
            /\ version' = [version EXCEPT ![n] = IF changed THEN @ + 1 ELSE @]
            /\ digest' = [digest EXCEPT ![n] = IF changed THEN Digest(merged) ELSE @]
      <4>1. HasChanged(rt[n], d.vector, face) \in BOOLEAN
        BY DEF HasChanged
      <4> QED  BY <2>1, <4>1 DEF OnValidatedDvInfo
    <3> QED  BY <3>1, <3>2, NdvrAssumption DEF NInv, TypeOK, Version
  <2>8. TypeOK'
    BY <1>1, <1>2, <2>3, <2>4, <2>7 DEF NInv, TypeOK
  <2> QED  BY <1>2, <2>6, <2>8 DEF NInv
<1> QED  BY <1>3, <1>4

LEMMA RemoveInv ==
  ASSUME NInv, NEW n \in Node, NEW m \in Node, RemoveNeighbor(n, m)
  PROVE  NInv'
<1> DEFINE left == WithdrawTable(rt[n], FaceTo[<<n, m>>])
<1>1. left \in Table
  BY WithdrawType DEF NInv, TypeOK
<1>2. /\ rt' = [rt EXCEPT ![n] = left]
      /\ \A p \in Prefix : LookupRoute(left, p) => left[p].seq <= MaxSeq
  BY DEF RemoveNeighbor, Known
<1>3. TypeOK'
  BY <1>1, <1>2, NdvrAssumption DEF RemoveNeighbor, NInv, TypeOK, pullVars
<1>4. LinkInv'
  BY DEF RemoveNeighbor, NInv, TypeOK, LinkInv, pullVars
<1>5. SeqInv'
  BY <1>2 DEF RemoveNeighbor, NInv, TypeOK, SeqInv, pullVars
<1> QED  BY <1>3, <1>4, <1>5 DEF NInv

LEMMA AdvInv ==
  ASSUME NInv, NEW n \in Node, NEW p \in Prefix, AdvNamePrefix(n, p)
  PROVE  NInv'
<1> DEFINE new == Insert(rt[n], p, DirectEntry(1))
<1>1. new \in Table
  BY DirectEntryType, InsertType DEF NInv, TypeOK
<1>2. /\ rt' = [rt EXCEPT ![n] = new] /\ rt'[n] = new
      /\ digest' = [digest EXCEPT ![n] = Digest(new)]
  BY DEF AdvNamePrefix, NInv, TypeOK
<1>3. \A q \in Prefix : LookupRoute(new, q) => new[q].seq <= MaxSeq
  BY NdvrAssumption DEF Insert, DirectEntry, LookupRoute, NInv, SeqInv, TypeOK, Table
<1>4. Digest(new) \in DigestValue
  BY <1>1, <1>3, DigestType
<1>5. version' \in [Node -> Version]
  BY NdvrAssumption DEF AdvNamePrefix, NInv, TypeOK, Version
<1>6. TypeOK'
  BY <1>1, <1>2, <1>4, <1>5 DEF AdvNamePrefix, NInv, TypeOK, pullVars
<1>7. LinkInv'
  BY DEF AdvNamePrefix, NInv, LinkInv, pullVars
<1>8. SeqInv'
  BY <1>2, <1>3 DEF AdvNamePrefix, NInv, TypeOK, SeqInv, pullVars
<1> QED  BY <1>6, <1>7, <1>8 DEF NInv

LEMMA NextInv == NInv /\ [Next]_vars => NInv'
<1> SUFFICES ASSUME NInv, [Next]_vars PROVE NInv'
  OBVIOUS
<1>1. CASE UNCHANGED vars
  BY <1>1 DEF vars, NInv, TypeOK, LinkInv, SeqInv
<1>2. CASE Next
  BY <1>2, SendHelloInv, OnHelloInv, PullInv, ReplyInv, ValidatedInv, RemoveInv, AdvInv
     DEF Next
<1> QED  BY <1>1, <1>2

\* Every variable of the daemon keeps its type: in particular no digest, no
\* stored version and no Data ever names more than the bounds allow.
THEOREM NdvrTypeCorrect == Spec => []TypeOK
<1>1. NInv => TypeOK
  BY DEF NInv
<1> QED  BY <1>1, InitInv, NextInv, PTL DEF Spec

-----------------------------------------------------------------------------
(* The implementation.                                                     *)

AdvertsBar == {[from |-> d.from, vector |-> d.vector] : d \in data}
NbrsBar == [n \in Node |-> Neighbors(n)]

\* The operators of RoutingTable are the same seen through DistanceVector.
LEMMA SameOperators ==
  ASSUME NEW table, NEW vec, NEW face
  PROVE  /\ DV!DirectEntry(1) = DirectEntry(1)
         /\ DV!EncodeDvInfo(table) = EncodeDvInfo(table)
         /\ DV!Known(table) = Known(table)
         /\ DV!WithdrawTable(table, face) = WithdrawTable(table, face)
         /\ DV!MergeTable(table, vec, face) = MergeTable(table, vec, face)
         /\ \A p : DV!Insert(table, p, DirectEntry(1)) = Insert(table, p, DirectEntry(1))
<1>1. DV!DirectEntry(1) = DirectEntry(1)
  BY DEF DirectEntry, DV!DirectEntry
<1>2. DV!EncodeDvInfo(table) = EncodeDvInfo(table)
  BY DEF EncodeDvInfo, DV!EncodeDvInfo, LookupRoute, DV!LookupRoute
<1>3. DV!Known(table) = Known(table)
  BY DEF Known, DV!Known, LookupRoute, DV!LookupRoute
<1>4. \A p : DV!Insert(table, p, DirectEntry(1)) = Insert(table, p, DirectEntry(1))
  BY DEF Insert, DV!Insert
<1>5. DV!WithdrawTable(table, face) = WithdrawTable(table, face)
  BY DEF WithdrawTable, DV!WithdrawTable, WithdrawEntry, DV!WithdrawEntry,
         LookupRoute, DV!LookupRoute, isNextHop, DV!isNextHop
<1>6. DV!MergeTable(table, vec, face) = MergeTable(table, vec, face)
  BY DEF MergeTable, DV!MergeTable, MergeEntry, DV!MergeEntry,
         LookupRoute, DV!LookupRoute, isDirectRoute, DV!isDirectRoute,
         isNextHop, DV!isNextHop, isValidCost, DV!isValidCost,
         isInfinityCost, DV!isInfinityCost, CalculateCostToNeigh,
         DV!CalculateCostToNeigh, Skips, DV!Skips, IsNewPrefix,
         DV!IsNewPrefix, IsNewerAtOtherCost, DV!IsNewerAtOtherCost,
         IsSameSeqAndCheaper, DV!IsSameSeqAndCheaper, Adopts, DV!Adopts,
         Deletes, DV!Deletes
<1> QED  BY <1>1, <1>2, <1>3, <1>4, <1>5, <1>6

LEMMA SameMergeFib ==
  ASSUME NEW f, NEW table, NEW vec, NEW face
  PROVE  DV!MergeFib(f, table, vec, face) = MergeFib(f, table, vec, face)
  BY DEF MergeFib, DV!MergeFib, Adopted, DV!Adopted, Deleted, DV!Deleted,
         Known, DV!Known, LookupRoute, DV!LookupRoute, isDirectRoute,
         DV!isDirectRoute, isNextHop, DV!isNextHop, isValidCost,
         DV!isValidCost, isInfinityCost, DV!isInfinityCost,
         CalculateCostToNeigh, DV!CalculateCostToNeigh, Skips, DV!Skips,
         IsNewPrefix, DV!IsNewPrefix, IsNewerAtOtherCost,
         DV!IsNewerAtOtherCost, IsSameSeqAndCheaper,
         DV!IsSameSeqAndCheaper, Adopts, DV!Adopts, Deletes, DV!Deletes

LEMMA InitImplements == Init => DV!Init
<1> SUFFICES ASSUME Init PROVE DV!Init
  OBVIOUS
<1>1. DV!DirectEntry(1) = DirectEntry(1)
  BY DEF DirectEntry, DV!DirectEntry
<1>2. rt = [n \in Node |-> [p \in Prefix |->
             IF p \in NamePrefixes[n] THEN DV!DirectEntry(1) ELSE NoRoute]]
  BY <1>1 DEF Init
<1>3. fib = [n \in Node |-> {}]
  BY DEF Init
<1>4. NbrsBar = [n \in Node |-> {}]
  <2>1. \A n \in Node : Neighbors(n) = {}
    BY DEF Init, Neighbors
  <2> QED  BY <2>1 DEF NbrsBar
<1>5. AdvertsBar = {}
  BY DEF Init, AdvertsBar
<1> QED  BY <1>2, <1>3, <1>4, <1>5 DEF DV!Init, NbrsBar, AdvertsBar

LEMMA StepImplements == NInv /\ [Next]_vars => [DV!Next]_(DV!vars)
<1> SUFFICES ASSUME NInv, [Next]_vars
             PROVE  DV!Next \/ UNCHANGED <<rt, fib, NbrsBar, AdvertsBar>>
  BY DEF DV!vars, NbrsBar, AdvertsBar
<1>1. ASSUME UNCHANGED <<rt, fib, neighVer, data>>
      PROVE  UNCHANGED <<rt, fib, NbrsBar, AdvertsBar>>
  BY <1>1 DEF NbrsBar, AdvertsBar, Neighbors
<1>2. ASSUME \/ \E n \in Node : SendHelloInterest(n)
             \/ \E n, m \in Node : SendDvInfoInterest(n, m)
             \/ \E n \in Node, i \in interests : OnDvInfoInterest(n, i)
             \/ \E n \in Node, d \in data : OnDvInfoContent(n, d)
             \/ \E n \in Node : \E r \in pend[n] : OnDvInfoTimedOut(n, r)
             \/ \E n \in Node, d \in data : OnDvInfoValidationFailed(n, d)
             \/ UNCHANGED vars
      PROVE  UNCHANGED <<rt, fib, neighVer, data>>
  BY <1>2 DEF SendHelloInterest, SendDvInfoInterest, OnDvInfoInterest, OnDvInfoContent,
              OnDvInfoTimedOut, OnDvInfoValidationFailed, vars, tableVars, pullVars
<1>3. ASSUME NEW n \in Node, NEW m \in Node, OnHelloInterest(n, m)
      PROVE  DV!Next \/ UNCHANGED <<rt, fib, NbrsBar, AdvertsBar>>
  <2>1. /\ <<n, m>> \in Link /\ hello[n][m].version \in Version
        /\ UNCHANGED <<rt, data>> /\ UNCHANGED AdvertsBar
    BY <1>3 DEF OnHelloInterest, NInv, LinkInv, pullVars, AdvertsBar
  <2>2. CASE neighVer[n][m] = 0
    <3>1. neighVer' = [neighVer EXCEPT ![n][m] = hello[n][m].version]
      BY <1>3, <2>2 DEF OnHelloInterest
    <3>2. hello[n][m].version # 0
      BY <2>1, NdvrAssumption DEF Version
    <3>3. NbrsBar' = [NbrsBar EXCEPT ![n] = @ \cup {m}] /\ m \notin NbrsBar[n]
      BY <2>2, <3>1, <3>2 DEF NbrsBar, Neighbors, NInv, TypeOK
    <3>4. fib' = [fib EXCEPT ![n] = @ \cup {<<m, FaceTo[<<n, m>>]>>}]
      BY <1>3, <2>2 DEF OnHelloInterest
    <3>5. DV!Discover(n, m)
      BY <2>1, <3>3, <3>4 DEF DV!Discover, NbrsBar, AdvertsBar
    <3> QED  BY <3>5 DEF DV!Next
  <2>3. CASE neighVer[n][m] # 0
    <3>1. fib' = fib
      BY <1>3, <2>3 DEF OnHelloInterest
    <3>2. \A k, j \in Node : neighVer'[k][j] = 0 <=> neighVer[k][j] = 0
      BY <1>3, <2>1, <2>3, NdvrAssumption DEF OnHelloInterest, NInv, TypeOK, Version
    <3>3. NbrsBar' = NbrsBar
      BY <3>2 DEF NbrsBar, Neighbors
    <3> QED  BY <2>1, <3>1, <3>3
  <2> QED  BY <2>2, <2>3
<1>4. ASSUME NEW n \in Node, ReplyDvInfoInterest(n)
      PROVE  DV!Next
  <2>1. AdvertsBar' = AdvertsBar \cup {[from |-> n, vector |-> EncodeDvInfo(rt[n])]}
    <3> DEFINE d == [from |-> n, version |-> replyEv[n], vector |-> EncodeDvInfo(rt[n])]
               advert(x) == [from |-> x.from, vector |-> x.vector]
    <3>1. data' = data \cup {d}
      BY <1>4 DEF ReplyDvInfoInterest
    <3>2. {advert(x) : x \in data \cup {d}} = {advert(x) : x \in data} \cup {advert(d)}
      OBVIOUS
    <3>3. advert(d) = [from |-> n, vector |-> EncodeDvInfo(rt[n])]
      OBVIOUS
    <3> QED  BY <3>1, <3>2, <3>3 DEF AdvertsBar
  <2>2. UNCHANGED <<rt, fib, neighVer>> /\ UNCHANGED NbrsBar
    BY <1>4 DEF ReplyDvInfoInterest, tableVars, NbrsBar, Neighbors
  <2>3. DV!Advertise(n)
    BY <2>1, <2>2, SameOperators DEF DV!Advertise, NbrsBar, AdvertsBar
  <2> QED  BY <2>3 DEF DV!Next
<1>5. ASSUME NEW n \in Node, NEW d \in data, OnValidatedDvInfo(n, d)
      PROVE  DV!Next \/ UNCHANGED <<rt, fib, NbrsBar, AdvertsBar>>
  <2> DEFINE a == [from |-> d.from, vector |-> d.vector]
  <2>1. UNCHANGED <<neighVer, data>> /\ UNCHANGED <<NbrsBar, AdvertsBar>>
    BY <1>5 DEF OnValidatedDvInfo, NbrsBar, AdvertsBar, Neighbors
  <2>2. CASE UNCHANGED tableVars
    BY <2>1, <2>2 DEF tableVars
  <2>3. CASE ~UNCHANGED tableVars
    <3>1. /\ neighVer[n][d.from] # 0 /\ d.from \in Node
          /\ <<n, d.from>> \in Link
          /\ rt' = [rt EXCEPT ![n] =
                      MergeTable(rt[n], d.vector, FaceTo[<<n, d.from>>])]
          /\ fib' = [fib EXCEPT ![n] =
                      MergeFib(fib[n], rt[n], d.vector, FaceTo[<<n, d.from>>])]
      BY <1>5, <2>3, ValidatedStep
    <3>2. a \in AdvertsBar /\ d.from \in NbrsBar[n]
      BY <3>1 DEF AdvertsBar, NbrsBar, Neighbors
    <3>3. DV!Merge(n, a)
      BY <2>1, <3>1, <3>2, SameOperators, SameMergeFib DEF DV!Merge, NbrsBar, AdvertsBar
    <3> QED  BY <3>2, <3>3 DEF DV!Next, AdvertsBar
  <2> QED  BY <2>2, <2>3
<1>6. ASSUME NEW n \in Node, NEW m \in Node, RemoveNeighbor(n, m)
      PROVE  DV!Next
  <2>1. /\ <<n, m>> \in Link /\ m \in NbrsBar[n]
        /\ UNCHANGED <<fib, data>> /\ UNCHANGED AdvertsBar
    BY <1>6 DEF RemoveNeighbor, NInv, LinkInv, pullVars, NbrsBar, AdvertsBar, Neighbors
  <2>2. NbrsBar' = [NbrsBar EXCEPT ![n] = @ \ {m}]
    BY <1>6 DEF RemoveNeighbor, NInv, TypeOK, NbrsBar, Neighbors
  <2>3. DV!RemoveNeighbor(n, m)
    <3> DEFINE left == WithdrawTable(rt[n], FaceTo[<<n, m>>])
    <3>1. DV!WithdrawTable(rt[n], FaceTo[<<n, m>>]) = left /\ DV!Known(left) = Known(left)
      BY SameOperators
    <3>2. rt' = [rt EXCEPT ![n] = left] /\ \A p \in Known(left) : left[p].seq <= MaxSeq
      BY <1>6 DEF RemoveNeighbor
    <3> QED  BY <2>1, <2>2, <3>1, <3>2 DEF DV!RemoveNeighbor, NbrsBar, AdvertsBar
  <2> QED  BY <2>3 DEF DV!Next
<1>7. ASSUME NEW n \in Node, NEW p \in Prefix, AdvNamePrefix(n, p)
      PROVE  DV!Next
  <2>1. UNCHANGED <<fib, neighVer, data>> /\ UNCHANGED <<NbrsBar, AdvertsBar>>
    BY <1>7 DEF AdvNamePrefix, pullVars, NbrsBar, AdvertsBar, Neighbors
  <2>2. DV!AdvNamePrefix(n, p)
    BY <1>7, <2>1, SameOperators DEF AdvNamePrefix, DV!AdvNamePrefix, NbrsBar, AdvertsBar
  <2> QED  BY <2>2 DEF DV!Next
<1> QED  BY <1>1, <1>2, <1>3, <1>4, <1>5, <1>6, <1>7 DEF Next

\* Implements for every network: hellos, grouped replies, caches, expiry and
\* late validation add nothing to what DistanceVector allows, so every safety
\* property proved of it holds of the daemon.
THEOREM NdvrImplementsDistanceVector == Spec => Implements
<1>1. NInv /\ [Next]_vars => NInv' /\ [DV!Next]_(DV!vars)
  BY NextInv, StepImplements
<1> QED  BY <1>1, InitInv, InitImplements, PTL DEF Spec, Implements, DV!Spec

-----------------------------------------------------------------------------
(* Digests.                                                                *)

\* A digest of the table as it is stands for it, where numbers start at 1.
LEMMA FreshDigest ==
  ASSUME NEW table \in Table, NEW p \in Prefix,
         LookupRoute(table, p) => table[p].seq >= 1
  PROVE  IF LookupRoute(table, p) THEN Digest(table)[p] \in 1..table[p].seq
                                  ELSE Digest(table)[p] = 0
<1>1. LookupRoute(table, p) => table[p] \in Entry
  BY DEF Table, LookupRoute
<1> QED  BY <1>1 DEF Digest, Entry

LEMMA UnchangedMerge ==
  ASSUME NEW table \in Table, NEW vec, NEW face, ~HasChanged(table, vec, face)
  PROVE  MergeTable(table, vec, face) = table
<1>1. \A p \in Prefix : ~Adopts(table, vec, p) /\ ~Deletes(table, vec, p, face)
  BY DEF HasChanged, Adopted, Deleted
<1>2. \A p \in Prefix : MergeEntry(table, vec, p, face) = table[p]
  BY <1>1 DEF MergeEntry
<1> QED  BY <1>2 DEF MergeTable, Table

LEMMA MergeSeqPositive ==
  ASSUME NEW table \in Table, NEW vec \in Vector, NEW face, NEW p \in Prefix,
         LookupRoute(table, p) => table[p].seq >= 1,
         LookupRoute(MergeTable(table, vec, face), p)
  PROVE  MergeTable(table, vec, face)[p].seq >= 1
<1>1. MergeTable(table, vec, face)[p] = MergeEntry(table, vec, p, face)
  BY DEF MergeTable
<1>2. CASE Adopts(table, vec, p)
  <2>1. vec[p].seq \in Nat /\ vec[p].seq # 0
    BY <1>2 DEF Adopts, Skips, Vector, Distance
  <2> QED  BY <1>1, <1>2, <2>1 DEF MergeEntry
<1>3. CASE ~Adopts(table, vec, p)
  BY <1>1, <1>3 DEF MergeEntry, LookupRoute
<1> QED  BY <1>2, <1>3

LEMMA DigestInit == Init => DigestLagsTable
<1> SUFFICES ASSUME Init, NEW n \in Node, NEW p \in Prefix
             PROVE  IF LookupRoute(rt[n], p) THEN digest[n][p] \in 1..rt[n][p].seq
                                             ELSE digest[n][p] = 0
  BY DEF DigestLagsTable
<1>1. rt[n] \in Table
  BY InitInv DEF NInv, TypeOK
<1>2. LookupRoute(rt[n], p) => rt[n][p].seq >= 1
  BY DEF Init, LookupRoute, DirectEntry
<1>3. digest[n] = Digest(rt[n])
  BY DEF Init
<1> QED  BY <1>1, <1>2, <1>3, FreshDigest

LEMMA DigestStep ==
  ASSUME NInv, DigestLagsTable, [Next]_vars
  PROVE  DigestLagsTable'
<1> DEFINE Lags(table, d) ==
      \A p \in Prefix : IF LookupRoute(table, p) THEN d[p] \in 1..table[p].seq
                                                 ELSE d[p] = 0
<1>1. \A n \in Node : rt[n] \in Table /\ Lags(rt[n], digest[n])
  BY DEF NInv, TypeOK, DigestLagsTable
<1>2. \A n \in Node, p \in Prefix : LookupRoute(rt[n], p) => rt[n][p].seq >= 1
  <2> SUFFICES ASSUME NEW n \in Node, NEW p \in Prefix, LookupRoute(rt[n], p)
               PROVE  rt[n][p].seq >= 1
    OBVIOUS
  <2>1. rt[n][p] \in Entry /\ digest[n][p] \in 1..rt[n][p].seq
    BY <1>1 DEF Table, LookupRoute
  <2> QED  BY <2>1 DEF Entry
<1>3. \A n \in Node, table \in Table :
        (\A p \in Prefix : LookupRoute(table, p) => table[p].seq >= 1)
          => Lags(table, Digest(table))
  BY FreshDigest
<1> SUFFICES \A n \in Node : Lags(rt'[n], digest'[n])
  BY DEF DigestLagsTable, LookupRoute
<1> HIDE DEF Lags
<1>4. CASE UNCHANGED <<rt, digest>>
  BY <1>1, <1>4
<1>5. ASSUME NEW n \in Node, NEW d \in data, OnValidatedDvInfo(n, d)
      PROVE  \A k \in Node : Lags(rt'[k], digest'[k])
  <2> DEFINE face == FaceTo[<<n, d.from>>]
             merged == MergeTable(rt[n], d.vector, face)
  <2>1. CASE UNCHANGED tableVars
    BY <1>4, <2>1 DEF tableVars
  <2>2. CASE ~UNCHANGED tableVars
    <3>1. /\ face \in Face /\ d.vector \in Vector /\ rt[n] \in Table
          /\ neighVer[n][d.from] # 0
          /\ rt' = [rt EXCEPT ![n] = merged]
      BY <1>5, <2>2, ValidatedStep
    <3>2. merged \in Table
      BY <3>1, MergeType
    <3>3. \A p \in Prefix : LookupRoute(merged, p) => merged[p].seq >= 1
      BY <1>2, <3>1, MergeSeqPositive
    <3>4. CASE HasChanged(rt[n], d.vector, face)
      <4>1. digest' = [digest EXCEPT ![n] = Digest(merged)]
        BY <1>5, <3>1, <3>4 DEF OnValidatedDvInfo
      <4>2. Lags(merged, Digest(merged))
        BY <1>3, <3>2, <3>3
      <4> QED  BY <1>1, <3>1, <4>1, <4>2 DEF NInv, TypeOK
    <3>5. CASE ~HasChanged(rt[n], d.vector, face)
      <4>1. digest' = [digest EXCEPT ![n] = digest[n]]
        BY <1>5, <3>1, <3>5 DEF OnValidatedDvInfo
      <4>2. merged = rt[n]
        BY <3>1, <3>5, UnchangedMerge
      <4> QED  BY <1>1, <3>1, <4>1, <4>2 DEF NInv, TypeOK
    <3> QED  BY <3>4, <3>5
  <2> QED  BY <2>1, <2>2
<1>6. ASSUME NEW n \in Node, NEW m \in Node, RemoveNeighbor(n, m)
      PROVE  \A k \in Node : Lags(rt'[k], digest'[k])
  <2> DEFINE left == WithdrawTable(rt[n], FaceTo[<<n, m>>])
  <2>1. rt' = [rt EXCEPT ![n] = left] /\ digest' = digest
    BY <1>6 DEF RemoveNeighbor
  <2>2. ASSUME NEW p \in Prefix
        PROVE  IF LookupRoute(left, p) THEN digest[n][p] \in 1..left[p].seq
                                       ELSE digest[n][p] = 0
    <3>1. CASE LookupRoute(rt[n], p)
      <4>1. rt[n][p] \in Entry /\ digest[n][p] \in 1..rt[n][p].seq
        BY <1>1, <3>1 DEF Table, LookupRoute, Lags
      <4>2. left[p].seq \in Nat /\ left[p].seq >= rt[n][p].seq
        BY <3>1, <4>1 DEF WithdrawTable, WithdrawEntry, Entry
      <4>3. LookupRoute(left, p)
        <5>1. left \in Table /\ left[p] = WithdrawEntry(rt[n][p], FaceTo[<<n, m>>])
          BY <1>1, <3>1, WithdrawType DEF WithdrawTable
        <5>2. left[p] \in Entry
          BY <4>1, <5>1, RoutingTableAssumption DEF WithdrawEntry, Entry, isNextHop
        <5> QED  BY <5>2, RoutingTableAssumption DEF LookupRoute
      <4> QED  BY <4>1, <4>2, <4>3 DEF Entry
    <3>2. CASE ~LookupRoute(rt[n], p)
      BY <1>1, <3>2 DEF WithdrawTable, LookupRoute, Lags
    <3> QED  BY <3>1, <3>2
  <2>3. Lags(left, digest[n])
    BY <2>2 DEF Lags
  <2> QED  BY <1>1, <2>1, <2>3 DEF NInv, TypeOK
<1>7. ASSUME NEW n \in Node, NEW p \in Prefix, AdvNamePrefix(n, p)
      PROVE  \A k \in Node : Lags(rt'[k], digest'[k])
  <2> DEFINE new == Insert(rt[n], p, DirectEntry(1))
  <2>1. rt' = [rt EXCEPT ![n] = new] /\ digest' = [digest EXCEPT ![n] = Digest(new)]
    BY <1>7 DEF AdvNamePrefix, NInv, TypeOK
  <2>2. new \in Table
    BY <1>1, DirectEntryType, InsertType
  <2>3. \A q \in Prefix : LookupRoute(new, q) => new[q].seq >= 1
    BY <1>1, <1>2 DEF Insert, DirectEntry, LookupRoute, Table
  <2>4. Lags(new, Digest(new))
    BY <1>3, <2>2, <2>3
  <2> QED  BY <1>1, <2>1, <2>4 DEF NInv, TypeOK
<1>8. ASSUME \/ \E n \in Node : SendHelloInterest(n) \/ ReplyDvInfoInterest(n)
             \/ \E n, m \in Node : OnHelloInterest(n, m) \/ SendDvInfoInterest(n, m)
             \/ \E n \in Node, i \in interests : OnDvInfoInterest(n, i)
             \/ \E n \in Node, d \in data : OnDvInfoContent(n, d)
             \/ \E n \in Node : \E r \in pend[n] : OnDvInfoTimedOut(n, r)
             \/ \E n \in Node, d \in data : OnDvInfoValidationFailed(n, d)
             \/ UNCHANGED vars
      PROVE  UNCHANGED <<rt, digest>>
  BY <1>8 DEF SendHelloInterest, ReplyDvInfoInterest, OnHelloInterest,
              SendDvInfoInterest, OnDvInfoInterest, OnDvInfoContent, OnDvInfoTimedOut,
              OnDvInfoValidationFailed, vars, tableVars
<1> QED  BY <1>4, <1>5, <1>6, <1>7, <1>8 DEF Next

\* DigestLagsTable for every network and every order of removals and merges: a
\* router whose digest shows a prefix at a number has that prefix at that
\* number or a later one, and one it does not show is not there
\* (routing-table.cpp:61-92, ndvr.cpp:286-322).
THEOREM DigestsAreNeverAhead == Spec => []DigestLagsTable
<1>1. Init => NInv /\ DigestLagsTable
  BY InitInv, DigestInit
<1>2. (NInv /\ DigestLagsTable) /\ [Next]_vars => (NInv /\ DigestLagsTable)'
  BY NextInv, DigestStep
<1> QED  BY <1>1, <1>2, PTL DEF Spec

-----------------------------------------------------------------------------
(* Versions.                                                               *)

\* A hello and an Interest under way do not name a later version either.
VersionInv ==
  /\ VersionsWereReached
  /\ \A n, m \in Node : hello[n][m].version <= version[m]
  /\ \A i \in interests : i.version <= version[i.to]

LEMMA VersionInit == Init => VersionInv
<1> SUFFICES ASSUME Init PROVE VersionInv
  OBVIOUS
<1>1. \A n \in Node : version[n] = 1 /\ replyEv[n] = 0 /\ pend[n] = {}
  BY DEF Init
<1>2. \A n, m \in Node : neighVer[n][m] = 0 /\ hello[n][m].version = 0
  BY DEF Init, NoHello
<1>3. interests = {} /\ data = {}
  BY DEF Init
<1> QED  BY <1>1, <1>2, <1>3 DEF VersionInv, VersionsWereReached

\* What a router has reached it does not fall behind again.
LEMMA VersionsGrow ==
  ASSUME NInv, [Next]_vars
  PROVE  \A n \in Node : version[n] \in Nat /\ version'[n] \in Nat
                         /\ version[n] <= version'[n]
<1>1. version \in [Node -> Nat] /\ version' \in [Node -> Nat]
  BY NextInv, NdvrAssumption DEF NInv, TypeOK, Version
<1>2. CASE UNCHANGED version
  BY <1>1, <1>2
<1>3. ASSUME NEW n \in Node, version' = [version EXCEPT ![n] = @ + 1]
      PROVE  \A k \in Node : version[k] <= version'[k]
  BY <1>1, <1>3
<1>4. ASSUME NEW n \in Node, NEW d \in data, OnValidatedDvInfo(n, d)
      PROVE  UNCHANGED version \/ version' = [version EXCEPT ![n] = @ + 1]
  <2>1. CASE UNCHANGED tableVars
    BY <2>1 DEF tableVars
  <2>2. CASE ~UNCHANGED tableVars
    <3>1. neighVer[n][d.from] # 0
      BY <1>4, <2>2 DEF OnValidatedDvInfo
    <3>2. \/ version' = [version EXCEPT ![n] = version[n] + 1]
          \/ version' = [version EXCEPT ![n] = version[n]]
      BY <1>4, <3>1 DEF OnValidatedDvInfo
    <3> QED  BY <1>1, <3>2
  <2> QED  BY <2>1, <2>2
<1>5. \A n \in Node, p \in Prefix :
        AdvNamePrefix(n, p) => version' = [version EXCEPT ![n] = @ + 1]
  BY DEF AdvNamePrefix
<1>6. ASSUME \/ \E n \in Node : SendHelloInterest(n) \/ ReplyDvInfoInterest(n)
             \/ \E n, m \in Node : \/ OnHelloInterest(n, m) \/ SendDvInfoInterest(n, m)
                                   \/ RemoveNeighbor(n, m)
             \/ \E n \in Node, i \in interests : OnDvInfoInterest(n, i)
             \/ \E n \in Node, d \in data : OnDvInfoContent(n, d)
             \/ \E n \in Node : \E r \in pend[n] : OnDvInfoTimedOut(n, r)
             \/ \E n \in Node, d \in data : OnDvInfoValidationFailed(n, d)
             \/ UNCHANGED vars
      PROVE  UNCHANGED version
  BY <1>6 DEF SendHelloInterest, ReplyDvInfoInterest, OnHelloInterest, RemoveNeighbor,
              SendDvInfoInterest, OnDvInfoInterest, OnDvInfoContent, OnDvInfoTimedOut,
              OnDvInfoValidationFailed, vars, tableVars
<1> QED  BY <1>1, <1>2, <1>3, <1>4, <1>5, <1>6 DEF Next

LEMMA HelloVersions ==
  ASSUME NInv, VersionInv, NEW n \in Node,
         SendHelloInterest(n) \/ \E m \in Node : OnHelloInterest(n, m)
  PROVE  VersionInv'
<1> USE DEF VersionInv, VersionsWereReached
<1>1. /\ version \in [Node -> Version] /\ neighVer \in [Node -> [Node -> 0..MaxVersion]]
      /\ hello \in [Node -> [Node -> Hello]]
  BY DEF NInv, TypeOK
<1>2. CASE SendHelloInterest(n)
  <2>1. UNCHANGED <<version, neighVer, replyEv, pend, data, interests>>
    BY <1>2 DEF SendHelloInterest, tableVars, pullVars
  <2>2. ASSUME NEW k \in Node, NEW m \in Node
        PROVE  hello'[k][m].version \in {hello[k][m].version, version[m]}
    BY <1>1, <1>2 DEF SendHelloInterest
  <2>3. \A m \in Node : version[m] \in Nat
    BY <1>1 DEF Version
  <2> QED  BY <2>1, <2>2, <2>3
<1>3. ASSUME NEW m \in Node, OnHelloInterest(n, m)
      PROVE  VersionInv'
  <2>1. UNCHANGED <<version, replyEv, pend, data, interests>>
    BY <1>3 DEF OnHelloInterest, pullVars
  <2>2. \A k, j \in Node : neighVer'[k][j] \in {neighVer[k][j], hello[k][j].version}
    BY <1>1, <1>3 DEF OnHelloInterest
  <2>3. \A k, j \in Node : hello'[k][j].version \in {hello[k][j].version, 0}
    BY <1>1, <1>3 DEF OnHelloInterest, NoHello
  <2>4. \A k \in Node : version[k] >= 0
    BY <1>1 DEF Version
  <2> QED  BY <2>1, <2>2, <2>3, <2>4
<1> QED  BY <1>2, <1>3

LEMMA PullVersions ==
  ASSUME NInv, VersionInv, NEW n \in Node,
         \/ \E m \in Node : SendDvInfoInterest(n, m)
         \/ \E i \in interests : OnDvInfoInterest(n, i)
         \/ ReplyDvInfoInterest(n)
         \/ \E d \in data : OnDvInfoContent(n, d)
         \/ \E r \in pend[n] : OnDvInfoTimedOut(n, r)
  PROVE  VersionInv'
<1>1. /\ version \in [Node -> Version]
      /\ replyEv \in [Node -> 0..MaxVersion] /\ pend \in [Node -> SUBSET Request]
  BY DEF NInv, TypeOK
<1>2. UNCHANGED <<version, neighVer, hello>>
  BY DEF SendDvInfoInterest, OnDvInfoInterest, ReplyDvInfoInterest, OnDvInfoContent,
         OnDvInfoTimedOut, tableVars
<1>3. ASSUME NEW m \in Node, SendDvInfoInterest(n, m)
      PROVE  VersionInv'
  <2>1. UNCHANGED <<replyEv, data>>
    BY <1>3 DEF SendDvInfoInterest
  <2> DEFINE i == [from |-> n, to |-> m, version |-> neighVer[n][m]]
             r == [to |-> m, version |-> neighVer[n][m]]
  <2>2. /\ interests' \subseteq interests \cup {i}
        /\ \A k \in Node : pend'[k] \subseteq pend[k] \cup {r}
    BY <1>1, <1>3 DEF SendDvInfoInterest
  <2>3. /\ i.to = m /\ i.version = neighVer[n][m]
        /\ r.to = m /\ r.version = neighVer[n][m]
    OBVIOUS
  <2> HIDE DEF i, r
  <2> QED  BY <1>2, <2>1, <2>2, <2>3 DEF VersionInv, VersionsWereReached
<1>4. ASSUME NEW i \in interests, OnDvInfoInterest(n, i)
      PROVE  VersionInv'
  <2>1. UNCHANGED <<pend, data>> /\ interests' \subseteq interests
    BY <1>4 DEF OnDvInfoInterest
  <2>2. /\ i.to = n
        /\ replyEv' = replyEv \/ replyEv' = [replyEv EXCEPT ![n] = i.version]
    BY <1>4 DEF OnDvInfoInterest
  <2>3. \A k \in Node :
          replyEv'[k] = replyEv[k] \/ (k = n /\ replyEv'[k] = i.version)
    BY <1>1, <2>2
  <2> QED  BY <1>2, <2>1, <2>2, <2>3 DEF VersionInv, VersionsWereReached
<1>5. CASE ReplyDvInfoInterest(n)
  <2>1. UNCHANGED <<pend, interests>>
    BY <1>5 DEF ReplyDvInfoInterest
  <2>2. \A k \in Node : replyEv'[k] = replyEv[k] \/ replyEv'[k] = 0
    BY <1>1, <1>5 DEF ReplyDvInfoInterest
  <2> DEFINE d == [from |-> n, version |-> replyEv[n], vector |-> EncodeDvInfo(rt[n])]
  <2>3. data' = data \cup {d} /\ d.from = n /\ d.version = replyEv[n]
    BY <1>5 DEF ReplyDvInfoInterest
  <2> HIDE DEF d
  <2>4. \A k \in Node : version[k] >= 0
    BY <1>1 DEF Version
  <2> QED  BY <1>2, <2>1, <2>2, <2>3, <2>4 DEF VersionInv, VersionsWereReached
<1>6. ASSUME \/ \E d \in data : OnDvInfoContent(n, d)
             \/ \E r \in pend[n] : OnDvInfoTimedOut(n, r)
      PROVE  VersionInv'
  <2>1. UNCHANGED <<replyEv, interests, data>>
    BY <1>6 DEF OnDvInfoContent, OnDvInfoTimedOut
  <2>2. \A k \in Node : pend'[k] \subseteq pend[k]
    BY <1>1, <1>6 DEF OnDvInfoContent, OnDvInfoTimedOut
  <2> QED  BY <1>2, <2>1, <2>2 DEF VersionInv, VersionsWereReached
<1> QED  BY <1>3, <1>4, <1>5, <1>6

LEMMA TableVersions ==
  ASSUME NInv, VersionInv, [Next]_vars,
         UNCHANGED <<replyEv, hello, interests, pend, data>>,
         \A n, m \in Node : neighVer'[n][m] \in {neighVer[n][m], 0}
  PROVE  VersionInv'
<1>1. \A n \in Node : version[n] \in Nat /\ version'[n] \in Nat
                      /\ version[n] <= version'[n]
  BY VersionsGrow
<1>2. /\ \A n, m \in Node : neighVer[n][m] \in Nat /\ hello[n][m].version \in Nat
      /\ \A n \in Node : replyEv[n] \in Nat
      /\ \A n \in Node : \A r \in pend[n] : r.to \in Node /\ r.version \in Nat
      /\ \A d \in data : d.from \in Node /\ d.version \in Nat
      /\ \A i \in interests : i.to \in Node /\ i.version \in Nat
  BY NdvrAssumption DEF NInv, TypeOK, Hello, Request, DvInfo, Version
<1>3. \A n, m \in Node : neighVer'[n][m] <= version'[m] /\ hello'[n][m].version <= version'[m]
  BY <1>1, <1>2 DEF VersionInv, VersionsWereReached
<1>4. \A n \in Node : replyEv'[n] <= version'[n]
  BY <1>1, <1>2 DEF VersionInv, VersionsWereReached
<1>5. \A n \in Node : \A r \in pend'[n] : r.version <= version'[r.to]
  BY <1>1, <1>2 DEF VersionInv, VersionsWereReached
<1>6. /\ \A d \in data' : d.version <= version'[d.from]
      /\ \A i \in interests' : i.version <= version'[i.to]
  BY <1>1, <1>2 DEF VersionInv, VersionsWereReached
<1> QED  BY <1>3, <1>4, <1>5, <1>6 DEF VersionInv, VersionsWereReached

LEMMA VersionStep ==
  ASSUME NInv, VersionInv, [Next]_vars
  PROVE  VersionInv'
<1>1. ASSUME \/ \E n \in Node, d \in data : OnValidatedDvInfo(n, d)
             \/ \E n \in Node, d \in data : OnDvInfoValidationFailed(n, d)
             \/ \E n \in Node, p \in Prefix : AdvNamePrefix(n, p)
             \/ UNCHANGED vars
      PROVE  VersionInv'
  <2>1. UNCHANGED <<neighVer, replyEv, hello, interests, pend, data>>
    BY <1>1 DEF OnValidatedDvInfo, OnDvInfoValidationFailed, AdvNamePrefix, vars, pullVars
  <2> QED  BY <2>1, TableVersions
<1>2. ASSUME NEW n \in Node, NEW m \in Node, RemoveNeighbor(n, m)
      PROVE  VersionInv'
  <2>1. UNCHANGED <<replyEv, hello, interests, pend, data>>
    BY <1>2 DEF RemoveNeighbor, pullVars
  <2>2. \A k, j \in Node : neighVer'[k][j] \in {neighVer[k][j], 0}
    BY <1>2 DEF RemoveNeighbor, NInv, TypeOK
  <2> QED  BY <2>1, <2>2, TableVersions
<1> QED  BY <1>1, <1>2, HelloVersions, PullVersions DEF Next

\* VersionsWereReached for every network: though a reply may be named after one
\* version and filled with a later table, and a version is recorded before its
\* vector comes, nobody ever knows of a version that is not there yet
\* (ndvr.cpp:361-388, 511-528, 552-565).
THEOREM VersionsAreNeverAhead == Spec => []VersionsWereReached
<1>1. Init => NInv /\ VersionInv
  BY InitInv, VersionInit
<1>2. (NInv /\ VersionInv) /\ [Next]_vars => (NInv /\ VersionInv)'
  BY NextInv, VersionStep
<1>3. VersionInv => VersionsWereReached
  BY DEF VersionInv
<1> QED  BY <1>1, <1>2, <1>3, PTL DEF Spec

-----------------------------------------------------------------------------
(* Trees: one router announces, and nothing is lost.                       *)

\* Who hears whom: everyone its parent and its children, and nobody else.
Tree(root, parent) ==
  /\ root \in Node
  /\ parent \in [Node \ {root} -> Node]
  /\ \A n, m \in Node : <<n, m>> \in Link =>
       \/ n # root /\ m = parent[n]
       \/ m # root /\ n = parent[m]

\* The prefixes are the root's, all from the start.
OneOrigin(root) ==
  /\ NamePrefixes[root] # {}
  /\ \A n \in Node \ {root} : NamePrefixes[n] = {}
  /\ \A n \in Node : LatePrefixes[n] = {}

QuietTree(root, parent) == Tree(root, parent) /\ OneOrigin(root) /\ ~Lossy

\* Tables and vectors hold all of the root's prefixes, at one cost, or none.
IsEmpty(table) == \A p \in Prefix : table[p] = NoRoute
IsFilled(table, S, cost) ==
  \A p \in Prefix : IF p \in S
                      THEN table[p] # NoRoute /\ table[p].seq = 1 /\ table[p].cost = cost
                      ELSE table[p] = NoRoute

\* The version at which a router's table is filled, once and for all.
FullVersion(root, n) == IF n = root THEN 1 ELSE 2

\* Whoever knows the routes has them from its parent, one hop further.
TablesInv(root, parent) ==
  \A n \in Node :
    \/ n # root /\ IsEmpty(rt[n]) /\ version[n] = 1
    \/ /\ version[n] = FullVersion(root, n)
       /\ \E cost \in 0..InfCost :
            /\ IsFilled(rt[n], NamePrefixes[root], cost)
            /\ IF n = root
                 THEN \A p \in NamePrefixes[root] : isDirectRoute(rt[n], p)
                 ELSE cost > 0 /\ IsFilled(rt[parent[n]], NamePrefixes[root], cost - 1)

\* What is said and asked concerns filled tables only.
MessagesInv(root) ==
  /\ \A n, m \in Node : hello[n][m] # NoHello =>
       (hello[n][m].size > 0 <=> hello[n][m].version = FullVersion(root, m))
  /\ \A n \in Node : \A m \in dvSched[n] : neighVer[n][m] = FullVersion(root, m)
  /\ \A i \in interests : i.version = FullVersion(root, i.to)
  /\ \A n \in Node : replyEv[n] # 0 => replyEv[n] = FullVersion(root, n)
  /\ \A n \in Node : \A r \in pend[n] : r.version = FullVersion(root, r.to)
  /\ \A d \in data : /\ d.version = FullVersion(root, d.from)
                     /\ ~IsEmpty(rt[d.from]) /\ d.vector = EncodeDvInfo(rt[d.from])

\* No request waits in vain: replies that were grouped answer it as well.
AnswersInv == \A n \in Node : \A r \in pend[n] : ~Unanswered(n, r)

Asked(n, m) ==
  \/ m \in dvSched[n]
  \/ \E r \in pend[n] : r.to = m
  \/ \E d \in validating[n] : d.from = m

\* Whoever has recorded the version of a filled table and has not got it asks.
AskInv(root) ==
  \A n, m \in Node :
    (/\ IsEmpty(rt[n])
     /\ neighVer[n][m] = FullVersion(root, m)
     /\ \A p \in NamePrefixes[root] : isValidCost(rt[m][p].cost))
      => Asked(n, m)

BaseInv == NInv /\ VersionInv /\ DigestLagsTable
TreeInv(root, parent) ==
  TablesInv(root, parent) /\ MessagesInv(root) /\ AnswersInv /\ AskInv(root)

-----------------------------------------------------------------------------
(* Merging a filled vector.                                                *)

LEMMA FilledIsNotEmpty ==
  ASSUME NEW table, NEW S, S \subseteq Prefix, S # {}, NEW cost, IsFilled(table, S, cost)
  PROVE  ~IsEmpty(table)
  BY DEF IsEmpty, IsFilled

LEMMA EncodeKeepsFilling ==
  ASSUME NEW table \in Table, NEW S, NEW cost, IsFilled(table, S, cost)
  PROVE  IsFilled(EncodeDvInfo(table), S, cost)
<1> DEFINE vec == EncodeDvInfo(table)
<1>1. ASSUME NEW p \in Prefix, p \in S
      PROVE  vec[p] # NoRoute /\ vec[p].seq = 1 /\ vec[p].cost = cost
  <2>1. LookupRoute(table, p) /\ table[p].seq = 1 /\ table[p].cost = cost
    BY <1>1 DEF IsFilled, LookupRoute
  <2>2. vec[p] = [seq |-> 1, cost |-> cost]
    BY <2>1 DEF EncodeDvInfo
  <2>3. vec[p] \in Distance
    <3>1. table[p] \in Entry
      BY <2>1 DEF Table, LookupRoute
    <3> QED  BY <2>1, <2>2, <3>1 DEF Entry, Distance
  <2> QED  BY <2>2, <2>3, RoutingTableAssumption
<1>2. ASSUME NEW p \in Prefix, p \notin S
      PROVE  vec[p] = NoRoute
  BY <1>2 DEF IsFilled, EncodeDvInfo, LookupRoute
<1> QED  BY <1>1, <1>2 DEF IsFilled

LEMMA EmptyTakesAll ==
  ASSUME NEW table \in Table, NEW vec \in Vector, NEW face \in Face,
         NEW S, S \subseteq Prefix, S # {}, NEW cost \in 0..InfCost,
         IsEmpty(table), IsFilled(vec, S, cost), isValidCost(cost)
  PROVE  /\ IsFilled(MergeTable(table, vec, face), S, cost + 1)
         /\ cost + 1 \in 0..InfCost
         /\ HasChanged(table, vec, face)
<1>1. cost + 1 \in 0..InfCost /\ CalculateCostToNeigh(cost) = cost + 1
  BY CostOfOneMoreHop
<1>2. \A p \in Prefix : p \in S => Adopts(table, vec, p)
  BY DEF Adopts, Skips, IsNewPrefix, LookupRoute, isDirectRoute, IsEmpty, IsFilled
<1>3. ASSUME NEW p \in Prefix, p \in S
      PROVE  /\ MergeTable(table, vec, face)[p] = [seq |-> 1, cost |-> cost + 1, face |-> face]
             /\ MergeTable(table, vec, face)[p] # NoRoute
  <2>1. MergeTable(table, vec, face)[p] = [seq |-> 1, cost |-> cost + 1, face |-> face]
    BY <1>1, <1>2, <1>3 DEF MergeTable, MergeEntry, IsFilled
  <2>2. [seq |-> 1, cost |-> cost + 1, face |-> face] \in Entry
    BY <1>1 DEF Entry
  <2> QED  BY <2>1, <2>2, RoutingTableAssumption
<1>4. ASSUME NEW p \in Prefix, p \notin S
      PROVE  MergeTable(table, vec, face)[p] = NoRoute
  BY <1>4 DEF MergeTable, MergeEntry, Adopts, Deletes, Skips, IsEmpty, IsFilled
<1>5. HasChanged(table, vec, face)
  BY <1>2 DEF HasChanged, Adopted
<1> QED  BY <1>1, <1>3, <1>4, <1>5 DEF IsFilled

\* Nothing is taken over of a vector that is empty, as far as can be, or not
\* better than what is there.
LEMMA NothingToTake ==
  ASSUME NEW table \in Table, NEW vec \in Vector, NEW S, NEW cost \in 0..InfCost,
         \/ IsEmpty(vec)
         \/ IsFilled(vec, S, cost) /\ ~isValidCost(cost)
         \/ /\ IsFilled(vec, S, cost)
            /\ \E own \in 0..InfCost : IsFilled(table, S, own) /\ own <= cost + 1
  PROVE  Adopted(table, vec) = {} /\ \A face : ~HasChanged(table, vec, face)
<1>1. ASSUME NEW p \in Prefix
      PROVE  ~Adopts(table, vec, p)
  <2>1. CASE vec[p] = NoRoute
    BY <2>1 DEF Adopts, Skips
  <2>2. CASE vec[p] # NoRoute /\ ~isValidCost(vec[p].cost)
    BY <2>2 DEF Adopts, Skips
  <2>3. CASE vec[p] # NoRoute /\ isValidCost(vec[p].cost)
    <3>1. p \in S /\ vec[p].seq = 1 /\ vec[p].cost = cost /\ isValidCost(cost)
      BY <2>3 DEF IsEmpty, IsFilled
    <3>2. PICK own \in 0..InfCost : IsFilled(table, S, own) /\ own <= cost + 1
      BY <2>3, <3>1 DEF IsEmpty
    <3>3. LookupRoute(table, p) /\ table[p].seq = 1 /\ table[p].cost = own
      BY <3>1, <3>2 DEF IsFilled, LookupRoute
    <3>4. CalculateCostToNeigh(cost) = cost + 1
      BY <3>1, CostOfOneMoreHop
    <3> QED
      BY <3>1, <3>2, <3>3, <3>4
         DEF Adopts, IsNewPrefix, IsNewerAtOtherCost, IsSameSeqAndCheaper
  <2> QED  BY <2>1, <2>2, <2>3
<1>2. \A p \in Prefix : \A face : ~Deletes(table, vec, p, face)
  BY InfinityNeverDeletes
<1> QED  BY <1>1, <1>2 DEF HasChanged, Adopted, Deleted

\* Between neighbours that know the routes nothing is left to take over.
LEMMA FilledNeighbors ==
  ASSUME NEW root, NEW parent, QuietTree(root, parent), NInv, TablesInv(root, parent),
         NEW n \in Node, NEW m \in Node, <<n, m>> \in Link,
         ~IsEmpty(rt[n]), ~IsEmpty(rt[m])
  PROVE  /\ Adopted(rt[n], EncodeDvInfo(rt[m])) = {}
         /\ \A face : ~HasChanged(rt[n], EncodeDvInfo(rt[m]), face)
<1> DEFINE S == NamePrefixes[root]
           vec == EncodeDvInfo(rt[m])
<1>0. rt[n] \in Table /\ rt[m] \in Table /\ vec \in Vector
  BY EncodeType DEF NInv, TypeOK
<1>1. ASSUME n # root, m = parent[n]
      PROVE  \E c \in 0..InfCost, own \in 0..InfCost :
               IsFilled(rt[m], S, c) /\ IsFilled(rt[n], S, own) /\ own <= c + 1
  <2>1. PICK own \in 0..InfCost :
          own > 0 /\ IsFilled(rt[n], S, own) /\ IsFilled(rt[m], S, own - 1)
    BY <1>1 DEF TablesInv
  <2>2. own - 1 \in 0..InfCost /\ own <= (own - 1) + 1
    BY <2>1, RoutingTableAssumption
  <2> QED  BY <2>1, <2>2
<1>2. ASSUME m # root, n = parent[m]
      PROVE  \E c \in 0..InfCost, own \in 0..InfCost :
               IsFilled(rt[m], S, c) /\ IsFilled(rt[n], S, own) /\ own <= c + 1
  <2>1. PICK c \in 0..InfCost :
          c > 0 /\ IsFilled(rt[m], S, c) /\ IsFilled(rt[n], S, c - 1)
    BY <1>2 DEF TablesInv
  <2>2. c - 1 \in 0..InfCost /\ c - 1 <= c + 1
    BY <2>1, RoutingTableAssumption
  <2> QED  BY <2>1, <2>2
<1>3. PICK c \in 0..InfCost, own \in 0..InfCost :
        IsFilled(rt[m], S, c) /\ IsFilled(rt[n], S, own) /\ own <= c + 1
  BY <1>1, <1>2 DEF QuietTree, Tree
<1>4. IsFilled(vec, S, c)
  BY <1>0, <1>3, EncodeKeepsFilling
<1> QED  BY <1>0, <1>3, <1>4, NothingToTake

-----------------------------------------------------------------------------
(* Steps of the tables.                                                    *)

\* A router learns the routes in one step, from its parent.
Learns(root, parent, n) ==
  /\ n # root /\ IsEmpty(rt[n]) /\ version[n] = 1 /\ version'[n] = 2
  /\ \E cost \in 0..InfCost : /\ cost > 0
                              /\ IsFilled(rt'[n], NamePrefixes[root], cost)
                              /\ IsFilled(rt[parent[n]], NamePrefixes[root], cost - 1)

LEMMA OnlyMergesChange ==
  ASSUME NEW root, NEW parent, QuietTree(root, parent), [Next]_vars
  PROVE  \/ UNCHANGED <<rt, version>>
         \/ \E n \in Node, d \in data : OnValidatedDvInfo(n, d)
<1>1. ~\E n, m \in Node : RemoveNeighbor(n, m)
  BY DEF QuietTree, RemoveNeighbor
<1>2. ~\E n \in Node, p \in Prefix : AdvNamePrefix(n, p)
  BY DEF QuietTree, OneOrigin, AdvNamePrefix
<1>3. ASSUME \/ \E n \in Node : SendHelloInterest(n) \/ ReplyDvInfoInterest(n)
             \/ \E n, m \in Node : OnHelloInterest(n, m) \/ SendDvInfoInterest(n, m)
             \/ \E n \in Node, i \in interests : OnDvInfoInterest(n, i)
             \/ \E n \in Node, d \in data : OnDvInfoContent(n, d)
             \/ \E n \in Node : \E r \in pend[n] : OnDvInfoTimedOut(n, r)
             \/ \E n \in Node, d \in data : OnDvInfoValidationFailed(n, d)
             \/ UNCHANGED vars
      PROVE  UNCHANGED <<rt, version>>
  BY <1>3 DEF SendHelloInterest, ReplyDvInfoInterest, OnHelloInterest, SendDvInfoInterest,
              OnDvInfoInterest, OnDvInfoContent, OnDvInfoTimedOut,
              OnDvInfoValidationFailed, vars, tableVars
<1> QED  BY <1>1, <1>2, <1>3 DEF Next

LEMMA MergeInTree ==
  ASSUME NEW root, NEW parent, QuietTree(root, parent), NInv,
         TablesInv(root, parent), MessagesInv(root),
         NEW n \in Node, NEW d \in data, OnValidatedDvInfo(n, d), NEW k \in Node
  PROVE  \/ rt'[k] = rt[k] /\ version'[k] = version[k]
         \/ Learns(root, parent, k)
<1> DEFINE S == NamePrefixes[root]
           m == d.from
           face == FaceTo[<<n, m>>]
<1>0. S \subseteq Prefix /\ S # {} /\ root \in Node
  BY NdvrAssumption DEF QuietTree, Tree, OneOrigin
<1>1. CASE UNCHANGED tableVars
  BY <1>1 DEF tableVars
<1>2. CASE ~UNCHANGED tableVars
  <2>1. /\ neighVer[n][m] # 0 /\ m \in Node /\ <<n, m>> \in Link /\ face \in Face
        /\ rt[n] \in Table /\ d.vector \in Vector
        /\ rt' = [rt EXCEPT ![n] = MergeTable(rt[n], d.vector, face)]
    BY <1>2, ValidatedStep
  <2>2. version' = [version EXCEPT ![n] =
                      IF HasChanged(rt[n], d.vector, face) THEN @ + 1 ELSE @]
    BY <2>1 DEF OnValidatedDvInfo
  <2>3. rt \in [Node -> Table] /\ version \in [Node -> Nat]
    BY NdvrAssumption DEF NInv, TypeOK, Version
  <2>4. d.vector = EncodeDvInfo(rt[m]) /\ ~IsEmpty(rt[m])
    BY DEF MessagesInv
  <2>5. CASE ~HasChanged(rt[n], d.vector, face)
    <3>1. MergeTable(rt[n], d.vector, face) = rt[n]
      BY <2>1, <2>5, UnchangedMerge
    <3> QED  BY <2>1, <2>2, <2>3, <2>5, <3>1
  <2>6. CASE HasChanged(rt[n], d.vector, face)
    <3>1. IsEmpty(rt[n])
      BY <2>1, <2>4, <2>6, FilledNeighbors
    <3>2. n # root /\ version[n] = 1
      BY <1>0, <3>1, FilledIsNotEmpty DEF TablesInv
    <3>3. m = parent[n]
      <4> SUFFICES ASSUME m # root, n = parent[m] PROVE FALSE
        BY <2>1 DEF QuietTree, Tree
      <4>1. \E c \in 0..InfCost : IsFilled(rt[n], S, c - 1)
        BY <2>1, <2>4 DEF TablesInv
      <4> QED  BY <1>0, <3>1, <4>1, FilledIsNotEmpty
    <3>4. PICK c \in 0..InfCost : IsFilled(rt[m], S, c)
      BY <2>1, <2>4 DEF TablesInv
    <3>5. IsFilled(d.vector, S, c)
      BY <2>1, <2>3, <2>4, <3>4, EncodeKeepsFilling
    <3>6. isValidCost(c)
      BY <2>1, <2>6, <3>5, NothingToTake
    <3>7. IsFilled(MergeTable(rt[n], d.vector, face), S, c + 1) /\ c + 1 \in 0..InfCost
      BY <1>0, <2>1, <3>1, <3>5, <3>6, EmptyTakesAll
    <3>8. c + 1 > 0 /\ (c + 1) - 1 = c
      BY RoutingTableAssumption
    <3>9. \E cost \in 0..InfCost : /\ cost > 0
                                   /\ IsFilled(MergeTable(rt[n], d.vector, face), S, cost)
                                   /\ IsFilled(rt[parent[n]], S, cost - 1)
      <4> DEFINE far == c + 1
      <4>1. far \in 0..InfCost /\ far > 0 /\ far - 1 = c
        BY <3>7, <3>8
      <4>2. IsFilled(MergeTable(rt[n], d.vector, face), S, far)
        BY <3>7
      <4> HIDE DEF far
      <4> QED  BY <3>3, <3>4, <4>1, <4>2
    <3>10. version'[n] = 2 /\ rt'[n] = MergeTable(rt[n], d.vector, face)
      BY <2>1, <2>2, <2>3, <2>6, <3>2
    <3>11. Learns(root, parent, n)
      BY <3>1, <3>2, <3>9, <3>10 DEF Learns
    <3>12. k # n => rt'[k] = rt[k] /\ version'[k] = version[k]
      BY <2>1, <2>2, <2>3
    <3> QED  BY <3>11, <3>12
  <2> QED  BY <2>5, <2>6
<1> QED  BY <1>1, <1>2

LEMMA TableStep ==
  ASSUME NEW root, NEW parent, QuietTree(root, parent), NInv,
         TablesInv(root, parent), MessagesInv(root), [Next]_vars, NEW k \in Node
  PROVE  \/ rt'[k] = rt[k] /\ version'[k] = version[k]
         \/ Learns(root, parent, k)
  BY OnlyMergesChange, MergeInTree

\* A table that is filled stays, and one that is empty was.
LEMMA FilledStays ==
  ASSUME NEW root, NEW parent, QuietTree(root, parent), NInv,
         TablesInv(root, parent), MessagesInv(root), [Next]_vars, NEW k \in Node,
         ~IsEmpty(rt[k]) \/ IsEmpty(rt'[k])
  PROVE  rt'[k] = rt[k] /\ version'[k] = version[k]
<1>1. NamePrefixes[root] \subseteq Prefix /\ NamePrefixes[root] # {}
  BY NdvrAssumption DEF QuietTree, Tree, OneOrigin
<1>2. ~Learns(root, parent, k)
  BY <1>1, FilledIsNotEmpty DEF Learns
<1> QED  BY <1>2, TableStep

LEMMA TablesStep ==
  ASSUME NEW root, NEW parent, QuietTree(root, parent), NInv,
         TablesInv(root, parent), MessagesInv(root), [Next]_vars
  PROVE  TablesInv(root, parent)'
<1> DEFINE S == NamePrefixes[root]
<1>0. S \subseteq Prefix /\ S # {} /\ root \in Node /\ parent \in [Node \ {root} -> Node]
  BY NdvrAssumption DEF QuietTree, Tree, OneOrigin
<1>1. \A k \in Node : (\E c : IsFilled(rt[k], S, c)) => rt'[k] = rt[k]
  BY <1>0, FilledIsNotEmpty, FilledStays
<1> SUFFICES ASSUME NEW n \in Node
             PROVE  \/ n # root /\ IsEmpty(rt'[n]) /\ version'[n] = 1
                    \/ /\ version'[n] = FullVersion(root, n)
                       /\ \E cost \in 0..InfCost :
                            /\ IsFilled(rt'[n], S, cost)
                            /\ IF n = root
                                 THEN \A p \in S : isDirectRoute(rt'[n], p)
                                 ELSE cost > 0 /\ IsFilled(rt'[parent[n]], S, cost - 1)
  BY DEF TablesInv
<1>2. CASE rt'[n] = rt[n] /\ version'[n] = version[n]
  <2>1. CASE n # root /\ IsEmpty(rt[n]) /\ version[n] = 1
    BY <1>2, <2>1
  <2>2. ASSUME version[n] = FullVersion(root, n),
               NEW cost \in 0..InfCost, IsFilled(rt[n], S, cost),
               IF n = root THEN \A p \in S : isDirectRoute(rt[n], p)
                           ELSE cost > 0 /\ IsFilled(rt[parent[n]], S, cost - 1)
        PROVE  /\ version'[n] = FullVersion(root, n)
               /\ IsFilled(rt'[n], S, cost)
               /\ IF n = root THEN \A p \in S : isDirectRoute(rt'[n], p)
                              ELSE cost > 0 /\ IsFilled(rt'[parent[n]], S, cost - 1)
    <3>1. n # root => rt'[parent[n]] = rt[parent[n]]
      BY <1>0, <1>1, <2>2
    <3> QED  BY <1>2, <2>2, <3>1
  <2> QED  BY <2>1, <2>2 DEF TablesInv
<1>3. CASE Learns(root, parent, n)
  <2>1. PICK cost \in 0..InfCost : /\ cost > 0 /\ IsFilled(rt'[n], S, cost)
                                   /\ IsFilled(rt[parent[n]], S, cost - 1)
    BY <1>3 DEF Learns
  <2>2. n # root /\ version'[n] = FullVersion(root, n)
    BY <1>3 DEF Learns, FullVersion
  <2>3. rt'[parent[n]] = rt[parent[n]]
    BY <1>0, <1>1, <2>1, <2>2
  <2> QED  BY <2>1, <2>2, <2>3
<1> QED  BY <1>2, <1>3, TableStep

-----------------------------------------------------------------------------
(* Steps of the messages.                                                  *)

\* A table is filled when its version says so.
LEMMA VersionTellsFilled ==
  ASSUME NEW root, NEW parent, QuietTree(root, parent), TablesInv(root, parent),
         NEW n \in Node
  PROVE  /\ version[n] \in {1, 2} /\ (version[n] = FullVersion(root, n) <=> ~IsEmpty(rt[n]))
         /\ version[n] <= FullVersion(root, n)
<1>1. NamePrefixes[root] \subseteq Prefix /\ NamePrefixes[root] # {}
  BY NdvrAssumption DEF QuietTree, Tree, OneOrigin
<1> QED  BY <1>1, FilledIsNotEmpty DEF TablesInv, FullVersion

LEMMA SizeTellsFilled ==
  ASSUME NEW table
  PROVE  /\ Cardinality(Known(table)) \in Nat
         /\ Cardinality(Known(table)) = 0 <=> IsEmpty(table)
<1>1. IsFiniteSet(Known(table))
  BY NdvrAssumption, FS_Subset DEF Known
<1>2. Known(table) = {} <=> IsEmpty(table)
  BY DEF Known, LookupRoute, IsEmpty
<1> QED  BY <1>1, <1>2, FS_CardinalityType, FS_EmptySet

LEMMA HellosStep ==
  ASSUME NEW root, NEW parent, QuietTree(root, parent), NInv,
         TablesInv(root, parent), MessagesInv(root), [Next]_vars,
         NEW n \in Node, NEW m \in Node, hello'[n][m] # NoHello
  PROVE  hello'[n][m].size > 0 <=> hello'[n][m].version = FullVersion(root, m)
<1>1. CASE hello'[n][m] = hello[n][m]
  BY <1>1 DEF MessagesInv
<1>2. ASSUME NEW k \in Node, SendHelloInterest(k), hello'[n][m] # hello[n][m]
      PROVE  hello'[n][m] = [size |-> Cardinality(Known(rt[m])), digest |-> digest[m],
                             version |-> version[m]]
  BY <1>2 DEF SendHelloInterest, NInv, TypeOK
<1>3. ASSUME NEW k \in Node, NEW j \in Node, OnHelloInterest(k, j)
      PROVE  hello'[n][m] = hello[n][m]
  BY <1>3 DEF OnHelloInterest, NInv, TypeOK
<1>4. ASSUME \/ \E k \in Node : ReplyDvInfoInterest(k)
             \/ \E k, j \in Node : SendDvInfoInterest(k, j)
             \/ \E k \in Node, i \in interests : OnDvInfoInterest(k, i)
             \/ \E k \in Node, d \in data : OnDvInfoContent(k, d)
             \/ \E k \in Node : \E r \in pend[k] : OnDvInfoTimedOut(k, r)
             \/ \E k \in Node, d \in data : OnValidatedDvInfo(k, d)
             \/ \E k \in Node, d \in data : OnDvInfoValidationFailed(k, d)
             \/ \E k, j \in Node : RemoveNeighbor(k, j)
             \/ \E k \in Node, p \in Prefix : AdvNamePrefix(k, p)
             \/ UNCHANGED vars
      PROVE  hello' = hello
  BY <1>4 DEF ReplyDvInfoInterest, SendDvInfoInterest, OnDvInfoInterest, OnDvInfoContent,
              OnDvInfoTimedOut, OnValidatedDvInfo, OnDvInfoValidationFailed,
              RemoveNeighbor, AdvNamePrefix, vars
<1>5. CASE hello'[n][m] # hello[n][m]
  <2>1. hello'[n][m].size = Cardinality(Known(rt[m])) /\ hello'[n][m].version = version[m]
    BY <1>2, <1>3, <1>4, <1>5 DEF Next
  <2> QED  BY <2>1, SizeTellsFilled, VersionTellsFilled
<1> QED  BY <1>1, <1>5

\* What one step does to a recorded version and to a scheduled request.
LEMMA RecordStep ==
  ASSUME NEW root, NEW parent, QuietTree(root, parent), NInv, [Next]_vars,
         NEW n \in Node, NEW m \in Node
  PROVE  \/ neighVer'[n][m] = neighVer[n][m] /\ dvSched'[n] \subseteq dvSched[n]
         \/ \E k \in Node : OnHelloInterest(n, k)
<1>1. ASSUME NEW k \in Node, NEW j \in Node, OnHelloInterest(k, j), k # n
      PROVE  neighVer'[n] = neighVer[n] /\ dvSched'[n] = dvSched[n]
  BY <1>1 DEF OnHelloInterest, SchedDvInfoInterest, NInv, TypeOK
<1>2. ASSUME NEW k \in Node, NEW j \in Node, SendDvInfoInterest(k, j)
      PROVE  neighVer' = neighVer /\ dvSched'[n] \subseteq dvSched[n]
  BY <1>2 DEF SendDvInfoInterest, NInv, TypeOK
<1>3. ASSUME \/ \E k \in Node : SendHelloInterest(k) \/ ReplyDvInfoInterest(k)
             \/ \E k \in Node, i \in interests : OnDvInfoInterest(k, i)
             \/ \E k \in Node, d \in data : OnDvInfoContent(k, d)
             \/ \E k \in Node : \E r \in pend[k] : OnDvInfoTimedOut(k, r)
             \/ \E k \in Node, d \in data : OnValidatedDvInfo(k, d)
             \/ \E k \in Node, d \in data : OnDvInfoValidationFailed(k, d)
             \/ \E k \in Node, p \in Prefix : AdvNamePrefix(k, p)
             \/ UNCHANGED vars
      PROVE  neighVer' = neighVer /\ dvSched' = dvSched
  BY <1>3 DEF SendHelloInterest, ReplyDvInfoInterest, OnDvInfoInterest, OnDvInfoContent,
              OnDvInfoTimedOut, OnValidatedDvInfo, OnDvInfoValidationFailed,
              AdvNamePrefix, vars, tableVars, pullVars
<1>4. ~\E k, j \in Node : RemoveNeighbor(k, j)
  BY DEF QuietTree, RemoveNeighbor
<1> QED  BY <1>1, <1>2, <1>3, <1>4 DEF Next

LEMMA ScheduledStep ==
  ASSUME NEW root, NEW parent, QuietTree(root, parent), NInv,
         MessagesInv(root), [Next]_vars,
         NEW n \in Node, NEW m \in Node, m \in dvSched'[n]
  PROVE  neighVer'[n][m] = FullVersion(root, m)
<1>1. CASE neighVer'[n][m] = neighVer[n][m] /\ dvSched'[n] \subseteq dvSched[n]
  BY <1>1 DEF MessagesInv
<1>2. ASSUME NEW k \in Node, OnHelloInterest(n, k)
      PROVE  neighVer'[n][m] = FullVersion(root, m)
  <2> DEFINE h == hello[n][k]
  <2>1. h # NoHello /\ neighVer \in [Node -> [Node -> 0..MaxVersion]] /\ h \in Hello
    BY <1>2 DEF OnHelloInterest, NInv, TypeOK
  <2>2. h.size > 0 <=> h.version = FullVersion(root, k)
    BY <2>1 DEF MessagesInv
  <2>3. CASE m \in dvSched[n]
    <3>1. neighVer[n][m] = FullVersion(root, m) /\ FullVersion(root, m) \in {1, 2}
      BY <2>3 DEF MessagesInv, FullVersion
    <3>2. k = m => ~IsNews(n, m, h)
      BY <2>2, <3>1 DEF IsNews
    <3>3. neighVer'[n][m] = neighVer[n][m]
      BY <1>2, <2>1, <3>1, <3>2 DEF OnHelloInterest
    <3> QED  BY <3>1, <3>3
  <2>4. CASE m \notin dvSched[n]
    <3>1. m = k /\ IsNews(n, k, h)
      BY <1>2, <2>4 DEF OnHelloInterest, SchedDvInfoInterest, NInv, TypeOK
    <3>2. neighVer'[n][m] = h.version
      BY <1>2, <2>1, <3>1 DEF OnHelloInterest
    <3> QED  BY <2>2, <3>1, <3>2 DEF IsNews
  <2> QED  BY <2>3, <2>4
<1> QED  BY <1>1, <1>2, RecordStep

LEMMA RequestsStep ==
  ASSUME NEW root, NEW parent, QuietTree(root, parent), NInv,
         MessagesInv(root), [Next]_vars
  PROVE  /\ \A i \in interests' : i.version = FullVersion(root, i.to)
         /\ \A n \in Node : replyEv'[n] # 0 => replyEv'[n] = FullVersion(root, n)
         /\ \A n \in Node : \A r \in pend'[n] : r.version = FullVersion(root, r.to)
<1>1. ASSUME NEW n \in Node, NEW m \in Node, SendDvInfoInterest(n, m)
      PROVE  /\ replyEv' = replyEv
             /\ \A i \in interests' : i \in interests \/ i.version = FullVersion(root, i.to)
             /\ \A k \in Node : \A r \in pend'[k] :
                  r \in pend[k] \/ r.version = FullVersion(root, r.to)
  <2>1. neighVer[n][m] = FullVersion(root, m)
    BY <1>1 DEF SendDvInfoInterest, MessagesInv
  <2>2. FullVersion(root, m) # 0
    BY DEF FullVersion
  <2>3. /\ replyEv' = replyEv
        /\ interests' = interests \cup
             {[from |-> n, to |-> m, version |-> FullVersion(root, m)]}
        /\ pend' = [pend EXCEPT ![n] = @ \cup
             {[to |-> m, version |-> FullVersion(root, m)]}]
    BY <1>1, <2>1, <2>2 DEF SendDvInfoInterest
  <2> HIDE DEF FullVersion
  <2> QED  BY <2>3 DEF NInv, TypeOK
<1>2. ASSUME NEW n \in Node, NEW i \in interests, OnDvInfoInterest(n, i)
      PROVE  /\ pend' = pend /\ interests' \subseteq interests
             /\ \A k \in Node : replyEv'[k] \in {replyEv[k], FullVersion(root, k)}
  BY <1>2 DEF OnDvInfoInterest, NInv, TypeOK, MessagesInv
<1>3. ASSUME NEW n \in Node, ReplyDvInfoInterest(n)
      PROVE  /\ UNCHANGED <<interests, pend>>
             /\ \A k \in Node : replyEv'[k] \in {replyEv[k], 0}
  BY <1>3 DEF ReplyDvInfoInterest, NInv, TypeOK
<1>4. ASSUME \/ \E n \in Node, d \in data : OnDvInfoContent(n, d)
             \/ \E n \in Node : \E r \in pend[n] : OnDvInfoTimedOut(n, r)
      PROVE  /\ UNCHANGED <<interests, replyEv>>
             /\ \A k \in Node : pend'[k] \subseteq pend[k]
  BY <1>4 DEF OnDvInfoContent, OnDvInfoTimedOut, NInv, TypeOK
<1>5. ASSUME \/ \E n \in Node : SendHelloInterest(n)
             \/ \E n, m \in Node : OnHelloInterest(n, m) \/ RemoveNeighbor(n, m)
             \/ \E n \in Node, d \in data : OnValidatedDvInfo(n, d)
             \/ \E n \in Node, d \in data : OnDvInfoValidationFailed(n, d)
             \/ \E n \in Node, p \in Prefix : AdvNamePrefix(n, p)
             \/ UNCHANGED vars
      PROVE  UNCHANGED <<interests, replyEv, pend>>
  BY <1>5 DEF SendHelloInterest, OnHelloInterest, RemoveNeighbor, OnValidatedDvInfo,
              OnDvInfoValidationFailed, AdvNamePrefix, vars, pullVars
<1> QED  BY <1>1, <1>2, <1>3, <1>4, <1>5 DEF Next, MessagesInv

\* Published vectors are those of filled tables, and these stay as they are.
LEMMA DataStep ==
  ASSUME NEW root, NEW parent, QuietTree(root, parent), NInv, VersionInv,
         TablesInv(root, parent), MessagesInv(root), [Next]_vars, NEW d \in data'
  PROVE  /\ d.version = FullVersion(root, d.from)
         /\ ~IsEmpty(rt'[d.from]) /\ d.vector = EncodeDvInfo(rt'[d.from])
<1>1. ASSUME NEW n \in Node, ReplyDvInfoInterest(n), d \notin data
      PROVE  /\ d.from = n /\ d.version = FullVersion(root, n)
             /\ ~IsEmpty(rt[n]) /\ d.vector = EncodeDvInfo(rt[n])
  <2>1. d = [from |-> n, version |-> replyEv[n], vector |-> EncodeDvInfo(rt[n])]
    BY <1>1 DEF ReplyDvInfoInterest
  <2>2. replyEv[n] = FullVersion(root, n) /\ replyEv[n] <= version[n]
    BY <1>1 DEF ReplyDvInfoInterest, MessagesInv, VersionInv, VersionsWereReached
  <2>3. version[n] = FullVersion(root, n)
    BY <2>2, VersionTellsFilled DEF FullVersion
  <2> QED  BY <2>1, <2>2, <2>3, VersionTellsFilled
<1>2. ASSUME \/ \E n \in Node : SendHelloInterest(n)
             \/ \E n, m \in Node : \/ OnHelloInterest(n, m) \/ SendDvInfoInterest(n, m)
                                   \/ RemoveNeighbor(n, m)
             \/ \E n \in Node, i \in interests : OnDvInfoInterest(n, i)
             \/ \E n \in Node, x \in data : OnDvInfoContent(n, x)
             \/ \E n \in Node : \E r \in pend[n] : OnDvInfoTimedOut(n, r)
             \/ \E n \in Node, x \in data : OnValidatedDvInfo(n, x)
             \/ \E n \in Node, x \in data : OnDvInfoValidationFailed(n, x)
             \/ \E n \in Node, p \in Prefix : AdvNamePrefix(n, p)
             \/ UNCHANGED vars
      PROVE  data' = data
  BY <1>2 DEF SendHelloInterest, OnHelloInterest, SendDvInfoInterest, RemoveNeighbor,
              OnDvInfoInterest, OnDvInfoContent, OnDvInfoTimedOut, OnValidatedDvInfo,
              OnDvInfoValidationFailed, AdvNamePrefix, vars, pullVars
<1>3. /\ d.from \in Node /\ d.version = FullVersion(root, d.from)
      /\ ~IsEmpty(rt[d.from]) /\ d.vector = EncodeDvInfo(rt[d.from])
  <2>1. CASE d \in data
    BY <2>1 DEF MessagesInv, NInv, TypeOK, DvInfo
  <2>2. CASE d \notin data
    BY <1>1, <1>2, <2>2 DEF Next
  <2> QED  BY <2>1, <2>2
<1>4. rt'[d.from] = rt[d.from]
  BY <1>3, FilledStays
<1> QED  BY <1>3, <1>4

LEMMA MessagesStep ==
  ASSUME NEW root, NEW parent, QuietTree(root, parent), NInv, VersionInv,
         TablesInv(root, parent), MessagesInv(root), [Next]_vars
  PROVE  MessagesInv(root)'
<1>1. \A n, m \in Node : hello'[n][m] # NoHello =>
        (hello'[n][m].size > 0 <=> hello'[n][m].version = FullVersion(root, m))
  BY HellosStep
<1>2. \A n \in Node : \A m \in dvSched'[n] : neighVer'[n][m] = FullVersion(root, m)
  <2>1. \A n \in Node : dvSched'[n] \subseteq Node
    BY NextInv DEF NInv, TypeOK
  <2> QED  BY <2>1, ScheduledStep
<1> QED  BY <1>1, <1>2, RequestsStep, DataStep DEF MessagesInv

LEMMA AnswersStep ==
  ASSUME NEW root, NEW parent, QuietTree(root, parent), NInv,
         MessagesInv(root), AnswersInv, [Next]_vars
  PROVE  AnswersInv'
<1> DEFINE Under(n, r) == [from |-> n, to |-> r.to, version |-> r.version]
<1> SUFFICES ASSUME NEW n \in Node, NEW r \in pend'[n]
             PROVE  \/ Under(n, r) \in interests'
                    \/ replyEv'[r.to] = r.version
                    \/ \E d \in data' : RequestOf(d) = r
  BY DEF AnswersInv, Unanswered, RequestOf
<1>0. /\ r.to \in Node /\ replyEv \in [Node -> 0..MaxVersion] /\ r.version # 0
      /\ r = [to |-> r.to, version |-> r.version]
  BY NextInv, NdvrAssumption DEF NInv, TypeOK, Request, Version
<1>1. r \in pend[n] => \/ Under(n, r) \in interests
                       \/ replyEv[r.to] = r.version
                       \/ \E d \in data : RequestOf(d) = r
  BY DEF AnswersInv, Unanswered
<1>2. ASSUME NEW k \in Node, NEW m \in Node, SendDvInfoInterest(k, m)
      PROVE  /\ interests \subseteq interests' /\ UNCHANGED <<replyEv, data>>
             /\ r \in pend[n] \/ Under(n, r) \in interests'
  BY <1>2 DEF SendDvInfoInterest, NInv, TypeOK
<1>3. ASSUME NEW k \in Node, NEW i \in interests, OnDvInfoInterest(k, i)
      PROVE  /\ UNCHANGED <<pend, data>>
             /\ replyEv[r.to] = r.version => replyEv'[r.to] = r.version
             /\ Under(n, r) \in interests =>
                  Under(n, r) \in interests' \/ replyEv'[r.to] = r.version
  <2>1. /\ i.to = k /\ UNCHANGED <<pend, data>> /\ interests' = interests \ {i}
        /\ replyEv' = IF replyEv[k] # 0 THEN replyEv
                                        ELSE [replyEv EXCEPT ![k] = i.version]
    BY <1>3 DEF OnDvInfoInterest
  <2>2. replyEv[r.to] = r.version => replyEv'[r.to] = r.version
    BY <1>0, <2>1
  <2>3. i.version = FullVersion(root, k) /\ (replyEv[k] # 0 => replyEv[k] = i.version)
    BY <2>1 DEF MessagesInv
  <2>4. replyEv'[k] = i.version
    BY <1>0, <2>1, <2>3
  <2>5. Under(n, r) = i => r.to = k /\ r.version = i.version
    BY <2>1
  <2> QED  BY <2>1, <2>2, <2>4, <2>5
<1>4. ASSUME NEW k \in Node, ReplyDvInfoInterest(k)
      PROVE  /\ UNCHANGED <<pend, interests>> /\ data \subseteq data'
             /\ replyEv[r.to] = r.version =>
                  replyEv'[r.to] = r.version \/ \E d \in data' : RequestOf(d) = r
  <2> DEFINE d == [from |-> k, version |-> replyEv[k], vector |-> EncodeDvInfo(rt[k])]
  <2>1. /\ UNCHANGED <<pend, interests>> /\ data' = data \cup {d}
        /\ replyEv' = [replyEv EXCEPT ![k] = 0]
    BY <1>4 DEF ReplyDvInfoInterest
  <2>2. RequestOf(d) = [to |-> k, version |-> replyEv[k]] /\ d \in data'
    BY <2>1 DEF RequestOf
  <2>3. r.to = k /\ replyEv[k] = r.version => RequestOf(d) = r
    BY <1>0, <2>2
  <2>4. r.to # k => replyEv'[r.to] = replyEv[r.to]
    BY <1>0, <2>1
  <2> QED  BY <2>1, <2>2, <2>3, <2>4
<1>5. ASSUME \/ \E k \in Node, d \in data : OnDvInfoContent(k, d)
             \/ \E k \in Node : \E q \in pend[k] : OnDvInfoTimedOut(k, q)
      PROVE  UNCHANGED <<interests, replyEv, data>> /\ r \in pend[n]
  BY <1>5 DEF OnDvInfoContent, OnDvInfoTimedOut, NInv, TypeOK
<1>6. ASSUME \/ \E k \in Node : SendHelloInterest(k)
             \/ \E k, m \in Node : OnHelloInterest(k, m) \/ RemoveNeighbor(k, m)
             \/ \E k \in Node, d \in data : OnValidatedDvInfo(k, d)
             \/ \E k \in Node, d \in data : OnDvInfoValidationFailed(k, d)
             \/ \E k \in Node, p \in Prefix : AdvNamePrefix(k, p)
             \/ UNCHANGED vars
      PROVE  UNCHANGED <<interests, replyEv, pend, data>>
  BY <1>6 DEF SendHelloInterest, OnHelloInterest, RemoveNeighbor, OnValidatedDvInfo,
              OnDvInfoValidationFailed, AdvNamePrefix, vars, pullVars
<1> HIDE DEF Under
<1> QED  BY <1>1, <1>2, <1>3, <1>4, <1>5, <1>6 DEF Next

\* Who asks an informed neighbour goes on asking until the routes are there.
LEMMA AskingStep ==
  ASSUME NEW root, NEW parent, QuietTree(root, parent), BaseInv, TreeInv(root, parent),
         [Next]_vars, NEW n \in Node, NEW m \in Node,
         neighVer[n][m] # 0, ~IsEmpty(rt[m]), IsEmpty(rt'[n]),
         \A p \in NamePrefixes[root] : isValidCost(rt[m][p].cost),
         Asked(n, m)
  PROVE  Asked(n, m)'
<1>0. /\ NInv /\ TablesInv(root, parent) /\ MessagesInv(root) /\ AnswersInv
      /\ validating[n] \subseteq data /\ validating \in [Node -> SUBSET DvInfo]
      /\ pend \in [Node -> SUBSET Request] /\ dvSched \in [Node -> SUBSET Node]
  BY DEF BaseInv, TreeInv, NInv, TypeOK, LinkInv
<1>1. ASSUME NEW d \in data, d.from = m, OnValidatedDvInfo(n, d)
      PROVE  FALSE
  <2> DEFINE S == NamePrefixes[root]
             face == FaceTo[<<n, m>>]
  <2>1. /\ <<n, m>> \in Link /\ face \in Face /\ rt[n] \in Table /\ rt[m] \in Table
        /\ d.vector \in Vector /\ d.vector = EncodeDvInfo(rt[m])
    BY <1>0, <1>1, NdvrAssumption DEF NInv, TypeOK, LinkInv, MessagesInv, DvInfo
  <2>2. rt'[n] = MergeTable(rt[n], d.vector, face)
    BY <1>0, <1>1 DEF OnValidatedDvInfo, NInv, TypeOK
  <2>3. IsEmpty(rt[n]) /\ S \subseteq Prefix /\ S # {}
    BY <1>0, FilledStays, NdvrAssumption DEF QuietTree, Tree, OneOrigin
  <2>4. PICK cost \in 0..InfCost : IsFilled(rt[m], S, cost)
    BY <1>0 DEF TablesInv
  <2>5. isValidCost(cost)
    BY <2>3, <2>4 DEF IsFilled
  <2>6. IsFilled(d.vector, S, cost)
    BY <2>1, <2>4, EncodeKeepsFilling
  <2>7. IsFilled(rt'[n], S, cost + 1)
    BY <2>1, <2>2, <2>3, <2>5, <2>6, EmptyTakesAll
  <2> QED  BY <2>3, <2>7, FilledIsNotEmpty
<1>2. CASE m \in dvSched[n]
  <2>1. ASSUME SendDvInfoInterest(n, m)
        PROVE  \E r \in pend'[n] : r.to = m
    <3>1. [to |-> m, version |-> neighVer[n][m]] \in pend'[n]
      BY <1>0, <2>1 DEF SendDvInfoInterest
    <3> QED  BY <3>1
  <2>2. ASSUME NEW k \in Node, NEW j \in Node, SendDvInfoInterest(k, j), k # n \/ j # m
        PROVE  m \in dvSched'[n]
    BY <1>0, <1>2, <2>2 DEF SendDvInfoInterest
  <2>3. ASSUME NEW k \in Node, NEW j \in Node, OnHelloInterest(k, j)
        PROVE  m \in dvSched'[n]
    BY <1>0, <1>2, <2>3 DEF OnHelloInterest, SchedDvInfoInterest
  <2>4. ASSUME \/ \E k \in Node : SendHelloInterest(k) \/ ReplyDvInfoInterest(k)
               \/ \E k, j \in Node : RemoveNeighbor(k, j)
               \/ \E k \in Node, i \in interests : OnDvInfoInterest(k, i)
               \/ \E k \in Node, d \in data : OnDvInfoContent(k, d)
               \/ \E k \in Node : \E r \in pend[k] : OnDvInfoTimedOut(k, r)
               \/ \E k \in Node, d \in data : OnValidatedDvInfo(k, d)
               \/ \E k \in Node, d \in data : OnDvInfoValidationFailed(k, d)
               \/ \E k \in Node, p \in Prefix : AdvNamePrefix(k, p)
               \/ UNCHANGED vars
        PROVE  dvSched' = dvSched
    BY <2>4 DEF SendHelloInterest, ReplyDvInfoInterest, RemoveNeighbor, OnDvInfoInterest,
                OnDvInfoContent, OnDvInfoTimedOut, OnValidatedDvInfo,
                OnDvInfoValidationFailed, AdvNamePrefix, vars
  <2> QED  BY <1>2, <2>1, <2>2, <2>3, <2>4 DEF Next, Asked
<1>3. ASSUME NEW r \in pend[n], r.to = m
      PROVE  Asked(n, m)'
  <2>1. ASSUME NEW k \in Node, NEW d \in data, OnDvInfoContent(k, d)
        PROVE  r \in pend'[n] \/ \E x \in validating'[n] : x.from = m
    BY <1>0, <1>3, <2>1 DEF OnDvInfoContent, RequestOf
  <2>2. ~\E k \in Node : \E q \in pend[k] : OnDvInfoTimedOut(k, q)
    BY <1>0 DEF AnswersInv, OnDvInfoTimedOut, QuietTree
  <2>3. ASSUME NEW k \in Node, NEW j \in Node, SendDvInfoInterest(k, j)
        PROVE  r \in pend'[n]
    BY <1>0, <2>3 DEF SendDvInfoInterest
  <2>4. ASSUME \/ \E k \in Node : SendHelloInterest(k) \/ ReplyDvInfoInterest(k)
               \/ \E k, j \in Node : RemoveNeighbor(k, j) \/ OnHelloInterest(k, j)
               \/ \E k \in Node, i \in interests : OnDvInfoInterest(k, i)
               \/ \E k \in Node, d \in data : OnValidatedDvInfo(k, d)
               \/ \E k \in Node, d \in data : OnDvInfoValidationFailed(k, d)
               \/ \E k \in Node, p \in Prefix : AdvNamePrefix(k, p)
               \/ UNCHANGED vars
        PROVE  pend' = pend
    BY <2>4 DEF SendHelloInterest, ReplyDvInfoInterest, RemoveNeighbor, OnHelloInterest,
                OnDvInfoInterest, OnValidatedDvInfo, OnDvInfoValidationFailed,
                AdvNamePrefix, vars, pullVars
  <2> QED  BY <1>3, <2>1, <2>2, <2>3, <2>4 DEF Next, Asked
<1>4. ASSUME NEW d \in validating[n], d.from = m
      PROVE  Asked(n, m)'
  <2>1. ASSUME NEW k \in Node, NEW x \in data, OnValidatedDvInfo(k, x)
        PROVE  d \in validating'[n]
    <3>1. k # n \/ x # d
      BY <1>1, <1>4, <2>1
    <3> QED  BY <1>0, <1>4, <2>1, <3>1 DEF OnValidatedDvInfo
  <2>2. ASSUME NEW k \in Node, NEW x \in data, OnDvInfoContent(k, x)
        PROVE  d \in validating'[n]
    BY <1>0, <2>2 DEF OnDvInfoContent
  <2>3. ~\E k \in Node, x \in data : OnDvInfoValidationFailed(k, x)
    BY DEF OnDvInfoValidationFailed, QuietTree
  <2>4. ASSUME \/ \E k \in Node : SendHelloInterest(k) \/ ReplyDvInfoInterest(k)
               \/ \E k, j \in Node : \/ RemoveNeighbor(k, j) \/ OnHelloInterest(k, j)
                                     \/ SendDvInfoInterest(k, j)
               \/ \E k \in Node, i \in interests : OnDvInfoInterest(k, i)
               \/ \E k \in Node : \E r \in pend[k] : OnDvInfoTimedOut(k, r)
               \/ \E k \in Node, p \in Prefix : AdvNamePrefix(k, p)
               \/ UNCHANGED vars
        PROVE  validating' = validating
    BY <2>4 DEF SendHelloInterest, ReplyDvInfoInterest, RemoveNeighbor, OnHelloInterest,
                SendDvInfoInterest, OnDvInfoInterest, OnDvInfoTimedOut, AdvNamePrefix,
                vars, pullVars
  <2> QED  BY <1>4, <2>1, <2>2, <2>3, <2>4 DEF Next, Asked
<1> QED  BY <1>2, <1>3, <1>4 DEF Asked

\* Whoever records the version of a filled table with an empty one asks for it.
LEMMA RecordingAsks ==
  ASSUME NEW root, NEW parent, QuietTree(root, parent), BaseInv, TreeInv(root, parent),
         NEW n \in Node, NEW m \in Node, NEW k \in Node, OnHelloInterest(n, k),
         IsEmpty(rt[n]), neighVer[n][m] # FullVersion(root, m),
         neighVer'[n][m] = FullVersion(root, m)
  PROVE  m \in dvSched'[n]
<1> DEFINE h == hello[n][m]
<1>0. NInv /\ MessagesInv(root) /\ DigestLagsTable
  BY DEF BaseInv, TreeInv
<1>1. k = m /\ neighVer'[n][m] = h.version /\ h # NoHello /\ h \in Hello
  BY <1>0 DEF OnHelloInterest, NInv, TypeOK
<1>2. h.size > 0 /\ (neighVer[n][m] = 0 \/ IsNews(n, m, h))
  BY <1>0, <1>1 DEF OnHelloInterest, MessagesInv
<1>3. IsNews(n, m, h)
  <2>1. Cardinality(Known(rt[n])) = 0
    BY SizeTellsFilled
  <2> QED  BY <1>1, <1>2, <2>1 DEF IsNews, Hello
<1>4. ~SameDigest(n, h)
  <2>1. \A p \in Prefix : digest[n][p] = 0
    BY <1>0 DEF DigestLagsTable, LookupRoute, IsEmpty
  <2>2. digest[n] = NoDigest
    BY <1>0, <2>1 DEF NInv, TypeOK, DigestValue, NoDigest
  <2> QED  BY <2>2 DEF SameDigest
<1>5. dvSched' = [dvSched EXCEPT ![n] = @ \cup {m}]
  BY <1>1, <1>3, <1>4 DEF OnHelloInterest, SchedDvInfoInterest
<1> QED  BY <1>0, <1>5 DEF NInv, TypeOK

LEMMA AskStep ==
  ASSUME NEW root, NEW parent, QuietTree(root, parent), BaseInv, TreeInv(root, parent),
         [Next]_vars
  PROVE  AskInv(root)'
<1> SUFFICES ASSUME NEW n \in Node, NEW m \in Node, IsEmpty(rt'[n]),
                    neighVer'[n][m] = FullVersion(root, m),
                    \A p \in NamePrefixes[root] : isValidCost(rt'[m][p].cost)
             PROVE  Asked(n, m)'
  BY DEF AskInv
<1>0. /\ NInv /\ VersionInv /\ TablesInv(root, parent) /\ MessagesInv(root)
      /\ FullVersion(root, m) # 0
  BY DEF BaseInv, TreeInv, FullVersion
<1>1. IsEmpty(rt[n])
  BY <1>0, FilledStays
<1>2. CASE neighVer[n][m] = FullVersion(root, m)
  <2>1. version[m] = FullVersion(root, m)
    BY <1>0, <1>2, VersionTellsFilled DEF VersionInv, VersionsWereReached, FullVersion
  <2>2. ~IsEmpty(rt[m])
    BY <1>0, <2>1, VersionTellsFilled
  <2>3. rt'[m] = rt[m]
    BY <1>0, <2>2, FilledStays
  <2>4. \A p \in NamePrefixes[root] : isValidCost(rt[m][p].cost)
    BY <2>3
  <2>5. Asked(n, m)
    BY <1>1, <1>2, <2>4 DEF TreeInv, AskInv
  <2> QED  BY <1>0, <1>2, <2>2, <2>4, <2>5, AskingStep
<1>3. CASE neighVer[n][m] # FullVersion(root, m)
  <2>1. PICK k \in Node : OnHelloInterest(n, k)
    BY <1>0, <1>3, RecordStep
  <2> QED  BY <1>1, <1>3, <2>1, RecordingAsks DEF Asked
<1> QED  BY <1>2, <1>3

-----------------------------------------------------------------------------

LEMMA TreeInit ==
  ASSUME NEW root, NEW parent, QuietTree(root, parent), Init
  PROVE  TreeInv(root, parent)
<1> DEFINE S == NamePrefixes[root]
<1>0. /\ S \subseteq Prefix /\ S # {} /\ root \in Node /\ NInv
      /\ \A n \in Node \ {root} : NamePrefixes[n] = {}
  BY NdvrAssumption, InitInv DEF QuietTree, Tree, OneOrigin
<1>1. \A n \in Node \ {root} : IsEmpty(rt[n]) /\ version[n] = 1
  BY <1>0 DEF Init, IsEmpty
<1>2. /\ version[root] = 1 /\ IsFilled(rt[root], S, 0)
      /\ \A p \in S : isDirectRoute(rt[root], p)
  <2>1. DirectEntry(1) # NoRoute
    BY DirectEntryType, RoutingTableAssumption
  <2> QED
    BY <1>0, <2>1 DEF Init, IsFilled, isDirectRoute, LookupRoute, DirectEntry
<1>3. TablesInv(root, parent)
  <2>1. 0 \in 0..InfCost
    BY RoutingTableAssumption
  <2>2. \E cost \in 0..InfCost : /\ IsFilled(rt[root], S, cost)
                                 /\ \A p \in S : isDirectRoute(rt[root], p)
    BY <1>2, <2>1
  <2> QED  BY <1>1, <1>2, <2>2 DEF TablesInv, FullVersion
<1>4. /\ \A n, m \in Node : hello[n][m] = NoHello /\ neighVer[n][m] = 0
      /\ \A n \in Node : dvSched[n] = {} /\ replyEv[n] = 0 /\ pend[n] = {}
      /\ interests = {} /\ data = {}
  BY DEF Init
<1>5. MessagesInv(root) /\ AnswersInv
  BY <1>4 DEF MessagesInv, AnswersInv
<1>6. AskInv(root)
  BY <1>4 DEF AskInv, FullVersion
<1> QED  BY <1>3, <1>5, <1>6 DEF TreeInv

LEMMA QuietInTree ==
  ASSUME NEW root, NEW parent, QuietTree(root, parent), BaseInv, TreeInv(root, parent)
  PROVE  QuietMeansSynced
<1> SUFFICES ASSUME NEW n \in Node, NEW m \in Node, <<n, m>> \in Link, ~Busy(n, m)
             PROVE  Missing(n, m) = {}
  BY DEF QuietMeansSynced
<1> DEFINE S == NamePrefixes[root]
<1>0. /\ NInv /\ VersionInv /\ TablesInv(root, parent) /\ AskInv(root)
      /\ rt[n] \in Table /\ rt[m] \in Table
  BY DEF BaseInv, TreeInv, NInv, TypeOK
<1>1. ~Asked(n, m) /\ neighVer[n][m] = version[m]
  <2>1. neighVer[n][m] \in Nat /\ version[m] \in Nat
    BY <1>0 DEF NInv, TypeOK, Version
  <2> QED  BY <1>0, <2>1 DEF Busy, Asked, VersionInv, VersionsWereReached
<1>2. CASE IsEmpty(rt[m])
  <2>1. EncodeDvInfo(rt[m]) \in Vector /\ IsEmpty(EncodeDvInfo(rt[m])) /\ 0 \in 0..InfCost
    BY <1>0, <1>2, EncodeType, RoutingTableAssumption
       DEF IsEmpty, EncodeDvInfo, LookupRoute
  <2> QED  BY <1>0, <2>1, NothingToTake DEF Missing
<1>3. CASE ~IsEmpty(rt[m]) /\ ~IsEmpty(rt[n])
  BY <1>0, <1>3, FilledNeighbors DEF Missing
<1>4. CASE ~IsEmpty(rt[m]) /\ IsEmpty(rt[n])
  <2>1. neighVer[n][m] = FullVersion(root, m)
    BY <1>0, <1>1, <1>4, VersionTellsFilled
  <2>2. PICK p \in S : ~isValidCost(rt[m][p].cost)
    BY <1>0, <1>1, <1>4, <2>1 DEF AskInv
  <2>3. PICK cost \in 0..InfCost : IsFilled(rt[m], S, cost)
    BY <1>0, <1>4 DEF TablesInv
  <2>4. ~isValidCost(cost)
    <3>1. p \in Prefix
      BY NdvrAssumption DEF QuietTree, Tree
    <3> QED  BY <2>2, <2>3, <3>1 DEF IsFilled
  <2>5. IsFilled(EncodeDvInfo(rt[m]), S, cost) /\ EncodeDvInfo(rt[m]) \in Vector
    BY <1>0, <2>3, EncodeKeepsFilling, EncodeType
  <2> QED  BY <1>0, <2>4, <2>5, NothingToTake DEF Missing
<1> QED  BY <1>2, <1>3, <1>4

\* QuietMeansSynced for every tree of routers, of any size and depth and with any
\* number of prefixes at its root, as long as no message is lost: though versions
\* are recorded before vectors arrive, requests that meet a scheduled reply are
\* dropped and replies carry a later table than the one asked for, a router that
\* is not asking has what its neighbours had to tell
\* (ndvr.cpp:511-528, 543-545, 654-682).
THEOREM QuietMeansSyncedInTrees ==
  ASSUME NEW root, NEW parent, QuietTree(root, parent)
  PROVE  Spec => []QuietMeansSynced
<1>1. Init => BaseInv /\ TreeInv(root, parent)
  BY InitInv, VersionInit, DigestInit, TreeInit DEF BaseInv
<1>2. (BaseInv /\ TreeInv(root, parent)) /\ [Next]_vars
        => (BaseInv /\ TreeInv(root, parent))'
  <2> SUFFICES ASSUME BaseInv, TreeInv(root, parent), [Next]_vars
               PROVE  (BaseInv /\ TreeInv(root, parent))'
    OBVIOUS
  <2>1. NInv /\ VersionInv /\ DigestLagsTable
    BY DEF BaseInv
  <2>2. TablesInv(root, parent) /\ MessagesInv(root) /\ AnswersInv
    BY DEF TreeInv
  <2>3. BaseInv'
    BY <2>1, NextInv, VersionStep, DigestStep DEF BaseInv
  <2>4. TablesInv(root, parent)' /\ MessagesInv(root)' /\ AnswersInv'
    BY <2>1, <2>2, TablesStep, MessagesStep, AnswersStep
  <2> QED  BY <2>3, <2>4, AskStep DEF TreeInv
<1>3. BaseInv /\ TreeInv(root, parent) => QuietMeansSynced
  BY QuietInTree
<1> QED  BY <1>1, <1>2, <1>3, PTL DEF Spec

-----------------------------------------------------------------------------
(* What the theorems about DistanceVector say of the daemon: with a face    *)
(* for each neighbour its routes never close a loop, and those who forward  *)
(* Interests get what module Forwarding promises them.                      *)

\* DistanceVector and its theorems, over the same state as in Ndvr.
Proved == INSTANCE DistanceVectorProofs WITH
            nbrs <- [n \in Node |-> Neighbors(n)],
            adverts <- {[from |-> d.from, vector |-> d.vector] : d \in data}

-----------------------------------------------------------------------------
(* Both instances of DistanceVector have the same steps.                   *)

LEMMA SameInstance ==
  ASSUME NEW table, NEW vec, NEW face, NEW f
  PROVE  /\ Proved!DirectEntry(1) = DV!DirectEntry(1)
         /\ Proved!EncodeDvInfo(table) = DV!EncodeDvInfo(table)
         /\ Proved!Known(table) = DV!Known(table)
         /\ Proved!WithdrawTable(table, face) = DV!WithdrawTable(table, face)
         /\ Proved!MergeTable(table, vec, face) = DV!MergeTable(table, vec, face)
         /\ Proved!MergeFib(f, table, vec, face) = DV!MergeFib(f, table, vec, face)
         /\ \A p : Proved!Insert(table, p, DV!DirectEntry(1))
                     = DV!Insert(table, p, DV!DirectEntry(1))
<1> USE DEF DV!LookupRoute, Proved!LookupRoute, DV!isNextHop, Proved!isNextHop,
            DV!isDirectRoute, Proved!isDirectRoute, DV!Known, Proved!Known
<1>1. Proved!DirectEntry(1) = DV!DirectEntry(1)
  BY DEF DV!DirectEntry, Proved!DirectEntry
<1>2. Proved!EncodeDvInfo(table) = DV!EncodeDvInfo(table)
  BY DEF DV!EncodeDvInfo, Proved!EncodeDvInfo
<1>3. Proved!Known(table) = DV!Known(table)
  OBVIOUS
<1>4. Proved!WithdrawTable(table, face) = DV!WithdrawTable(table, face)
  BY DEF DV!WithdrawTable, Proved!WithdrawTable, DV!WithdrawEntry, Proved!WithdrawEntry
<1>5. \A p : /\ Proved!Adopts(table, vec, p) <=> DV!Adopts(table, vec, p)
             /\ Proved!Deletes(table, vec, p, face) <=> DV!Deletes(table, vec, p, face)
             /\ Proved!CalculateCostToNeigh(vec[p].cost)
                  = DV!CalculateCostToNeigh(vec[p].cost)
  BY DEF DV!isValidCost, Proved!isValidCost, DV!isInfinityCost, Proved!isInfinityCost,
         DV!CalculateCostToNeigh, Proved!CalculateCostToNeigh, DV!Skips, Proved!Skips,
         DV!IsNewPrefix, Proved!IsNewPrefix, DV!IsNewerAtOtherCost,
         Proved!IsNewerAtOtherCost, DV!IsSameSeqAndCheaper, Proved!IsSameSeqAndCheaper,
         DV!Adopts, Proved!Adopts, DV!Deletes, Proved!Deletes
<1>6. Proved!MergeTable(table, vec, face) = DV!MergeTable(table, vec, face)
  BY <1>5 DEF DV!MergeTable, Proved!MergeTable, DV!MergeEntry, Proved!MergeEntry
<1>7. Proved!MergeFib(f, table, vec, face) = DV!MergeFib(f, table, vec, face)
  BY <1>5 DEF DV!MergeFib, Proved!MergeFib, DV!Adopted, Proved!Adopted,
              DV!Deleted, Proved!Deleted
<1>8. \A p : Proved!Insert(table, p, DV!DirectEntry(1))
               = DV!Insert(table, p, DV!DirectEntry(1))
  BY DEF DV!Insert, Proved!Insert
<1> QED  BY <1>1, <1>2, <1>3, <1>4, <1>6, <1>7, <1>8

LEMMA SameSteps == [DV!Next]_(DV!vars) => [Proved!Next]_(Proved!vars)
<1>1. \A n, m \in Node : DV!Discover(n, m) => Proved!Discover(n, m)
  BY DEF DV!Discover, Proved!Discover
<1>2. \A n \in Node : DV!Advertise(n) => Proved!Advertise(n)
  BY SameInstance DEF DV!Advertise, Proved!Advertise
<1>3. ASSUME NEW n \in Node, NEW a \in AdvertsBar, DV!Merge(n, a)
      PROVE  Proved!Merge(n, a)
  <2>1. /\ Proved!MergeTable(rt[n], a.vector, FaceTo[<<n, a.from>>])
             = DV!MergeTable(rt[n], a.vector, FaceTo[<<n, a.from>>])
        /\ Proved!MergeFib(fib[n], rt[n], a.vector, FaceTo[<<n, a.from>>])
             = DV!MergeFib(fib[n], rt[n], a.vector, FaceTo[<<n, a.from>>])
    BY SameInstance
  <2> QED  BY <1>3, <2>1 DEF DV!Merge, Proved!Merge
<1>4. ASSUME NEW n \in Node, NEW m \in Node, DV!RemoveNeighbor(n, m)
      PROVE  Proved!RemoveNeighbor(n, m)
  <2> DEFINE left == DV!WithdrawTable(rt[n], FaceTo[<<n, m>>])
  <2>1. Proved!WithdrawTable(rt[n], FaceTo[<<n, m>>]) = left
    BY SameInstance
  <2>2. Proved!Known(left) = DV!Known(left)
    BY SameInstance
  <2> QED  BY <1>4, <2>1, <2>2 DEF DV!RemoveNeighbor, Proved!RemoveNeighbor
<1>5. \A n \in Node, p \in Prefix : DV!AdvNamePrefix(n, p) => Proved!AdvNamePrefix(n, p)
  BY SameInstance DEF DV!AdvNamePrefix, Proved!AdvNamePrefix
<1>6. DV!Next => Proved!Next
  BY <1>1, <1>2, <1>3, <1>4, <1>5 DEF DV!Next, Proved!Next, AdvertsBar
<1> QED  BY <1>6 DEF DV!vars, Proved!vars

LEMMA DaemonIsProved == Spec => Proved!Spec
<1>1. DV!Init => Proved!Init
  BY SameInstance DEF DV!Init, Proved!Init
<1>2. NInv /\ [Next]_vars => NInv' /\ [Proved!Next]_(Proved!vars)
  BY NextInv, StepImplements, SameSteps
<1> QED  BY <1>1, <1>2, InitInv, InitImplements, PTL DEF Spec, Proved!Spec

-----------------------------------------------------------------------------
(* The theorems.                                                           *)

\* What the theorems of DistanceVector assume of their constants.
LEMMA ProvedAssumptions ==
  /\ /\ InfCost \in Nat \ {0}
     /\ LocalFace \notin Face
     /\ NoRoute \notin Proved!Entry
     /\ NoRoute \notin Proved!Distance
  /\ /\ Link \subseteq {l \in Node \X Node : l[1] # l[2]}
     /\ FaceTo \in [Link -> Face]
     /\ NamePrefixes \in [Node -> SUBSET Prefix]
     /\ LatePrefixes \in [Node -> SUBSET Prefix]
     /\ Node \cap Prefix = {}
     /\ MaxSeq \in Nat \ {0}
  BY RoutingTableAssumption, NdvrAssumption
     DEF Entry, Distance, Proved!Entry, Proved!Distance

\* With a face for each neighbour the daemons never close a forwarding loop,
\* whatever is lost, delayed, grouped or answered by a cache, and whoever is
\* given up meanwhile (ndvr.cpp:286-322, 446-682, 722-805).
THEOREM NdvrNeverLoops ==
  ASSUME DV!UnicastFaces
  PROVE  Spec => []DV!NoForwardingLoop
<1>1. Proved!UnicastFaces
  BY DEF DV!UnicastFaces, Proved!UnicastFaces
<1>2. Proved!Spec => []Proved!NoForwardingLoop
  BY <1>1, ProvedAssumptions, Proved!LoopFreedom, PTL
<1>3. Proved!NoForwardingLoop => DV!NoForwardingLoop
  BY DEF DV!NoForwardingLoop, Proved!NoForwardingLoop, DV!ForwardsTo, Proved!ForwardsTo,
         DV!isDirectRoute, Proved!isDirectRoute, DV!LookupRoute, Proved!LookupRoute
<1> QED  BY <1>2, <1>3, DaemonIsProved, PTL

\* Of the daemon too: every router that knows a prefix reaches a producer of it
\* along next hops of the FIBs (ndvr.cpp:286-322, 722-805).
THEOREM NdvrRoutesEndAtProducers ==
  ASSUME DV!UnicastFaces
  PROVE  Spec => []Proved!RoutesReachProducers
<1>1. Proved!UnicastFaces
  BY DEF DV!UnicastFaces, Proved!UnicastFaces
<1>2. Proved!Spec => []Proved!RoutesReachProducers
  BY <1>1, ProvedAssumptions, Proved!RoutesEndAtProducers, PTL
<1> QED  BY <1>2, DaemonIsProved, PTL

\* ImplementsForwarding for every network of unicast faces: an Interest that
\* follows the daemons' routes finds a next hop wherever it is sent and never
\* goes round for ever (ndvr.cpp:286-322, 722-805, 822-840).
THEOREM NdvrForwards ==
  ASSUME DV!UnicastFaces
  PROVE  Spec => ImplementsForwarding
<1>1. Proved!UnicastFaces
  BY DEF DV!UnicastFaces, Proved!UnicastFaces
<1>2. Proved!Spec => Proved!ImplementsForwarding
  BY <1>1, ProvedAssumptions, Proved!RoutesAreForwarding, PTL
<1>3. Proved!ImplementsForwarding => ImplementsForwarding
  <2> USE DEF DV!ForwardsTo, Proved!ForwardsTo, DV!isDirectRoute, Proved!isDirectRoute,
              DV!LookupRoute, Proved!LookupRoute
  <2>1. Proved!Routes!ForwardingInit => DV!Routes!ForwardingInit
    BY DEF DV!Routes!ForwardingInit, Proved!Routes!ForwardingInit
  <2>2. [Proved!Routes!ForwardingNext]_(Proved!Routes!forwardingVars)
          => [DV!Routes!ForwardingNext]_(DV!Routes!forwardingVars)
    BY DEF DV!Routes!ForwardingNext, Proved!Routes!ForwardingNext,
           DV!Routes!Reroute, Proved!Routes!Reroute, DV!Routes!Serve, Proved!Routes!Serve,
           DV!Routes!LeadsOn, Proved!Routes!LeadsOn, DV!Routes!NoCircle,
           Proved!Routes!NoCircle, DV!Routes!forwardingVars, Proved!Routes!forwardingVars
  <2> QED
    BY <2>1, <2>2, PTL
       DEF ImplementsForwarding, DV!ImplementsForwarding, Proved!ImplementsForwarding,
           DV!Routes!ForwardingSpec, Proved!Routes!ForwardingSpec
<1> QED  BY <1>2, <1>3, DaemonIsProved, PTL
=============================================================================
