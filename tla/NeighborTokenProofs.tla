-------------------------- MODULE NeighborTokenProofs --------------------------
(***************************************************************************)
(* Theorems about the neighbours of one router, for any number of them and *)
(* of devices.  Those with unicast faces have one face each and share it   *)
(* with nobody: what LoopFreedom in DistanceVectorProofs assumes of        *)
(* FaceTo.  The iterator that walks the map of neighbours never points to  *)
(* an entry that was erased, and a token names neighbours of now.          *)
(***************************************************************************)
EXTENDS NeighborToken, FiniteSetTheorems, SequenceTheorems,
        WellFoundedInduction, TLAPS


\* The map remembers one new face for each neighbour, and entries and next
\* hops come from there or, for the others, from a device.
FacesInv ==
  /\ DeviceFace \subseteq faces
  /\ \A m \in Router : neighToFaceId[m] # NoFace => neighToFaceId[m] \in faces \ DeviceFace
  /\ \A m, n \in Router :
       m # n /\ neighToFaceId[m] # NoFace => neighToFaceId[m] # neighToFaceId[n]
  /\ \A m \in Router : neighFace[m] # NoFace =>
       IF HasOwnFace(m) THEN neighFace[m] = neighToFaceId[m] ELSE neighFace[m] \in DeviceFace
  /\ \A m \in Router : HasOwnFace(m) =>
       \A f \in FaceId : <<m, f>> \in fib => f = neighToFaceId[m]

-----------------------------------------------------------------------------
(* Types.                                                                  *)

\* Whatever the face is, it is one and the maps keep their types.
LEMMA FaceForType ==
  ASSUME TypeOK, NEW m \in Router, NEW in \in DeviceFace, NEW f \in FaceId, FaceFor(m, in, f)
  PROVE  faces' \subseteq FaceId /\ neighToFaceId' \in [Router -> FaceId \cup {NoFace}]
<1>1. CASE UNCHANGED <<faces, neighToFaceId>>
  BY <1>1 DEF TypeOK
<1>2. CASE CreateUnicastFace(f) /\ neighToFaceId' = [neighToFaceId EXCEPT ![m] = f]
  BY <1>2 DEF TypeOK, CreateUnicastFace
<1>3. QED
  BY <1>1, <1>2 DEF FaceFor

\* The state keeps its types (ndvr.hpp:260-261).
THEOREM FacesTypeCorrect == Spec => []TypeOK
<1>1. Init => TypeOK
  BY UnicastFacesAssumption DEF Init, TypeOK, FaceId
<1>2. TypeOK /\ [Next]_vars => TypeOK'
  <2> SUFFICES ASSUME TypeOK, [Next]_vars PROVE TypeOK'
    OBVIOUS
  <2>1. ASSUME NEW m \in Router, NEW in \in DeviceFace, NEW f \in FaceId,
               OnHelloInterest(m, in, f)
        PROVE  TypeOK'
    <3>1. faces' \subseteq FaceId /\ neighToFaceId' \in [Router -> FaceId \cup {NoFace}]
      BY <2>1, FaceForType DEF OnHelloInterest
    <3>2. neighFace' \in [Router -> FaceId \cup {NoFace}] /\ fib' \subseteq Router \X FaceId
      BY <2>1 DEF OnHelloInterest, registerNeighborPrefix, TypeOK
    <3>3. QED
      BY <3>1, <3>2 DEF TypeOK
  <2>2. ASSUME NEW m \in Router, RemoveNeighbor(m) PROVE TypeOK'
    BY <2>2 DEF RemoveNeighbor, TypeOK
  <2>3. CASE UNCHANGED vars
    BY <2>3 DEF vars, TypeOK
  <2>4. QED
    BY <2>1, <2>2, <2>3 DEF Next
<1>3. QED
  BY <1>1, <1>2, PTL DEF Spec

-----------------------------------------------------------------------------
(* Faces.                                                                  *)

\* A neighbour that gets a face keeps to it or is given one nobody has.
LEMMA HelloKeepsFaces ==
  ASSUME TypeOK, FacesInv, NEW m \in Router, NEW in \in DeviceFace, NEW f \in FaceId,
         OnHelloInterest(m, in, f)
  PROVE  FacesInv'
<1>1. neighFace' = [neighFace EXCEPT ![m] = f] /\ fib' = fib \cup {<<m, f>>}
  BY DEF OnHelloInterest, registerNeighborPrefix
<1>2. f # NoFace
  BY UnicastFacesAssumption DEF FaceId, NoFace
<1>3. CASE HasOwnFace(m) /\ neighToFaceId[m] = NoFace
  <2>1. f \notin faces /\ faces' = faces \cup {f}
        /\ neighToFaceId' = [neighToFaceId EXCEPT ![m] = f]
    BY <1>3 DEF OnHelloInterest, FaceFor, CreateUnicastFace, HasOwnFace
  <2>2. \A g \in FaceId : <<m, g>> \notin fib
    BY <1>3, UnicastFacesAssumption DEF FacesInv, FaceId, NoFace
  <2>3. QED
    BY <1>1, <1>2, <1>3, <2>1, <2>2 DEF FacesInv, TypeOK, HasOwnFace
<1>4. CASE HasOwnFace(m) /\ neighToFaceId[m] # NoFace
  <2>1. f = neighToFaceId[m] /\ UNCHANGED <<faces, neighToFaceId>>
    BY <1>4 DEF OnHelloInterest, FaceFor, HasOwnFace
  <2>2. QED
    BY <1>1, <1>2, <1>4, <2>1 DEF FacesInv, TypeOK, HasOwnFace
<1>5. CASE ~HasOwnFace(m)
  <2>1. f \in DeviceFace /\ UNCHANGED <<faces, neighToFaceId>>
    BY <1>5 DEF OnHelloInterest, FaceFor, HasOwnFace
  <2>2. QED
    BY <1>1, <1>2, <1>5, <2>1 DEF FacesInv, TypeOK, HasOwnFace
<1>6. QED
  BY <1>3, <1>4, <1>5

\* FacesInv is inductive together with the types.
LEMMA FacesInvariant == Spec => [](TypeOK /\ FacesInv)
<1>1. Init => FacesInv
  BY DEF Init, FacesInv
<1>2. TypeOK /\ FacesInv /\ [Next]_vars => FacesInv'
  <2> SUFFICES ASSUME TypeOK, FacesInv, [Next]_vars PROVE FacesInv'
    OBVIOUS
  <2>1. ASSUME NEW m \in Router, RemoveNeighbor(m) PROVE FacesInv'
    BY <2>1 DEF RemoveNeighbor, FacesInv, TypeOK, HasOwnFace
  <2>2. CASE UNCHANGED vars
    BY <2>2 DEF vars, FacesInv, HasOwnFace
  <2>3. QED
    BY <2>1, <2>2, HelloKeepsFaces DEF Next
<1>3. QED
  BY <1>1, <1>2, FacesTypeCorrect, PTL DEF Spec

\* Faces of one's own are not shared (ndvr.cpp:479-494).
THEOREM OwnFacesAreNotShared == Spec => []FacesAreNotShared
<1>1. TypeOK /\ FacesInv => FacesAreNotShared
  BY DEF TypeOK, FacesInv, FacesAreNotShared, HasOwnFace
<1>2. QED
  BY <1>1, FacesInvariant, PTL

\* A neighbour's name has one next hop (ndvr.cpp:94-105, 479-498).
THEOREM NeighborHasOneNextHop == Spec => []OneNextHopPerNeighbor
<1>1. FacesInv => OneNextHopPerNeighbor
  BY DEF FacesInv, OneNextHopPerNeighbor
<1>2. QED
  BY <1>1, FacesInvariant, PTL

-----------------------------------------------------------------------------
(* The walk through the map.                                               *)

LEMMA MinOfNaturals ==
  ASSUME NEW S, S \subseteq Nat, S # {}
  PROVE  Min(S) \in S /\ \A k \in S : Min(S) <= k
<1>1. PICK m \in S : \A k \in S : ~(<<k, m>> \in OpToRel(<, Nat))
  BY NatLessThanWellFounded, WFMin
<1>2. \A k \in S : ~(k < m)
  BY <1>1 DEF OpToRel
<1>3. \A k \in S : m <= k
  BY <1>2
<1> QED  BY <1>3 DEF Min

\* The entry after another comes later, and the one after it in the circle is
\* another one, where there are two.
LEMMA AfterInMap ==
  ASSUME NEW it \in Router \cup {End}
  PROVE  /\ After(it) \in neigh \cup {End}
         /\ After(it) # End => After(it) > it
<1> DEFINE later == {m \in neigh : m > it}
<1>1. later \subseteq neigh /\ neigh \subseteq Nat \ {0}
  BY NeighborTokenAssumption DEF neigh
<1>2. CASE later = {}
  BY <1>2 DEF After
<1>3. CASE later # {}
  <2>1. Min(later) \in later
    BY <1>1, <1>3, MinOfNaturals
  <2>2. After(it) = Min(later)
    BY <1>3 DEF After
  <2> QED  BY <1>1, <2>1, <2>2
<1> QED  BY <1>2, <1>3

LEMMA CircularAfterInMap ==
  ASSUME NEW m \in neigh
  PROVE  /\ CircularAfter(m) \in neigh
         /\ Cardinality(neigh) # 1 => CircularAfter(m) # m
<1>1. m \in Router /\ neigh \subseteq Nat \ {0}
  BY NeighborTokenAssumption DEF neigh
<1>2. CASE After(m) # End
  <2>1. CircularAfter(m) = After(m)
    BY <1>2 DEF CircularAfter
  <2>2. After(m) \in neigh /\ After(m) > m
    BY <1>1, <1>2, AfterInMap
  <2> QED  BY <1>1, <2>1, <2>2
<1>3. CASE After(m) = End
  <2>1. CircularAfter(m) = Min(neigh)
    BY <1>3 DEF CircularAfter
  <2>2. Min(neigh) \in neigh /\ \A k \in neigh : Min(neigh) <= k
    BY <1>1, MinOfNaturals
  <2>3. \A k \in neigh : k <= m
    <3> SUFFICES ASSUME NEW k \in neigh, k > m PROVE FALSE
      BY <1>1
    <3> DEFINE later == {j \in neigh : j > m}
    <3>1. later # {} /\ later \subseteq Nat
      BY <1>1
    <3>2. Min(later) \in later /\ After(m) = Min(later)
      BY <3>1, MinOfNaturals DEF After
    <3> QED  BY <1>1, <1>3, <3>2 DEF End
  <2>4. ASSUME Min(neigh) = m
        PROVE  Cardinality(neigh) = 1
    <3>1. \A k \in neigh : k = m
      BY <1>1, <2>2, <2>3, <2>4
    <3>2. neigh = {m}
      BY <3>1
    <3> QED  BY <3>2, FS_Singleton
  <2> QED  BY <2>1, <2>2, <2>4
<1> QED  BY <1>2, <1>3

LEMMA PivotsInMap ==
  ASSUME TokenTypeOK, NEW m \in NextPivots
  PROVE  m \in neigh
<1>1. CASE StartsRound
  BY <1>1 DEF NextPivots, FirstOfRound
<1>2. CASE ~StartsRound
  <2>1. m = After(pivot) /\ After(pivot) # End
    BY <1>2 DEF NextPivots, StartsRound
  <2> QED  BY <2>1, AfterInMap DEF TokenTypeOK
<1> QED  BY <1>1, <1>2

\* What a hello with neighbours around says: one of them, or two that differ.
LEMMA HelloToken ==
  ASSUME TokenTypeOK, NEW m \in Router, SendHelloInterest(m)
  PROVE  /\ pivot' \in neigh /\ neigh' = neigh /\ UNCHANGED vars
         /\ \/ token' = <<m>>
            \/ token' = <<m, pivot'>> /\ pivot' # m
         /\ m \in neigh
<1>1. m \in neigh
  BY PivotsInMap DEF SendHelloInterest
<1>2. UNCHANGED vars /\ neigh' = neigh
  BY DEF SendHelloInterest, vars, neigh
<1>3. CASE Cardinality(neigh) = 1
  BY <1>1, <1>2, <1>3 DEF SendHelloInterest
<1>4. CASE Cardinality(neigh) # 1
  BY <1>1, <1>2, <1>4, CircularAfterInMap DEF SendHelloInterest
<1> QED  BY <1>1, <1>2, <1>3, <1>4

-----------------------------------------------------------------------------
(* The router does with its faces what UnicastFaces says.                  *)

\* Hellos sent leave the faces alone, and every other step is one of theirs:
\* what is proved of the faces holds of the router (ndvr.cpp:207-230, 286-314,
\* 450-498).
THEOREM NodeImplementsFaces == NodeSpec => Spec
<1>1. NodeInit => Init
  BY DEF NodeInit
<1>2. [NodeNext]_allVars => [Next]_vars
  <2>1. ASSUME NEW m \in Router, SendHelloInterest(m) PROVE UNCHANGED vars
    BY <2>1 DEF SendHelloInterest
  <2>2. SendHelloAlone \/ UNCHANGED allVars => UNCHANGED vars
    BY DEF SendHelloAlone, allVars
  <2>3. ASSUME NEW m \in Router, NEW in \in DeviceFace, NEW f \in FaceId, Meet(m, in, f)
        PROVE  Next
    BY <2>3 DEF Meet, Next
  <2>4. ASSUME NEW m \in Router, GiveUp(m) PROVE Next
    BY <2>4 DEF GiveUp, Next
  <2> QED  BY <2>1, <2>2, <2>3, <2>4 DEF NodeNext
<1> QED  BY <1>1, <1>2, PTL DEF NodeSpec, Spec

\* FacesAreNotShared of a router that sends hellos, meets and gives up
\* neighbours as they come (ndvr.cpp:299, 479-494).
THEOREM NodeFacesAreNotShared == NodeSpec => []FacesAreNotShared
  BY NodeImplementsFaces, OwnFacesAreNotShared, PTL

\* OneNextHopPerNeighbor of the same router (ndvr.cpp:94-105, 479-498).
THEOREM NodeNeighborHasOneNextHop == NodeSpec => []OneNextHopPerNeighbor
  BY NodeImplementsFaces, NeighborHasOneNextHop, PTL

-----------------------------------------------------------------------------
(* The iterator.                                                           *)

LEMMA ShortSequences ==
  ASSUME NEW s \in Seq(Router), Len(s) <= 2
  PROVE  s \in BoundedSeq(Router, 2)
<1>1. s \in [1..Len(s) -> Router] /\ Len(s) \in 0..2
  <2>1. s \in [1..Len(s) -> Router] /\ Len(s) \in Nat
    BY LenProperties
  <2> QED  BY <2>1
<1>2. BoundedSeq(Router, 2) = UNION {[1..n -> Router] : n \in 0..2}
  BY DEF BoundedSeq, SeqOf
<1> QED  BY <1>1, <1>2

LEMMA TokenStep ==
  ASSUME TokenTypeOK, PivotInMap, TypeOK', [NodeNext]_allVars
  PROVE  TokenTypeOK' /\ PivotInMap'
<1>0. neigh \subseteq Router /\ neigh' \subseteq Router
  BY DEF neigh
<1>1. ASSUME NEW m \in Router, SendHelloInterest(m)
      PROVE  TokenTypeOK' /\ PivotInMap'
  <2>1. /\ pivot' \in neigh /\ neigh' = neigh
        /\ token' = <<m>> \/ token' = <<m, pivot'>>
    BY <1>1, HelloToken
  <2>2. token' \in BoundedSeq(Router, 2)
    <3>1. /\ <<m>> \in Seq(Router) /\ Len(<<m>>) <= 2
          /\ <<m, pivot'>> \in Seq(Router) /\ Len(<<m, pivot'>>) <= 2
      BY <1>0, <2>1
    <3>2. <<m>> \in BoundedSeq(Router, 2) /\ <<m, pivot'>> \in BoundedSeq(Router, 2)
      BY <3>1, ShortSequences
    <3> QED  BY <2>1, <3>2
  <2> QED  BY <1>0, <2>1, <2>2 DEF TokenTypeOK, PivotInMap
<1>2. CASE SendHelloAlone
  <2>1. neigh' = neigh /\ pivot' = pivot /\ token' = <<>>
    BY <1>2 DEF SendHelloAlone, vars, neigh
  <2>2. <<>> \in BoundedSeq(Router, 2)
    <3>1. <<>> \in Seq(Router) /\ Len(<<>>) <= 2
      OBVIOUS
    <3> QED  BY <3>1, ShortSequences
  <2> QED  BY <2>1, <2>2 DEF TokenTypeOK, PivotInMap
<1>3. ASSUME NEW m \in Router, NEW in \in DeviceFace, NEW f \in FaceId, Meet(m, in, f)
      PROVE  TokenTypeOK' /\ PivotInMap'
  <2>1. /\ UNCHANGED <<pivot, token>>
        /\ neighFace' = [neighFace EXCEPT ![m] = f] /\ f # NoFace
    BY <1>3 DEF Meet, OnHelloInterest, FaceId, NoFace
  <2>2. neigh \subseteq neigh'
    BY <2>1 DEF neigh, TokenTypeOK, TypeOK
  <2> QED  BY <2>1, <2>2 DEF TokenTypeOK, PivotInMap
<1>4. ASSUME NEW m \in Router, GiveUp(m)
      PROVE  TokenTypeOK' /\ PivotInMap'
  BY <1>4 DEF GiveUp, TokenTypeOK, PivotInMap
<1>5. CASE UNCHANGED allVars
  BY <1>5 DEF allVars, vars, TokenTypeOK, PivotInMap, neigh
<1> QED  BY <1>1, <1>2, <1>3, <1>4, <1>5 DEF NodeNext

LEMMA TokenInvariant == NodeSpec => [](TokenTypeOK /\ PivotInMap)
<1>1. NodeInit => PivotInMap /\ pivot \in Router \cup {End} /\ token \in BoundedSeq(Router, 2)
  <2>1. <<>> \in Seq(Router) /\ Len(<<>>) <= 2
    OBVIOUS
  <2> QED  BY <2>1, ShortSequences DEF NodeInit, PivotInMap
<1>2. NodeSpec => []TypeOK
  BY NodeImplementsFaces, FacesTypeCorrect, PTL
<1>3. NodeInit /\ TypeOK => TokenTypeOK /\ PivotInMap
  BY <1>1 DEF TokenTypeOK
<1>4. TokenTypeOK /\ PivotInMap /\ TypeOK' /\ [NodeNext]_allVars
        => TokenTypeOK' /\ PivotInMap'
  BY TokenStep
<1> QED  BY <1>2, <1>3, <1>4, PTL DEF NodeSpec

\* The state of the router keeps its types, and a token is none, one or two
\* names (ndvr.cpp:201-230).
THEOREM TokenTypeCorrect == NodeSpec => []TokenTypeOK
  BY TokenInvariant, PTL

\* PivotInMap for any number of neighbours that come and go between any two
\* hellos: m_pivot is never used after what it points to was erased
\* (ndvr.cpp:201-230, 311-312).
THEOREM PivotIsNeverErased == NodeSpec => []PivotInMap
  BY TokenInvariant, PTL

\* A token that is sent names neighbours of the moment, and two different ones
\* where it names two: no turn is lost on a router that was given up or is
\* named twice (ndvr.cpp:201-230).
TokensNameNeighbors ==
  [][token' # token =>
       /\ ToSet(token') \subseteq neigh
       /\ Len(token') = 2 => token'[1] # token'[2]]_allVars

THEOREM TokensAreOfNeighbors == NodeSpec => TokensNameNeighbors
<1>1. TokenTypeOK /\ [NodeNext]_allVars =>
        [token' # token =>
           /\ ToSet(token') \subseteq neigh
           /\ Len(token') = 2 => token'[1] # token'[2]]_allVars
  <2> SUFFICES ASSUME TokenTypeOK, NodeNext, token' # token
               PROVE  /\ ToSet(token') \subseteq neigh
                      /\ Len(token') = 2 => token'[1] # token'[2]
    BY DEF allVars
  <2>1. ASSUME NEW m \in Router, SendHelloInterest(m)
        PROVE  /\ ToSet(token') \subseteq neigh
               /\ Len(token') = 2 => token'[1] # token'[2]
    <3>1. pivot' \in neigh /\ m \in neigh
      BY <2>1, HelloToken
    <3>2. CASE token' = <<m>>
      BY <3>1, <3>2 DEF ToSet
    <3>3. CASE token' = <<m, pivot'>> /\ pivot' # m
      <4>1. Len(token') = 2 /\ token'[1] = m /\ token'[2] = pivot'
        BY <3>3
      <4> QED  BY <3>1, <3>3, <4>1 DEF ToSet
    <3> QED  BY <2>1, <3>2, <3>3, HelloToken
  <2>2. CASE SendHelloAlone
    BY <2>2 DEF SendHelloAlone, ToSet
  <2>3. ASSUME \/ \E m \in Router, in \in DeviceFace, f \in FaceId : Meet(m, in, f)
               \/ \E m \in Router : GiveUp(m)
        PROVE  FALSE
    BY <2>3 DEF Meet, GiveUp
  <2> QED  BY <2>1, <2>2, <2>3 DEF NodeNext
<1> QED  BY <1>1, TokenTypeCorrect, PTL DEF NodeSpec, TokensNameNeighbors
=============================================================================
