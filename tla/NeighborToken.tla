----------------------------- MODULE NeighborToken -----------------------------
(***************************************************************************)
(* The token of a hello names the two neighbours that may ask for the      *)
(* vector at once while all others wait.  GetNeighborToken walks the map   *)
(* of neighbours in a circle with an iterator that arrivals and removals   *)
(* change under it, and starts a new round at a random place.  The map is  *)
(* that of UnicastFaces, its order that of the numbers of the routers.     *)
(***************************************************************************)
EXTENDS UnicastFaces, FiniteSetsExt, SequencesExt

ASSUME NeighborTokenAssumption == Router \subseteq Nat \ {0}

End == 0  \* m_neighMap.end()

VARIABLES
  pivot,  \* where m_pivot points
  token   \* the token of the last hello

allVars == <<vars, pivot, token>>

\* The keys of m_neighMap.
neigh == {m \in Router : neighFace[m] # NoFace}

TokenTypeOK ==
  /\ TypeOK
  /\ pivot \in Router \cup {End}
  /\ token \in BoundedSeq(Router, 2)

NodeInit == Init /\ pivot = End /\ token = <<>>

\* ++it, End where that is end().
After(it) ==
  LET later == {m \in neigh : m > it} IN IF later = {} THEN End ELSE Min(later)

\* Mutant: the second step does not go round.
CircularAfterNoWrap(it) == After(it)
CircularAfter(it) == IF After(it) = End THEN Min(neigh) ELSE After(it)

\* Mutant: a new round starts at the first neighbour.
FirstOfRoundAtBegin == {m \in neigh : \A k \in neigh : m <= k}

\* Where a new round may start.
FirstOfRound == neigh

StartsRound == pivot = End \/ After(pivot) = End

\* The neighbours the token may name first.
NextPivots == IF StartsRound THEN FirstOfRound ELSE {After(pivot)}

\* The hello whose token starts with m.
SendHelloInterest(m) ==
  /\ m \in NextPivots
  /\ IF Cardinality(neigh) = 1
       THEN token' = <<m>> /\ pivot' = m
       ELSE token' = <<m, CircularAfter(m)>> /\ pivot' = CircularAfter(m)
  /\ UNCHANGED vars

\* Nobody around: no token.
SendHelloAlone ==
  /\ neigh = {}
  /\ token' = <<>>
  /\ UNCHANGED <<vars, pivot>>

\* Iterators survive an insertion.
Meet(m, in, f) ==
  /\ OnHelloInterest(m, in, f)
  /\ UNCHANGED <<pivot, token>>

\* Mutant: the iterator is left where it was.
GiveUpOnly(m) ==
  /\ RemoveNeighbor(m)
  /\ UNCHANGED <<pivot, token>>

GiveUp(m) ==
  /\ RemoveNeighbor(m)
  /\ pivot' = End
  /\ UNCHANGED token

NodeNext ==
  \/ \E m \in Router : SendHelloInterest(m)
  \/ SendHelloAlone
  \/ \E m \in Router, in \in DeviceFace, f \in FaceId : Meet(m, in, f)
  \/ \E m \in Router : GiveUp(m)

NodeSpec == NodeInit /\ [][NodeNext]_allVars

\* Hellos go on, though neighbours may come and go between any two of them;
\* the uniform choice at the start of a round, made for ever, takes each value.
FairSpec ==
  /\ NodeSpec
  /\ WF_allVars(\E m \in Router : SendHelloInterest(m))
  /\ \A m \in Router : SF_allVars(StartsRound /\ SendHelloInterest(m))

-----------------------------------------------------------------------------
(* Properties.                                                             *)

\* The iterator points to an entry of the map or to its end: what it pointed
\* to was not erased, or using it would be undefined (ndvr.cpp:201-230, 311-312).
PivotInMap == pivot \in neigh \cup {End}

\* A neighbour that stays is named again and again, though others come and go
\* and every removal starts a new round (ndvr.cpp:210-217, 312).
EveryNeighborHasTurns ==
  \A m \in Router : <>[](m \in neigh) => []<>(m \in ToSet(token))
=============================================================================
