------------------------------ MODULE UnicastFaces ------------------------------
(***************************************************************************)
(* The face through which a router reaches each of its neighbours: where   *)
(* the constant FaceTo of Ndvr and DistanceVector comes from.  The first   *)
(* hello of a neighbour makes a unicast face for its MAC address, which    *)
(* outlives the neighbour's entry; without unicast faces the neighbour is  *)
(* reached through the device its hello came in on.                        *)
(***************************************************************************)
EXTENDS Integers, FiniteSets

CONSTANTS
  Router,              \* the routers around
  DeviceFace,          \* face ids of the devices, made before the daemon starts
  EnableUnicastFaces,  \* m_enableUnicastFaces
  Silent,              \* routers whose hellos carry an empty MAC address
  MaxFace              \* bound of the face ids

ASSUME UnicastFacesAssumption ==
  /\ MaxFace \in Nat
  /\ DeviceFace \subseteq 1..MaxFace
  /\ EnableUnicastFaces \in BOOLEAN
  /\ Silent \subseteq Router

NoFace == 0
FaceId == 1..MaxFace

VARIABLES
  faces,          \* the faces of the node
  neighToFaceId,  \* m_neighToFaceId
  neighFace,      \* face of each NeighborEntry; NoFace: not in m_neighMap
  fib             \* next hops of the names of neighbours

vars == <<faces, neighToFaceId, neighFace, fib>>

TypeOK ==
  /\ faces \subseteq FaceId
  /\ neighToFaceId \in [Router -> FaceId \cup {NoFace}]
  /\ neighFace \in [Router -> FaceId \cup {NoFace}]
  /\ fib \subseteq Router \X FaceId

Init ==
  /\ faces = DeviceFace
  /\ neighToFaceId = [m \in Router |-> NoFace]
  /\ neighFace = [m \in Router |-> NoFace]
  /\ fib = {}

\* Mutant: the new transport is taken for the one of the device.
CreateUnicastFaceAsDevice(f) == f \in faces /\ faces' = faces

\* A face that was not there before.
CreateUnicastFace(f) == f \notin faces /\ faces' = faces \cup {f}

\* Mutant: every neighbour new to the map gets a new face.
FaceForNew(m, in, f) ==
  /\ CreateUnicastFace(f)
  /\ neighToFaceId' = [neighToFaceId EXCEPT ![m] = f]

\* f is the face for a neighbour not in the map, whose hello came in on face in.
FaceFor(m, in, f) ==
  \/ /\ EnableUnicastFaces /\ m \notin Silent /\ neighToFaceId[m] = NoFace
     /\ CreateUnicastFace(f)
     /\ neighToFaceId' = [neighToFaceId EXCEPT ![m] = f]
  \/ /\ EnableUnicastFaces /\ m \notin Silent /\ neighToFaceId[m] # NoFace
     /\ f = neighToFaceId[m]
     /\ UNCHANGED <<faces, neighToFaceId>>
  \/ /\ ~EnableUnicastFaces \/ m \in Silent
     /\ f = in
     /\ UNCHANGED <<faces, neighToFaceId>>

\* Nothing is unregistered, as the old face is 0.
registerNeighborPrefix(m, f) == fib' = fib \cup {<<m, f>>}

\* The first hello of m since it was unknown.
OnHelloInterest(m, in, f) ==
  /\ in \in DeviceFace
  /\ neighFace[m] = NoFace
  /\ FaceFor(m, in, f)
  /\ neighFace' = [neighFace EXCEPT ![m] = f]
  /\ registerNeighborPrefix(m, f)

\* The faces and the next hops stay.
RemoveNeighbor(m) ==
  /\ neighFace[m] # NoFace
  /\ neighFace' = [neighFace EXCEPT ![m] = NoFace]
  /\ UNCHANGED <<faces, neighToFaceId, fib>>

Next ==
  \/ \E m \in Router, in \in DeviceFace, f \in FaceId : OnHelloInterest(m, in, f)
  \/ \E m \in Router : RemoveNeighbor(m)

Spec == Init /\ [][Next]_vars

-----------------------------------------------------------------------------
(* Properties.                                                             *)

\* The neighbours that get a face of their own.
HasOwnFace(m) == EnableUnicastFaces /\ m \notin Silent

\* Neighbours with faces of their own share them with nobody: withdrawing the
\* routes of one face withdraws those of one neighbour (ndvr.cpp:299, 479-494).
FacesAreNotShared ==
  \A m, n \in Router :
    m # n /\ HasOwnFace(m) /\ neighFace[m] # NoFace => neighFace[m] # neighFace[n]

\* However often it is given up and found again, on whatever device, the name
\* of a neighbour is routed to one face, although registerNeighborPrefix never
\* unregisters an earlier one (ndvr.cpp:94-105, 479-498).
OneNextHopPerNeighbor ==
  \A m \in Router : HasOwnFace(m) =>
    \A f, g \in FaceId : <<m, f>> \in fib /\ <<m, g>> \in fib => f = g
=============================================================================
