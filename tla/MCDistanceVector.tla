--------------------------- MODULE MCDistanceVector ---------------------------
(* Three routers a, b, c; a is started with every prefix.                    *)
EXTENDS DistanceVector, TLC

CONSTANTS a, b, c, wifi

MCTriangle == {l \in Node \X Node : l[1] # l[2]}
MCLine == {<<a, b>>, <<b, a>>, <<b, c>>, <<c, b>>}

\* Point-to-point links, and one broadcast face for all neighbours.
MCOwnFace == [l \in Link |-> l[2]]
MCSharedFace == [l \in Link |-> wifi]

MCNamePrefixes == a :> Prefix @@ [n \in Node \ {a} |-> {}]
MCNoLate == [n \in Node |-> {}]
MCLateAtC == c :> Prefix @@ [n \in Node \ {c} |-> {}]
=============================================================================
