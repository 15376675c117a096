-------------------------------- MODULE MCNdvr --------------------------------
(* Small networks for Ndvr: a pair, and a line of three routers.             *)
EXTENDS Ndvr, TLC

CONSTANTS a, b, c, p, q

MCPair == {<<a, b>>, <<b, a>>}
MCLine == MCPair \cup {<<b, c>>, <<c, b>>}
MCFaceTo == [l \in Link |-> l[2]]

MCNowhere == [n \in Node |-> {}]
\* One prefix at one router, one each at both ends.
MCAtA == [n \in Node |-> IF n = a THEN {p} ELSE {}]
MCAtAC == [n \in Node |-> CASE n = a -> {p} [] n = c -> {q} [] OTHER -> {}]
MCAtB == [n \in Node |-> IF n = b THEN {p} ELSE {}]
=============================================================================
