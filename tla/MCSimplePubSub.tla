----------------------------- MODULE MCSimplePubSub -----------------------------
EXTENDS SimplePubSub

CONSTANTS a, b, c

\* Two rounds, one, and a node that only listens.
MCRounds == [n \in {a, b, c} |-> IF n = a THEN 2 ELSE IF n = b THEN 1 ELSE 0]
=============================================================================
