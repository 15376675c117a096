------------------------------ MODULE Forwarding ------------------------------
(***************************************************************************)
(* What routing owes those who forward: next hops that change at one       *)
(* router at a time, that once there are never taken away, that lead to    *)
(* routers which know the way on, and that never close a circle.  Module   *)
(* DistanceVector implements it; module Delivery builds on it.             *)
(***************************************************************************)
EXTENDS FiniteSets

CONSTANTS
  Router,
  Name     \* the name prefixes Interests are for

VARIABLES
  serves,  \* the prefixes that a producer at the router answers for
  hops     \* the next hops of a router for the prefixes it does not serve

forwardingVars == <<serves, hops>>

ForwardingTypeOK ==
  /\ serves \in [Router -> SUBSET Name]
  /\ hops \in [Router -> [Name -> SUBSET Router]]

ForwardingInit ==
  /\ serves \in [Router -> SUBSET Name]
  /\ hops = [n \in Router |-> [p \in Name |-> {}]]

\* A next hop serves the prefix or has a next hop itself.
LeadsOn(srv, hop) ==
  \A n \in Router, p \in Name : \A m \in hop[n][p] :
    p \notin srv[m] => hop[m][p] # {}

\* No set of routers passes Interests for a prefix on among its own for ever.
NoCircle(hop) ==
  \A p \in Name :
    ~\E S \in SUBSET Router : S # {} /\ \A n \in S : hop[n][p] \cap S # {}

\* Mutants: a route is taken from a router that has none; circles may close.
RerouteAnywhere(n) ==
  LET old == hops
      new == hops' IN
  /\ old[n] # new[n]
  /\ serves' = serves
  /\ \A m \in Router \ {n} : new[m] = old[m]
  /\ NoCircle(new)
RerouteInCircles(n) ==
  LET old == hops
      new == hops' IN
  /\ old[n] # new[n]
  /\ serves' = serves
  /\ \A m \in Router \ {n} : new[m] = old[m]
  /\ \A p \in Name : p \in serves[n] => new[n][p] = {}
  /\ LeadsOn(serves, new)

\* The router changes its next hops, for some prefixes or for all.
Reroute(n) ==
  LET old == hops
      new == hops' IN
  /\ new \in [Router -> [Name -> SUBSET Router]]
  /\ old[n] # new[n]
  /\ serves' = serves
  /\ \A m \in Router \ {n} : new[m] = old[m]
  /\ \A p \in Name :
       /\ old[n][p] # {} => new[n][p] # {}
       /\ p \in serves[n] => new[n][p] = {}
  /\ LeadsOn(serves, new)
  /\ NoCircle(new)

\* The router begins to serve the prefix.
Serve(n, p) ==
  /\ serves' = [serves EXCEPT ![n] = @ \cup {p}]
  /\ hops' = [hops EXCEPT ![n][p] = {}]

ForwardingNext ==
  \/ \E n \in Router : Reroute(n)
  \/ \E n \in Router, p \in Name : Serve(n, p)

ForwardingSpec == ForwardingInit /\ [][ForwardingNext]_forwardingVars
=============================================================================
