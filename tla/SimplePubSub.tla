------------------------------ MODULE SimplePubSub ------------------------------
(***************************************************************************)
(* The publish-subscribe application of the simulations.  Every node       *)
(* announces the names of its data again and again in notifications that   *)
(* may get lost; every node collects the names it hears, asks once a       *)
(* second for those it has not got, and puts away what arrives.            *)
(***************************************************************************)
EXTENDS Integers, FiniteSets

CONSTANTS
  Node,
  Rounds  \* m_syncDataRounds of each node: how many names it announces

ASSUME SimplePubSubAssumption == Rounds \in [Node -> Nat]

\* The names of data.
Prefixes == {p \in Node \X UNION {1..Rounds[n] : n \in Node} : p[2] <= Rounds[p[1]]}

VARIABLES
  round,      \* the rounds a node has announced
  pending,    \* m_pendingSync
  satisfied,  \* m_satisfiedSync
  requested   \* names with a pending Interest in the node's face

vars == <<round, pending, satisfied, requested>>

\* The names announced so far; the timer of each never stops.
Announced == {p \in Prefixes : p[2] <= round[p[1]]}

\* The nodes that ask for data: the check is only started with rounds to do.
Subscribers == {n \in Node : Rounds[n] > 0}

TypeOK ==
  /\ round \in [Node -> Nat] /\ \A n \in Node : round[n] <= Rounds[n]
  /\ pending \in [Node -> SUBSET Prefixes]
  /\ satisfied \in [Node -> SUBSET Prefixes]
  /\ requested \in [Node -> SUBSET Prefixes]

Init ==
  /\ round = [n \in Node |-> 0]
  /\ pending = [n \in Node |-> {}]
  /\ satisfied = [n \in Node |-> {}]
  /\ requested = [n \in Node |-> {}]

\* Mutant: one round too many.
AddNewNamePrefixOnceMore(n) ==
  /\ round[n] <= Rounds[n]
  /\ round' = [round EXCEPT ![n] = @ + 1]
  /\ UNCHANGED <<pending, satisfied, requested>>

\* The next round, and the first notification of its name.
AddNewNamePrefix(n) ==
  /\ round[n] < Rounds[n]
  /\ round' = [round EXCEPT ![n] = @ + 1]
  /\ UNCHANGED <<pending, satisfied, requested>>

\* Mutant: a name is collected although its data came.
OnSyncNotifyAnyway(n, p) ==
  /\ p \in Announced
  /\ p[1] # n
  /\ pending' = [pending EXCEPT ![n] = @ \cup {p}]
  /\ UNCHANGED <<round, satisfied, requested>>

\* One of the notifications of p reaches n.
OnSyncNotify(n, p) ==
  /\ p \in Announced
  /\ p[1] # n
  /\ p \notin satisfied[n]
  /\ p \notin pending[n]
  /\ pending' = [pending EXCEPT ![n] = @ \cup {p}]
  /\ UNCHANGED <<round, satisfied, requested>>

\* Requests of earlier checks may be under way still.
CheckPendingSync(n) ==
  /\ n \in Subscribers
  /\ requested' = [requested EXCEPT ![n] = @ \cup pending[n]]
  /\ UNCHANGED <<round, pending, satisfied>>

\* Mutant: the name is erased and not remembered.
OnSyncDataContentForgets(n, p) ==
  /\ p \in requested[n]
  /\ pending' = [pending EXCEPT ![n] = @ \ {p}]
  /\ requested' = [requested EXCEPT ![n] = @ \ {p}]
  /\ UNCHANGED <<round, satisfied>>

\* Data answers every pending Interest of its name.
OnSyncDataContent(n, p) ==
  /\ p \in requested[n]
  /\ satisfied' = [satisfied EXCEPT ![n] = @ \cup {p}]
  /\ pending' = [pending EXCEPT ![n] = @ \ {p}]
  /\ requested' = [requested EXCEPT ![n] = @ \ {p}]
  /\ UNCHANGED round

\* The last pending Interest of p expires, or a Nack comes: nothing is done.
OnSyncDataTimedOut(n, p) ==
  /\ p \in requested[n]
  /\ requested' = [requested EXCEPT ![n] = @ \ {p}]
  /\ UNCHANGED <<round, pending, satisfied>>

Next ==
  \/ \E n \in Node : AddNewNamePrefix(n)
  \/ \E n \in Node, p \in Prefixes : OnSyncNotify(n, p)
  \/ \E n \in Node : CheckPendingSync(n)
  \/ \E n \in Node, p \in Prefixes : OnSyncDataContent(n, p)
  \/ \E n \in Node, p \in Prefixes : OnSyncDataTimedOut(n, p)

Spec == Init /\ [][Next]_vars

\* Timers fire.  Notifications and requests are repeated without end, and
\* some of them get through.
FairSpec ==
  /\ Spec
  /\ \A n \in Node :
       /\ WF_vars(AddNewNamePrefix(n))
       /\ WF_vars(\E p \in Prefixes : OnSyncNotify(n, p))
       /\ WF_vars(CheckPendingSync(n))
       /\ SF_vars(\E p \in Prefixes : OnSyncDataContent(n, p))

-----------------------------------------------------------------------------
(* Properties.                                                             *)

\* Data that came is never asked for again, however often and late its name is
\* notified (simplepubsub.cpp:133-135, 168-175).
NeverAskedAgain ==
  [][\A n \in Node : satisfied[n] \subseteq satisfied'[n]
                     /\ satisfied[n] \cap requested'[n] = {}]_vars

\* Every subscriber gets every name of the others, though each notification
\* and each request may get lost (simplepubsub.cpp:93-100, 113-119, 159-162).
EveryNameArrives ==
  \A n \in Subscribers : <>({p \in Prefixes : p[1] # n} \subseteq satisfied[n])
=============================================================================
