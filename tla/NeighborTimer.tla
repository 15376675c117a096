----------------------------- MODULE NeighborTimer -----------------------------
(***************************************************************************)
(* When a router gives a neighbour up: the time-out that each hello        *)
(* computes from the delay before it, and the removal event that hellos    *)
(* and validated vectors put off.  One router, one neighbour.              *)
(*                                                                         *)
(* Time is counted in ticks, TicksPerSecond of them to a second, because   *)
(* the delay is cut to whole seconds.  At one instant a hello and the      *)
(* removal may happen in either order.                                     *)
(***************************************************************************)
EXTENDS Integers, FiniteSets

CONSTANTS
  TicksPerSecond,
  HelloIntervalIni,  \* m_helloIntervalIni, in seconds
  MaxTimeout,        \* bound of the time-outs, in seconds
  MaxDue             \* bound of the vectors that are still to come

ASSUME NeighborTimerAssumption ==
  /\ TicksPerSecond \in Nat \ {0}
  /\ HelloIntervalIni \in Nat \ {0}
  /\ MaxTimeout \in Nat
  /\ MaxDue \in Nat

VARIABLES
  known,     \* the neighbour is in m_neighMap
  timeout,   \* its m_helloTimeout
  lastSeen,  \* ticks since its m_lastSeen was set
  removals,  \* ticks left of each removal event scheduled for its name
  due,       \* vectors asked for and not yet validated
  alive,     \* the neighbour sends hellos
  silence    \* ticks since its last hello

vars == <<known, timeout, lastSeen, removals, due, alive, silence>>

Ticks(seconds) == seconds * TicksPerSecond
Ceiling == Ticks(MaxTimeout)

TypeOK ==
  /\ known \in BOOLEAN
  /\ timeout \in 0..MaxTimeout
  /\ lastSeen \in 0..Ceiling
  /\ removals \subseteq 0..Ceiling
  /\ due \in 0..MaxDue
  /\ alive \in BOOLEAN
  /\ silence \in 0..Ceiling

Init ==
  /\ known = FALSE
  /\ timeout = 0
  /\ lastSeen = 0
  /\ removals = {}
  /\ due = 0
  /\ alive = TRUE
  /\ silence = 0

\* The shortest time-out there is.
ShortestTimeout == 3 + 2 * HelloIntervalIni

\* Of a neighbour seen delay ticks ago, in seconds.
HelloTimeout(delay) ==
  LET diff == delay \div TicksPerSecond IN
  3 + 2 * (IF diff > HelloIntervalIni THEN diff ELSE HelloIntervalIni)

\* Mutants: the removal in force is not cancelled; it is, and none follows;
\* one more hello is waited for.
RescheduleWithoutCancel(t) == removals' = removals \cup {Ticks(t)}
RescheduleCancelsOnly(t) == removals' = {}
RescheduleLater(t) == removals' = {Ticks(t + HelloIntervalIni)}

RescheduleNeighRemoval(t) == removals' = {Ticks(t)}

\* A new neighbour was last seen when its entry was made, which is now.
OnHelloInterest ==
  /\ alive
  /\ timeout' = HelloTimeout(IF known THEN lastSeen ELSE 0)
  /\ timeout' <= MaxTimeout
  /\ RescheduleNeighRemoval(timeout')
  /\ known' = TRUE
  /\ lastSeen' = 0
  /\ silence' = 0
  /\ \/ due' = due
     \/ due < MaxDue /\ due' = due + 1
  /\ UNCHANGED alive

\* A vector puts the removal off by the time-out of the last hello.
OnValidatedDvInfo ==
  /\ due > 0
  /\ due' = due - 1
  /\ IF known
       THEN RescheduleNeighRemoval(timeout) /\ lastSeen' = 0
       ELSE UNCHANGED <<removals, lastSeen>>
  /\ UNCHANGED <<known, timeout, alive, silence>>

\* The vector does not come, or is not valid.
LoseVector ==
  /\ due > 0
  /\ due' = due - 1
  /\ UNCHANGED <<known, timeout, lastSeen, removals, alive, silence>>

RemoveNeighbor ==
  /\ 0 \in removals
  /\ removals' = removals \ {0}
  /\ known' = FALSE
  /\ UNCHANGED <<timeout, lastSeen, due, alive, silence>>

Later(t) == IF t < Ceiling THEN t + 1 ELSE t

Tick ==
  /\ 0 \notin removals
  /\ removals' = {t - 1 : t \in removals}
  /\ lastSeen' = IF known THEN Later(lastSeen) ELSE lastSeen
  /\ silence' = Later(silence)
  /\ UNCHANGED <<known, timeout, due, alive>>

\* It moves out of range, and back.
Move ==
  /\ alive' = ~alive
  /\ UNCHANGED <<known, timeout, lastSeen, removals, due, silence>>

Next ==
  \/ OnHelloInterest
  \/ OnValidatedDvInfo
  \/ LoseVector
  \/ RemoveNeighbor
  \/ Tick
  \/ Move

Spec == Init /\ [][Next]_vars

\* Time passes, and an event whose time has come takes place.
FairSpec == Spec /\ WF_vars(Tick) /\ WF_vars(RemoveNeighbor)

-----------------------------------------------------------------------------
(* Properties.                                                             *)

\* A neighbour has one removal scheduled, its time-out after it was last seen,
\* and a neighbour that is not known has none: no event of an earlier hello or
\* of an earlier acquaintance is left to remove it (ndvr.cpp:277-292).
RemovalMatchesEntry ==
  removals = IF known THEN {Ticks(timeout) - lastSeen} ELSE {}

\* A neighbour heard again before the shortest time-out is never given up,
\* whatever vectors came in between (ndvr.cpp:270-284, 661-662).
GivenUpOnlyWhenSilent ==
  [][known /\ ~known' => silence >= Ticks(ShortestTimeout)]_vars

\* A neighbour that has fallen silent for good is given up for good: the
\* vectors that put the removal off run out (ndvr.cpp:661-662).
SilentIsGivenUp == <>[]~alive => <>[]~known
=============================================================================
