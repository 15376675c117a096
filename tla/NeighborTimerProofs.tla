------------------------- MODULE NeighborTimerProofs -------------------------
(* The removal timer is right for every resolution of time and every bound. *)
EXTENDS NeighborTimer, TLAPS

(***************************************************************************)
(* Besides its type and the timer that matches the entry, an entry has a   *)
(* time-out no shorter than the shortest, was seen no longer ago than that *)
(* time-out, and was not heard since it was last seen.                     *)
(***************************************************************************)
EntryInv ==
  known => /\ ShortestTimeout <= timeout
           /\ lastSeen <= Ticks(timeout)
           /\ lastSeen <= silence

TInv == TypeOK /\ RemovalMatchesEntry /\ EntryInv

\* More seconds are more ticks.
LEMMA TicksMonotone ==
  ASSUME NEW s \in Nat, NEW t \in Nat, s <= t
  PROVE  /\ Ticks(s) \in Nat /\ Ticks(t) \in Nat
         /\ Ticks(s) <= Ticks(t)
<1>1. PICK k \in Nat : t = s + k
  <2> WITNESS t - s \in Nat
  <2> QED  OBVIOUS
<1>2. /\ s * TicksPerSecond \in Nat /\ k * TicksPerSecond \in Nat
      /\ t * TicksPerSecond = s * TicksPerSecond + k * TicksPerSecond
  BY <1>1, NeighborTimerAssumption
<1> QED  BY <1>2 DEF Ticks

\* Whatever the delay, the time-out is a number and at least the shortest.
LEMMA HelloTimeoutType ==
  ASSUME NEW d \in Nat
  PROVE  HelloTimeout(d) \in Nat /\ ShortestTimeout <= HelloTimeout(d)
<1>1. d \div TicksPerSecond \in Int
  BY NeighborTimerAssumption
<1>2. CASE d \div TicksPerSecond > HelloIntervalIni
  BY <1>1, <1>2, NeighborTimerAssumption DEF HelloTimeout, ShortestTimeout
<1>3. CASE ~(d \div TicksPerSecond > HelloIntervalIni)
  BY <1>1, <1>3, NeighborTimerAssumption DEF HelloTimeout, ShortestTimeout
<1> QED  BY <1>2, <1>3

LEMMA TInit == Init => TInv
<1>1. Ceiling \in Nat
  BY TicksMonotone, NeighborTimerAssumption DEF Ceiling
<1>2. Init => TypeOK
  <2> SUFFICES ASSUME Init PROVE TypeOK
    OBVIOUS
  <2>1. known \in BOOLEAN /\ alive \in BOOLEAN
    BY DEF Init
  <2>2. 0 \in 0..MaxTimeout /\ 0 \in 0..Ceiling /\ 0 \in 0..MaxDue
    BY <1>1, NeighborTimerAssumption
  <2> QED  BY <2>1, <2>2 DEF Init, TypeOK
<1>3. Init => RemovalMatchesEntry /\ EntryInv
  BY DEF Init, RemovalMatchesEntry, EntryInv
<1> QED  BY <1>2, <1>3 DEF TInv

LEMMA TStep == TInv /\ [Next]_vars => TInv'
<1> SUFFICES ASSUME TInv, [Next]_vars
             PROVE  TInv'
  OBVIOUS
<1> USE NeighborTimerAssumption
<1>1. Ceiling \in Nat /\ Ceiling = Ticks(MaxTimeout) /\ 0 \in 0..Ceiling
  BY TicksMonotone DEF Ceiling
<1>2. CASE OnHelloInterest
  <2>1. timeout' \in Nat /\ ShortestTimeout <= timeout' /\ timeout' <= MaxTimeout
    BY <1>2, <1>1, HelloTimeoutType DEF OnHelloInterest, TInv, TypeOK
  <2>2. Ticks(timeout') \in 0..Ceiling
    BY <2>1, <1>1, TicksMonotone
  <2>3. removals' = {Ticks(timeout')} /\ lastSeen' = 0 /\ silence' = 0 /\ known' = TRUE
    BY <1>2 DEF OnHelloInterest, RescheduleNeighRemoval
  <2>4. due' \in 0..MaxDue /\ alive' \in BOOLEAN
    BY <1>2 DEF OnHelloInterest, TInv, TypeOK
  <2>5. TypeOK'
    BY <1>1, <2>1, <2>2, <2>3, <2>4 DEF TypeOK
  <2>6. RemovalMatchesEntry' /\ EntryInv'
    <3>1. Ticks(timeout') - lastSeen' = Ticks(timeout')
      BY <1>1, <2>2, <2>3
    <3>2. ShortestTimeout <= timeout' /\ lastSeen' <= Ticks(timeout') /\ lastSeen' <= silence'
      BY <1>1, <2>1, <2>2, <2>3
    <3> QED  BY <2>3, <3>1, <3>2 DEF RemovalMatchesEntry, EntryInv, ShortestTimeout
  <2> QED  BY <2>5, <2>6 DEF TInv
<1>3. CASE OnValidatedDvInfo
  <2>1. Ticks(timeout) \in 0..Ceiling
    BY <1>1, TicksMonotone DEF TInv, TypeOK
  <2>2. due' \in 0..MaxDue /\ UNCHANGED <<known, timeout, alive, silence>>
    BY <1>3 DEF OnValidatedDvInfo, TInv, TypeOK
  <2>3. CASE known
    <3>1. removals' = {Ticks(timeout)} /\ lastSeen' = 0
      BY <1>3, <2>3 DEF OnValidatedDvInfo, RescheduleNeighRemoval
    <3>2. TypeOK'
      BY <1>1, <2>1, <2>2, <3>1 DEF TInv, TypeOK
    <3>3. RemovalMatchesEntry' /\ EntryInv'
      BY <2>1, <2>2, <2>3, <3>1 DEF TInv, TypeOK, RemovalMatchesEntry, EntryInv, Ticks, ShortestTimeout
    <3> QED  BY <3>2, <3>3 DEF TInv
  <2>4. CASE ~known
    BY <1>3, <2>2, <2>4 DEF OnValidatedDvInfo, TInv, TypeOK, RemovalMatchesEntry, EntryInv
  <2> QED  BY <2>3, <2>4
<1>4. CASE LoseVector
  BY <1>4 DEF LoseVector, TInv, TypeOK, RemovalMatchesEntry, EntryInv, Ticks, Ceiling, ShortestTimeout
<1>5. CASE RemoveNeighbor
  <2>1. known /\ removals = {Ticks(timeout) - lastSeen} /\ 0 \in removals
    BY <1>5 DEF RemoveNeighbor, TInv, RemovalMatchesEntry
  <2>2. removals' = {} /\ known' = FALSE
    BY <1>5, <2>1 DEF RemoveNeighbor
  <2> QED  BY <1>5, <2>2 DEF RemoveNeighbor, TInv, TypeOK, RemovalMatchesEntry, EntryInv
<1>6. CASE Tick
  <2>1. /\ removals' = {t - 1 : t \in removals} /\ silence' = Later(silence)
        /\ lastSeen' = IF known THEN Later(lastSeen) ELSE lastSeen
        /\ UNCHANGED <<known, timeout, due, alive>> /\ 0 \notin removals
    BY <1>6 DEF Tick
  <2>2. Later(silence) \in 0..Ceiling /\ Later(lastSeen) \in 0..Ceiling
    BY <1>1 DEF TInv, TypeOK, Later
  <2>3. removals' \subseteq 0..Ceiling
    BY <1>1, <2>1 DEF TInv, TypeOK
  <2>4. TypeOK'
    BY <2>1, <2>2, <2>3 DEF TInv, TypeOK
  <2>5. CASE known
    <3>1. Ticks(timeout) \in 0..Ceiling
      BY <1>1, TicksMonotone DEF TInv, TypeOK
    <3>2. removals = {Ticks(timeout) - lastSeen}
      BY <2>5 DEF TInv, RemovalMatchesEntry
    <3>3. lastSeen < Ticks(timeout)
      BY <2>1, <2>5, <3>1, <3>2 DEF TInv, TypeOK, EntryInv
    <3>4. lastSeen' = lastSeen + 1
      BY <1>1, <2>1, <2>5, <3>1, <3>3 DEF Later, TInv, TypeOK
    <3>5. removals' = {(Ticks(timeout) - lastSeen) - 1}
      BY <2>1, <3>2
    <3>6. RemovalMatchesEntry'
      <4>1. Ticks(timeout') = Ticks(timeout)
        BY <2>1
      <4>2. (Ticks(timeout) - lastSeen) - 1 = Ticks(timeout) - lastSeen'
        BY <3>1, <3>4 DEF TInv, TypeOK
      <4> QED  BY <2>1, <2>5, <3>5, <4>1, <4>2 DEF RemovalMatchesEntry
    <3>7. lastSeen' <= silence'
      BY <1>1, <2>1, <2>5, <3>1, <3>3, <3>4 DEF TInv, TypeOK, EntryInv, Later
    <3>8. EntryInv'
      <4>1. Ticks(timeout') = Ticks(timeout) /\ timeout' = timeout
        BY <2>1
      <4>2. lastSeen' <= Ticks(timeout)
        BY <3>1, <3>3, <3>4 DEF TInv, TypeOK
      <4> QED  BY <2>1, <2>5, <3>7, <4>1, <4>2 DEF TInv, EntryInv, ShortestTimeout
    <3> QED  BY <2>4, <3>6, <3>8 DEF TInv
  <2>6. CASE ~known
    BY <2>1, <2>4, <2>6 DEF TInv, RemovalMatchesEntry, EntryInv
  <2> QED  BY <2>5, <2>6
<1>7. CASE Move
  BY <1>7 DEF Move, TInv, TypeOK, RemovalMatchesEntry, EntryInv, Ticks, Ceiling, ShortestTimeout
<1>8. CASE UNCHANGED vars
  BY <1>8 DEF vars, TInv, TypeOK, RemovalMatchesEntry, EntryInv, Ticks, Ceiling, ShortestTimeout
<1> QED  BY <1>2, <1>3, <1>4, <1>5, <1>6, <1>7, <1>8 DEF Next

LEMMA TimerInvariant == Spec => []TInv
  BY TInit, TStep, PTL DEF Spec

\* The timer's state keeps its types (ndvr.cpp:270-284).
THEOREM TimerTypeCorrect == Spec => []TypeOK
<1>1. TInv => TypeOK
  BY DEF TInv
<1> QED  BY <1>1, TimerInvariant, PTL

\* An entry has exactly one removal scheduled, its time-out after it was last
\* seen, and no removal outlives its entry (ndvr.cpp:277-292).
THEOREM OneRemovalPerNeighbor == Spec => []RemovalMatchesEntry
<1>1. TInv => RemovalMatchesEntry
  BY DEF TInv
<1> QED  BY <1>1, TimerInvariant, PTL

\* A neighbour heard again before the shortest time-out is never given up
\* (ndvr.cpp:270-284).
THEOREM RegularNeighborIsKept == Spec => GivenUpOnlyWhenSilent
<1>1. TInv /\ [Next]_vars =>
        [known /\ ~known' => silence >= Ticks(ShortestTimeout)]_vars
  <2> SUFFICES ASSUME TInv, [Next]_vars, known, ~known'
               PROVE  silence >= Ticks(ShortestTimeout)
    OBVIOUS
  <2>1. RemoveNeighbor
    BY DEF Next, vars, OnHelloInterest, OnValidatedDvInfo, LoseVector, Tick, Move
  <2>2. Ticks(timeout) - lastSeen = 0
    BY <2>1 DEF RemoveNeighbor, TInv, RemovalMatchesEntry
  <2>3. ShortestTimeout \in Nat /\ timeout \in Nat /\ ShortestTimeout <= timeout
    BY NeighborTimerAssumption DEF TInv, TypeOK, EntryInv, ShortestTimeout
  <2>4. Ticks(ShortestTimeout) <= Ticks(timeout) /\ Ticks(timeout) \in Nat
        /\ Ticks(ShortestTimeout) \in Nat
    BY <2>3, TicksMonotone
  <2>5. lastSeen \in Int /\ silence \in Int /\ lastSeen <= silence
    BY DEF TInv, TypeOK, EntryInv
  <2> QED  BY <2>2, <2>4, <2>5
<1> QED  BY <1>1, TimerInvariant, PTL DEF Spec, GivenUpOnlyWhenSilent
=============================================================================
