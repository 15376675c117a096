------------------------ MODULE LocalhopStrategyProofs ------------------------
(***************************************************************************)
(* Theorems about LocalhopStrategy for any number of routers and any       *)
(* topology: an Interest under /localhop travels one hop, only the         *)
(* producer serves neighbours, and what is overheard costs nobody a        *)
(* request of its own.                                                     *)
(***************************************************************************)
EXTENDS LocalhopStrategy, TLAPS

\* Who has a record of its application asked and is not the producer.
OwnRequests ==
  \A n \in Node : App \in inRecords[n] => n \in asked /\ n # Producer

\* Others than the producer send to their radio and are suppressed there only.
RadioIsSuppressed == \A n \in Node \ {Producer} : recent[n] \subseteq {Radio}

HopInv ==
  /\ TypeOK
  /\ OwnRequests
  /\ OnlyProducerServesNeighbors
  /\ RadioIsSuppressed
  /\ OneHopOnly

-----------------------------------------------------------------------------
(* Where the strategy lets an Interest go.                                 *)

LEMMA EligibleFaces ==
  ASSUME NEW n \in Node
  PROVE  /\ n # Producer => Eligible(n, App) = {Radio} /\ Eligible(n, Radio) = {}
         /\ n = Producer => Eligible(n, Radio) = {App}
         /\ n # Producer => (isSuppressed(n, Radio) <=> Radio \in recent[n])
  BY LocalhopAssumption DEF Eligible, NextHops, my_wouldViolateScope, isSuppressed

LEMMA HeardType ==
  \A n \in Node : Heard(n) \subseteq Node \X Node /\ \A i \in Heard(n) : i[1] = n
<1> SUFFICES ASSUME NEW n \in Node, NEW i \in Heard(n)
             PROVE  i \in Node \X Node /\ i[1] = n
  OBVIOUS
<1>1. PICK m \in Node : i = <<n, m>>
  BY DEF Heard
<1> QED  BY <1>1

\* What a node does with an Interest of its application.
LEMMA OwnInterest ==
  ASSUME TypeOK, NEW n \in Node, n # Producer, afterReceiveInterest(n, App, interests)
  PROVE  /\ inRecords' = [inRecords EXCEPT ![n] = @ \cup {App}]
         /\ \/ recent' = [recent EXCEPT ![n] = @ \cup {Radio}]
            \/ recent' = recent
         /\ interests' \subseteq interests \cup Heard(n)
<1>1. Eligible(n, App) = {Radio}
  BY EligibleFaces
<1>2. /\ inRecords' = [inRecords EXCEPT ![n] = @ \cup {App}]
      /\ recent' = [recent EXCEPT ![n] = @ \cup ({Radio} \ recent[n])]
      /\ interests' \subseteq interests \cup Heard(n)
  BY <1>1 DEF afterReceiveInterest
<1>3. recent[n] \cup ({Radio} \ recent[n]) = recent[n] \cup {Radio}
  OBVIOUS
<1> QED  BY <1>2, <1>3

\* What a node that is not the producer does with one it hears: it takes its
\* record back, or all of them where nothing is suppressed.
LEMMA OverheardInterest ==
  ASSUME TypeOK, NEW n \in Node, n # Producer, NEW air, afterReceiveInterest(n, Radio, air)
  PROVE  /\ interests' = air
         /\ \/ /\ Radio \in recent[n] /\ recent' = recent
               /\ inRecords' = [inRecords EXCEPT ![n] = @ \ {Radio}]
            \/ /\ Radio \notin recent[n] /\ recent' = [recent EXCEPT ![n] = {}]
               /\ inRecords' = [inRecords EXCEPT ![n] = {}]
  BY EligibleFaces DEF afterReceiveInterest

\* The producer hands it to its application.
LEMMA ProducersInterest ==
  ASSUME TypeOK, NEW air, afterReceiveInterest(Producer, Radio, air)
  PROVE  /\ interests' = air
         /\ inRecords' = [inRecords EXCEPT ![Producer] = @ \cup {Radio}]
         /\ recent' = [recent EXCEPT ![Producer] = @ \cup ({App} \ recent[Producer])]
<1>1. Eligible(Producer, Radio) = {App}
  BY LocalhopAssumption, EligibleFaces
<1> QED  BY <1>1, LocalhopAssumption DEF afterReceiveInterest

-----------------------------------------------------------------------------
(* The invariant.                                                          *)

LEMMA ExpressStep ==
  ASSUME HopInv, NEW n \in Node, Express(n)
  PROVE  HopInv'
<1> USE DEF HopInv, TypeOK, OwnRequests, OnlyProducerServesNeighbors, RadioIsSuppressed,
            OneHopOnly
<1>1. n # Producer /\ asked' = asked \cup {n} /\ UNCHANGED <<cached, data>>
  BY DEF Express
<1>2. CASE n \in cached
  BY <1>1, <1>2 DEF Express
<1>3. CASE n \notin cached
  <2>1. afterReceiveInterest(n, App, interests) /\ answered' = answered
    BY <1>3 DEF Express
  <2>2. /\ inRecords' = [inRecords EXCEPT ![n] = @ \cup {App}]
        /\ \/ recent' = [recent EXCEPT ![n] = @ \cup {Radio}]
           \/ recent' = recent
        /\ interests' \subseteq interests \cup Heard(n)
    BY <1>1, <2>1, OwnInterest
  <2>3. recent' \in [Node -> SUBSET Face] /\ RadioIsSuppressed'
    BY <2>2 DEF Face
  <2>4. inRecords' \in [Node -> SUBSET Face] /\ OnlyProducerServesNeighbors'
    BY <2>2 DEF Face
  <2>5. OwnRequests'
    BY <1>1, <2>2, LocalhopAssumption
  <2>6. interests' \subseteq Node \X Node /\ OneHopOnly'
    BY <1>1, <2>2, HeardType
  <2> QED  BY <1>1, <2>1, <2>3, <2>4, <2>5, <2>6
<1> QED  BY <1>2, <1>3

LEMMA ReceiveInterestStep ==
  ASSUME HopInv, NEW m \in Node, NEW n \in Node, ReceiveInterest(m, n)
  PROVE  HopInv'
<1> USE DEF HopInv, TypeOK, OwnRequests, OnlyProducerServesNeighbors, RadioIsSuppressed,
            OneHopOnly
<1>1. UNCHANGED <<cached, asked, answered>>
  BY DEF ReceiveInterest
<1>2. CASE n \in cached
  <2>1. /\ interests' \subseteq interests /\ data' \subseteq data \cup Heard(n)
        /\ UNCHANGED <<inRecords, recent>>
    BY <1>2 DEF ReceiveInterest
  <2> QED  BY <1>1, <2>1, HeardType
<1>3. CASE n \notin cached
  <2>1. afterReceiveInterest(n, Radio, interests \ {<<m, n>>}) /\ data' = data
    BY <1>3 DEF ReceiveInterest
  <2>2. CASE n # Producer
    <3>1. /\ interests' \subseteq interests
          /\ recent' = recent \/ recent' = [recent EXCEPT ![n] = {}]
          /\ \/ inRecords' = [inRecords EXCEPT ![n] = @ \ {Radio}]
             \/ inRecords' = [inRecords EXCEPT ![n] = {}]
      BY <2>1, <2>2, OverheardInterest
    <3> QED  BY <1>1, <2>1, <3>1
  <2>3. CASE n = Producer
    <3>1. /\ interests' \subseteq interests
          /\ inRecords' = [inRecords EXCEPT ![n] = @ \cup {Radio}]
          /\ recent' = [recent EXCEPT ![n] = @ \cup ({App} \ recent[n])]
      BY <2>1, <2>3, ProducersInterest
    <3> QED  BY <1>1, <2>1, <2>3, <3>1, LocalhopAssumption DEF Face
  <2> QED  BY <2>2, <2>3
<1> QED  BY <1>2, <1>3

LEMMA DataAndTimeStep ==
  ASSUME HopInv,
         \/ Reply
         \/ \E m, n \in Node : ReceiveData(m, n)
         \/ \E n \in Node : IntervalOver(n) \/ Expire(n) \/ GoStale(n)
         \/ UNCHANGED vars
  PROVE  HopInv'
<1> USE DEF HopInv, TypeOK, OwnRequests, OnlyProducerServesNeighbors, RadioIsSuppressed,
            OneHopOnly
<1>1. CASE Reply
  BY <1>1, HeardType, LocalhopAssumption DEF Reply
<1>2. ASSUME NEW m \in Node, NEW n \in Node, ReceiveData(m, n)
      PROVE  HopInv'
  <2>1. /\ data' \subseteq data \cup Heard(n) /\ cached' = cached \cup {n}
        /\ UNCHANGED <<asked, interests>>
        /\ inRecords' = [inRecords EXCEPT ![n] = {}]
        /\ recent' = [recent EXCEPT ![n] = {}]
    BY <1>2 DEF ReceiveData
  <2>2. answered' \subseteq asked
    BY <1>2 DEF ReceiveData
  <2> QED  BY <2>1, <2>2, HeardType
<1>3. ASSUME NEW n \in Node, IntervalOver(n) \/ Expire(n) \/ GoStale(n)
      PROVE  HopInv'
  BY <1>3 DEF IntervalOver, Expire, GoStale
<1>4. CASE UNCHANGED vars
  BY <1>4 DEF vars
<1> QED  BY <1>1, <1>2, <1>3, <1>4

LEMMA HopInvariant == Spec => []HopInv
<1>1. Init => HopInv
  BY DEF Init, HopInv, TypeOK, OwnRequests, OnlyProducerServesNeighbors,
         RadioIsSuppressed, OneHopOnly
<1>2. HopInv /\ [Next]_vars => HopInv'
  BY ExpressStep, ReceiveInterestStep, DataAndTimeStep DEF Next
<1> QED  BY <1>1, <1>2, PTL DEF Spec

\* The state keeps its types: who was answered had asked
\* (localhop-strategy.cpp:58-92).
THEOREM LocalhopTypeCorrect == Spec => []TypeOK
<1>1. HopInv => TypeOK
  BY DEF HopInv
<1> QED  BY <1>1, HopInvariant, PTL

\* OneHopOnly for every topology: the check of the scope takes every Interest
\* of a neighbour off the radio, be it new, repeated or suppressed
\* (localhop-strategy.cpp:32-42, 58-66).
THEOREM InterestsTravelOneHop == Spec => []OneHopOnly
<1>1. HopInv => OneHopOnly
  BY DEF HopInv
<1> QED  BY <1>1, HopInvariant, PTL

\* OnlyProducerServesNeighbors for every topology (localhop-strategy.cpp:58-92).
THEOREM NobodyElseServesNeighbors == Spec => []OnlyProducerServesNeighbors
<1>1. HopInv => OnlyProducerServesNeighbors
  BY DEF HopInv
<1> QED  BY <1>1, HopInvariant, PTL

-----------------------------------------------------------------------------
(* Requests.                                                               *)

LEMMA RequestSpared ==
  ASSUME HopInv, [Next]_vars, NEW n \in Node,
         App \in inRecords[n], App \notin inRecords'[n], recent[n] # {}
  PROVE  n \in answered'
<1>0. /\ n # Producer /\ inRecords \in [Node -> SUBSET Face] /\ TypeOK
      /\ Radio \in recent[n]
  BY DEF HopInv, TypeOK, OwnRequests, RadioIsSuppressed
<1>1. ASSUME NEW m \in Node, Express(m) PROVE FALSE
  <2>1. \/ inRecords' = inRecords
        \/ inRecords' = [inRecords EXCEPT ![m] = @ \cup {App}]
    BY <1>0, <1>1, OwnInterest DEF Express
  <2> QED  BY <1>0, <2>1
<1>2. ASSUME NEW m \in Node, NEW k \in Node, ReceiveInterest(m, k) PROVE FALSE
  <2>1. inRecords' # inRecords
    BY <1>0
  <2>2. afterReceiveInterest(k, Radio, interests \ {<<m, k>>})
    BY <1>2, <2>1 DEF ReceiveInterest
  <2>3. CASE k = Producer
    BY <1>0, <2>2, <2>3, ProducersInterest
  <2>4. CASE k # Producer
    <3>1. \/ /\ Radio \in recent[k]
             /\ inRecords' = [inRecords EXCEPT ![k] = @ \ {Radio}]
          \/ /\ Radio \notin recent[k]
             /\ inRecords' = [inRecords EXCEPT ![k] = {}]
      BY <1>0, <2>2, <2>4, OverheardInterest
    <3> QED  BY <1>0, <3>1, LocalhopAssumption
  <2> QED  BY <2>3, <2>4
<1>3. ASSUME Reply PROVE FALSE
  BY <1>0, <1>3 DEF Reply
<1>4. ASSUME NEW m \in Node, NEW k \in Node, ReceiveData(m, k) PROVE n \in answered'
  BY <1>0, <1>4 DEF ReceiveData
<1>5. ASSUME NEW k \in Node, IntervalOver(k) \/ Expire(k) \/ GoStale(k) PROVE FALSE
  BY <1>0, <1>5 DEF IntervalOver, Expire, GoStale
<1>6. ~UNCHANGED vars
  BY DEF vars
<1> QED  BY <1>1, <1>2, <1>3, <1>4, <1>5, <1>6 DEF Next

\* OverheardSparesRequest for every topology: while an interval of suppression
\* lasts, the own record of a node goes with the answer and with nothing else
\* (localhop-strategy.cpp:60-64, 84-91).
THEOREM RequestsSurviveOverhearing == Spec => OverheardSparesRequest
<1>1. HopInv /\ [Next]_vars =>
        [\A n \in Node :
           (/\ App \in inRecords[n] /\ App \notin inRecords'[n]
            /\ recent[n] # {})
             => n \in answered']_vars
  BY RequestSpared
<1> QED  BY <1>1, HopInvariant, PTL DEF Spec, OverheardSparesRequest
=============================================================================
