--------------------------- MODULE LocalhopStrategy ---------------------------
(***************************************************************************)
(* The forwarders of routers on one radio channel, for one name under      *)
(* /localhop, say that of a DV-Info: LocalhopStrategy decides where an     *)
(* Interest goes and which PIT records it leaves, and the admission policy *)
(* caches Data that nobody asked for.                                      *)
(*                                                                         *)
(* External, as NFD does it: records are made before the strategy is       *)
(* called, Data satisfies all of them, a rejected entry is erased, the     *)
(* content store answers first, and a face that an Interest was sent to is *)
(* suppressed until an interval has passed.                                *)
(***************************************************************************)
EXTENDS FiniteSets

CONSTANTS
  Node,
  Link,      \* <<n, m>>: n hears m
  Producer,  \* whose application serves the name
  App,       \* the face of the application, which is local
  Radio      \* the face of the radio device, an ad hoc link

Face == {App, Radio}

ASSUME LocalhopAssumption ==
  /\ Link \subseteq {l \in Node \X Node : l[1] # l[2]}
  /\ Producer \in Node
  /\ App # Radio

VARIABLES
  inRecords,   \* faces with an in-record in the PIT entry; {}: no entry
  recent,      \* faces that retransmissions are suppressed on
  cached,      \* the nodes whose content store holds the Data
  asked,       \* nodes whose application has expressed the Interest
  answered,    \* those whose application got the Data
  interests,   \* <<from, to>>: the Interest on the air
  data         \* the Data on the air

vars == <<inRecords, recent, cached, asked, answered, interests, data>>

TypeOK ==
  /\ inRecords \in [Node -> SUBSET Face]
  /\ recent \in [Node -> SUBSET Face]
  /\ cached \subseteq Node
  /\ answered \subseteq asked
  /\ asked \subseteq Node
  /\ interests \subseteq Node \X Node
  /\ data \subseteq Node \X Node

Init ==
  /\ inRecords = [n \in Node |-> {}]
  /\ recent = [n \in Node |-> {}]
  /\ cached = {}
  /\ asked = {}
  /\ answered = {}
  /\ interests = {}
  /\ data = {}

\* What n sends on the radio reaches everyone who hears n.
Heard(n) == {<<n, m>> : m \in {m \in Node : <<m, n>> \in Link}}

\* The application registers its own name, which is longer than that of the
\* devices.
NextHops(n) == IF n = Producer THEN {App} ELSE {Radio}

\* Mutant: as the strategy it was taken from, which lets everything pass.
violatesNothing(in, out) == FALSE

\* To a local face always; to another one only from a local face.
my_wouldViolateScope(in, out) == out # App /\ in # App

\* An ad hoc face may send back what it received.
Eligible(n, in) ==
  {out \in NextHops(n) : (out = in => out = Radio) /\ ~my_wouldViolateScope(in, out)}

\* Mutant: only faces that the Interest may leave on are looked at.
SuppressedEligible(n, in) == Eligible(n, in) \cap recent[n] # {}

\* Faces that may not be used count as well.
isSuppressed(n, in) == NextHops(n) \cap recent[n] # {}

\* The strategy, for an Interest that missed the store, with air left of the
\* Interests on the air.
afterReceiveInterest(n, in, air) ==
  \/ /\ Eligible(n, in) # {}
     /\ LET out == Eligible(n, in) \ recent[n] IN
        /\ recent' = [recent EXCEPT ![n] = @ \cup out]
        /\ interests' = air \cup (IF Radio \in out THEN Heard(n) ELSE {})
     /\ inRecords' = [inRecords EXCEPT ![n] = @ \cup {in}]
  \* deleteInRecord
  \/ /\ Eligible(n, in) = {} /\ isSuppressed(n, in)
     /\ inRecords' = [inRecords EXCEPT ![n] = @ \ {in}]
     /\ interests' = air
     /\ UNCHANGED recent
  \* rejectPendingInterest
  \/ /\ Eligible(n, in) = {} /\ ~isSuppressed(n, in)
     /\ inRecords' = [inRecords EXCEPT ![n] = {}]
     /\ interests' = air
     /\ recent' = [recent EXCEPT ![n] = {}]

Express(n) ==
  /\ n \notin asked /\ n # Producer
  /\ asked' = asked \cup {n}
  /\ IF n \in cached
       THEN /\ answered' = answered \cup {n}
            /\ UNCHANGED <<inRecords, recent, interests>>
       ELSE afterReceiveInterest(n, App, interests) /\ UNCHANGED answered
  /\ UNCHANGED <<cached, data>>

\* The Interest of m arrives at n.
ReceiveInterest(m, n) ==
  /\ <<m, n>> \in interests
  /\ IF n \in cached
       THEN /\ interests' = interests \ {<<m, n>>}
            /\ data' = data \cup Heard(n)
            /\ UNCHANGED <<inRecords, recent>>
       ELSE /\ afterReceiveInterest(n, Radio, interests \ {<<m, n>>})
            /\ UNCHANGED data
  /\ UNCHANGED <<cached, asked, answered>>

\* The producer's application answers what reached it.
Reply ==
  /\ inRecords[Producer] # {}
  /\ data' = data \cup Heard(Producer)
  /\ cached' = cached \cup {Producer}
  /\ inRecords' = [inRecords EXCEPT ![Producer] = {}]
  /\ recent' = [recent EXCEPT ![Producer] = {}]
  /\ UNCHANGED <<asked, answered, interests>>

\* Mutant: Data goes to the application whether it asked or not.
ReceiveDataAnyway(m, n) ==
  /\ <<m, n>> \in data
  /\ data' = data \ {<<m, n>>}
  /\ answered' = answered \cup {n}
  /\ cached' = cached \cup {n}
  /\ inRecords' = [inRecords EXCEPT ![n] = {}]
  /\ recent' = [recent EXCEPT ![n] = {}]
  /\ UNCHANGED <<asked, interests>>

\* decide: what was not asked for is cached like the rest.
ReceiveData(m, n) ==
  /\ <<m, n>> \in data
  /\ data' = (data \ {<<m, n>>}) \cup (IF Radio \in inRecords[n] THEN Heard(n) ELSE {})
  /\ answered' = IF App \in inRecords[n] THEN answered \cup {n} ELSE answered
  /\ cached' = cached \cup {n}
  /\ inRecords' = [inRecords EXCEPT ![n] = {}]
  /\ recent' = [recent EXCEPT ![n] = {}]
  /\ UNCHANGED <<asked, interests>>

\* Time: an interval of suppression ends; an entry expires, which takes four
\* times the longest interval; cached Data is no longer fresh.
IntervalOver(n) ==
  /\ recent[n] # {}
  /\ recent' = [recent EXCEPT ![n] = {}]
  /\ UNCHANGED <<inRecords, cached, asked, answered, interests, data>>

Expire(n) ==
  /\ inRecords[n] # {} /\ recent[n] = {}
  /\ inRecords' = [inRecords EXCEPT ![n] = {}]
  /\ UNCHANGED <<recent, cached, asked, answered, interests, data>>

GoStale(n) ==
  /\ n \in cached
  /\ cached' = cached \ {n}
  /\ UNCHANGED <<inRecords, recent, asked, answered, interests, data>>

Next ==
  \/ \E n \in Node : Express(n)
  \/ \E m, n \in Node : ReceiveInterest(m, n)
  \/ Reply
  \/ \E m, n \in Node : ReceiveData(m, n)
  \/ \E n \in Node : IntervalOver(n)
  \/ \E n \in Node : Expire(n)
  \/ \E n \in Node : GoStale(n)

Spec == Init /\ [][Next]_vars

-----------------------------------------------------------------------------
(* Properties.                                                             *)

\* A localhop Interest travels one hop: whoever sends it on the air is a node
\* whose own application asked (localhop-strategy.cpp:32-42, 58-66).
OneHopOnly == \A i \in interests : i[1] \in asked

\* An Interest of a neighbour for the same name does not cost the own
\* application its request while the interval of suppression lasts: only the
\* in-record of the neighbour goes (localhop-strategy.cpp:60-64, 84-91).
OverheardSparesRequest ==
  [][\A n \in Node :
       (/\ App \in inRecords[n] /\ App \notin inRecords'[n]
        /\ recent[n] # {})
         => n \in answered']_vars

\* Routers do not act for each other under /localhop: nobody but the producer
\* is left with an in-record of a neighbour, whatever the order of requests,
\* suppression and expiry (localhop-strategy.cpp:58-92).
OnlyProducerServesNeighbors ==
  \A n \in Node \ {Producer} : inRecords[n] \subseteq {App}
=============================================================================
