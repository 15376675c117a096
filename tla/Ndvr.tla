--------------------------------- MODULE Ndvr ---------------------------------
(***************************************************************************)
(* The NDVR daemon: routers announce size, digest and version of their     *)
(* tables in periodic hellos, and whoever sees a newer version asks for    *)
(* the vector with a DV-Info Interest.  The table itself is that of module *)
(* RoutingTable, the promise that of module DistanceVector.                *)
(*                                                                         *)
(* What is abstracted.  Delays: every scheduled event may fire at any time *)
(* after it was scheduled, so the token that chooses between a short and a *)
(* long backoff chooses nothing here.  The removal timer: a neighbour may  *)
(* be given up at any time.  Loss: a hello that is not handled before the  *)
(* next one replaces it is lost, and an Interest or a Data that is never   *)
(* handled is lost.  Names and TLV: a message is a record of its fields.   *)
(***************************************************************************)
EXTENDS RoutingTable

CONSTANTS
  Node, Link, FaceTo, NamePrefixes, LatePrefixes, MaxSeq,  \* see DistanceVector
  MaxVersion,  \* bound of the table versions
  Lossy        \* whether neighbours go silent, answers come late, checks fail

ASSUME NdvrAssumption ==
  /\ Link \subseteq {l \in Node \X Node : l[1] # l[2]}
  /\ FaceTo \in [Link -> Face]
  /\ NamePrefixes \in [Node -> SUBSET Prefix]
  /\ LatePrefixes \in [Node -> SUBSET Prefix]
  /\ Node \cap Prefix = {}
  /\ IsFiniteSet(Prefix)
  /\ MaxSeq \in Nat \ {0}
  /\ MaxVersion \in Nat \ {0}
  /\ Lossy \in BOOLEAN

VARIABLES
  rt,          \* routing table of each router
  fib,         \* its FIB
  version,     \* m_version of the table
  digest,      \* m_digest of the table, as of the last UpdateDigest
  neighVer,    \* version stored for each neighbour; 0: not in m_neighMap
  dvSched,     \* neighbours with an entry in dvinfointerest_event
  replyEv,     \* version named by the Interest replydvinfo_event captured; 0: none
  hello,       \* hello[n][m]: the last hello of m that n has not handled yet
  interests,   \* DV-Info Interests on their way
  pend,        \* the requests each router waits for (its pending Interests)
  data,        \* every DV-Info Data published: it may be cached and come late
  validating   \* received Data whose signature is being checked

vars == <<rt, fib, version, digest, neighVer, dvSched, replyEv, hello,
          interests, pend, data, validating>>
tableVars == <<rt, fib, version, digest>>
pullVars == <<replyEv, interests, pend, data, validating>>

\* The digest "0" of a table that was never written to is the empty digest.
NoDigest == [p \in Prefix |-> 0]
NoHello == [size |-> 0, digest |-> NoDigest, version |-> 0]

Version == 1..MaxVersion
DigestValue == [Prefix -> 0..MaxSeq]
Hello == [size : Nat, digest : DigestValue, version : Nat]
Request == [to : Node, version : Version]
DvInfo == [from : Node, version : Version, vector : Vector]

TypeOK ==
  /\ rt \in [Node -> Table]
  /\ fib \in [Node -> SUBSET ((Prefix \cup Node) \X Face)]
  /\ version \in [Node -> Version]
  /\ digest \in [Node -> DigestValue]
  /\ neighVer \in [Node -> [Node -> 0..MaxVersion]]
  /\ dvSched \in [Node -> SUBSET Node]
  /\ replyEv \in [Node -> 0..MaxVersion]
  /\ hello \in [Node -> [Node -> Hello]]
  /\ interests \subseteq [from : Node, to : Node, version : Version]
  /\ pend \in [Node -> SUBSET Request]
  /\ data \subseteq DvInfo
  /\ validating \in [Node -> SUBSET DvInfo]

Neighbors(n) == {m \in Node : neighVer[n][m] # 0}

Init ==
  /\ rt = [n \in Node |-> [p \in Prefix |->
             IF p \in NamePrefixes[n] THEN DirectEntry(1) ELSE NoRoute]]
  /\ fib = [n \in Node |-> {}]
  /\ version = [n \in Node |-> 1]
  /\ digest = [n \in Node |-> Digest(rt[n])]
  /\ neighVer = [n \in Node |-> [m \in Node |-> 0]]
  /\ dvSched = [n \in Node |-> {}]
  /\ replyEv = [n \in Node |-> 0]
  /\ hello = [n \in Node |-> [m \in Node |-> NoHello]]
  /\ interests = {}
  /\ pend = [n \in Node |-> {}]
  /\ data = {}
  /\ validating = [n \in Node |-> {}]

-----------------------------------------------------------------------------
(* Hellos.                                                                 *)

\* One hello reaches everyone who hears n.
SendHelloInterest(n) ==
  /\ hello' = [m \in Node |->
       IF <<m, n>> \in Link
         THEN [hello[m] EXCEPT ![n] =
                [size    |-> Cardinality(Known(rt[n])),
                 digest  |-> digest[n],
                 version |-> version[n]]]
         ELSE hello[m]]
  /\ UNCHANGED <<tableVars, neighVer, dvSched, pullVars>>

\* Mutant: a new neighbour is no news.
IsNewsOfKnown(n, m, h) ==
  /\ h.size >= Cardinality(Known(rt[n]))
  /\ neighVer[n][m] # 0 /\ h.version > neighVer[n][m]

\* A version worth looking at: of a new neighbour or newer than the stored
\* one, and of a table that is not smaller than the own.
IsNews(n, m, h) ==
  /\ h.size > 0
  /\ neighVer[n][m] = 0 \/ h.version > neighVer[n][m]
  /\ h.size >= Cardinality(Known(rt[n]))

SameDigest(n, h) == h.digest # NoDigest /\ h.digest = digest[n]

\* One request for each neighbour is scheduled at a time.
SchedDvInfoInterest(n, m) == dvSched' = [dvSched EXCEPT ![n] = @ \cup {m}]

OnHelloInterest(n, m) ==
  LET h == hello[n][m] IN
  /\ h # NoHello
  /\ neighVer' = IF neighVer[n][m] = 0 \/ IsNews(n, m, h)
                   THEN [neighVer EXCEPT ![n][m] = h.version]
                   ELSE neighVer
  /\ fib' = IF neighVer[n][m] = 0
              THEN [fib EXCEPT ![n] = @ \cup {<<m, FaceTo[<<n, m>>]>>}]
              ELSE fib
  /\ IF IsNews(n, m, h) /\ ~SameDigest(n, h)
       THEN SchedDvInfoInterest(n, m)
       ELSE UNCHANGED dvSched
  /\ hello' = [hello EXCEPT ![n][m] = NoHello]
  /\ UNCHANGED <<rt, version, digest, pullVars>>

-----------------------------------------------------------------------------
(* Asking for a vector.                                                    *)

\* Mutant: it asks for the version after the one announced.
SendDvInfoInterestForNext(n, m) ==
  /\ m \in dvSched[n]
  /\ dvSched' = [dvSched EXCEPT ![n] = @ \ {m}]
  /\ LET r == [to |-> m, version |-> neighVer[n][m] + 1] IN
     /\ interests' = interests \cup {[from |-> n, to |-> m, version |-> r.version]}
     /\ pend' = [pend EXCEPT ![n] = @ \cup {r}]
  /\ UNCHANGED <<tableVars, neighVer, replyEv, hello, data, validating>>

\* The scheduled event fires.  It names the version stored by now, and does
\* nothing for a neighbour that was removed in the meantime.
SendDvInfoInterest(n, m) ==
  /\ m \in dvSched[n]
  /\ dvSched' = [dvSched EXCEPT ![n] = @ \ {m}]
  /\ IF neighVer[n][m] = 0
       THEN UNCHANGED <<interests, pend>>
       ELSE /\ interests' = interests \cup
                 {[from |-> n, to |-> m, version |-> neighVer[n][m]]}
            /\ pend' = [pend EXCEPT ![n] = @ \cup
                 {[to |-> m, version |-> neighVer[n][m]]}]
  /\ UNCHANGED <<tableVars, neighVer, replyEv, hello, data, validating>>

\* The Interest is answered by a reply scheduled now, or not at all when a
\* reply is scheduled already.
OnDvInfoInterest(n, i) ==
  /\ i.to = n
  /\ interests' = interests \ {i}
  /\ replyEv' = IF replyEv[n] # 0 THEN replyEv ELSE [replyEv EXCEPT ![n] = i.version]
  /\ UNCHANGED <<tableVars, neighVer, dvSched, hello, pend, data, validating>>

\* The Data has the name of the captured Interest and the table of now.
ReplyDvInfoInterest(n) ==
  /\ replyEv[n] # 0
  /\ data' = data \cup {[from |-> n, version |-> replyEv[n],
                         vector |-> EncodeDvInfo(rt[n])]}
  /\ replyEv' = [replyEv EXCEPT ![n] = 0]
  /\ UNCHANGED <<tableVars, neighVer, dvSched, hello, interests, pend, validating>>

RequestOf(d) == [to |-> d.from, version |-> d.version]

\* The Data satisfies the pending Interest of its name; its signature is
\* handed to the validator, which calls back.
OnDvInfoContent(n, d) ==
  /\ RequestOf(d) \in pend[n]
  /\ pend' = [pend EXCEPT ![n] = @ \ {RequestOf(d)}]
  /\ validating' = [validating EXCEPT ![n] = @ \cup {d}]
  /\ UNCHANGED <<tableVars, neighVer, dvSched, replyEv, hello, interests, data>>

\* Nothing under way will answer r.
Unanswered(n, r) ==
  /\ [from |-> n, to |-> r.to, version |-> r.version] \notin interests
  /\ replyEv[r.to] # r.version
  /\ ~\E d \in data : RequestOf(d) = r

\* Expired or refused by a Nack: either way the handler does nothing.
OnDvInfoTimedOut(n, r) ==
  /\ Lossy \/ Unanswered(n, r)
  /\ pend' = [pend EXCEPT ![n] = @ \ {r}]
  /\ UNCHANGED <<tableVars, neighVer, dvSched, replyEv, hello, interests, data,
                 validating>>

-----------------------------------------------------------------------------
(* The answer.                                                             *)

\* Mutant: whether the sender still is a neighbour is not looked up again.
OnValidatedDvInfoOfAnyone(n, d) ==
  LET face == FaceTo[<<n, d.from>>]
      merged == MergeTable(rt[n], d.vector, face)
      changed == HasChanged(rt[n], d.vector, face) IN
  /\ d \in validating[n]
  /\ validating' = [validating EXCEPT ![n] = @ \ {d}]
  /\ rt' = [rt EXCEPT ![n] = merged]
  /\ fib' = [fib EXCEPT ![n] = MergeFib(@, rt[n], d.vector, face)]
  /\ changed => version[n] < MaxVersion
  /\ version' = [version EXCEPT ![n] = IF changed THEN @ + 1 ELSE @]
  /\ digest' = [digest EXCEPT ![n] = IF changed THEN Digest(merged) ELSE @]
  /\ UNCHANGED <<neighVer, dvSched, replyEv, hello, interests, pend, data>>

OnValidatedDvInfo(n, d) ==
  /\ d \in validating[n]
  /\ validating' = [validating EXCEPT ![n] = @ \ {d}]
  /\ IF neighVer[n][d.from] = 0
       THEN UNCHANGED tableVars
       ELSE LET face == FaceTo[<<n, d.from>>]
                merged == MergeTable(rt[n], d.vector, face)
                changed == HasChanged(rt[n], d.vector, face) IN
            /\ rt' = [rt EXCEPT ![n] = merged]
            /\ fib' = [fib EXCEPT ![n] = MergeFib(@, rt[n], d.vector, face)]
            /\ changed => version[n] < MaxVersion
            /\ version' = [version EXCEPT ![n] = IF changed THEN @ + 1 ELSE @]
            /\ digest' = [digest EXCEPT ![n] = IF changed THEN Digest(merged) ELSE @]
  /\ UNCHANGED <<neighVer, dvSched, replyEv, hello, interests, pend, data>>

OnDvInfoValidationFailed(n, d) ==
  /\ Lossy
  /\ d \in validating[n]
  /\ validating' = [validating EXCEPT ![n] = @ \ {d}]
  /\ UNCHANGED <<tableVars, neighVer, dvSched, replyEv, hello, interests, pend, data>>

-----------------------------------------------------------------------------
(* Neighbours that went silent, and prefixes that come up.                 *)

\* No new version, no new digest, no change of the FIB: only the table.
RemoveNeighbor(n, m) ==
  LET left == WithdrawTable(rt[n], FaceTo[<<n, m>>]) IN
  /\ Lossy
  /\ neighVer[n][m] # 0
  /\ \A p \in Known(left) : left[p].seq <= MaxSeq
  /\ rt' = [rt EXCEPT ![n] = left]
  /\ neighVer' = [neighVer EXCEPT ![n][m] = 0]
  /\ UNCHANGED <<fib, version, digest, dvSched, hello, pullVars>>

AdvNamePrefix(n, p) ==
  /\ p \in LatePrefixes[n]
  /\ version[n] < MaxVersion
  /\ rt' = [rt EXCEPT ![n] = Insert(@, p, DirectEntry(1))]
  /\ digest' = [digest EXCEPT ![n] = Digest(rt'[n])]
  /\ version' = [version EXCEPT ![n] = @ + 1]
  /\ UNCHANGED <<fib, neighVer, dvSched, hello, pullVars>>

Next ==
  \/ \E n \in Node : SendHelloInterest(n)
  \/ \E n, m \in Node : OnHelloInterest(n, m)
  \/ \E n, m \in Node : SendDvInfoInterest(n, m)
  \/ \E n \in Node, i \in interests : OnDvInfoInterest(n, i)
  \/ \E n \in Node : ReplyDvInfoInterest(n)
  \/ \E n \in Node, d \in data : OnDvInfoContent(n, d)
  \/ \E n \in Node : \E r \in pend[n] : OnDvInfoTimedOut(n, r)
  \/ \E n \in Node, d \in data : OnValidatedDvInfo(n, d)
  \/ \E n \in Node, d \in data : OnDvInfoValidationFailed(n, d)
  \/ \E n, m \in Node : RemoveNeighbor(n, m)
  \/ \E n \in Node, p \in Prefix : AdvNamePrefix(n, p)

Spec == Init /\ [][Next]_vars

\* Timers fire, links deliver and validation ends: hellos are sent again and
\* again, and no message waits for ever.
Fairness ==
  /\ \A n \in Node : WF_vars(SendHelloInterest(n)) /\ WF_vars(ReplyDvInfoInterest(n))
  /\ \A n, m \in Node : WF_vars(OnHelloInterest(n, m)) /\ WF_vars(SendDvInfoInterest(n, m))
  /\ \A n \in Node : WF_vars(\E i \in interests : OnDvInfoInterest(n, i))
  /\ \A n \in Node : WF_vars(\E d \in data : OnDvInfoContent(n, d))
  /\ \A n \in Node : WF_vars(\E d \in data : OnValidatedDvInfo(n, d))

FairSpec == Spec /\ Fairness

-----------------------------------------------------------------------------
(* Properties.                                                             *)

\* The daemon keeps the promise of DistanceVector: whatever the hellos, the
\* grouped replies, the caches and the late validations do to the order of
\* events, tables and FIBs change only as merging published vectors allows.
DV == INSTANCE DistanceVector WITH
        nbrs <- [n \in Node |-> Neighbors(n)],
        adverts <- {[from |-> d.from, vector |-> d.vector] : d \in data}
Implements == DV!Spec

\* Through DistanceVector the daemon gives those who forward Interests what
\* module Forwarding promises them: routes that change at one router at a time,
\* are not taken away again, and lead without circles to a router that serves
\* the prefix (ndvr.cpp:286-322, 722-805, 822-840).
ImplementsForwarding == DV!ImplementsForwarding

\* What m has learned and n would still take over.
Missing(n, m) == Adopted(rt[n], EncodeDvInfo(rt[m]))

\* n is about to ask m, has asked, is checking the answer, or has the next
\* hello of m still to come.
Busy(n, m) ==
  \/ m \in dvSched[n]
  \/ \E r \in pend[n] : r.to = m
  \/ \E d \in validating[n] : d.from = m
  \/ version[m] > neighVer[n][m]

\* A router that has recorded the current version of a neighbour and has
\* nothing under way has all the neighbour had to tell: recording the version
\* before the vector arrives loses no update (ndvr.cpp:511-528, 654-682).
QuietMeansSynced ==
  \A n, m \in Node : <<n, m>> \in Link /\ ~Busy(n, m) => Missing(n, m) = {}

\* The digest stands for the prefixes of the table, and for sequence numbers
\* that are never ahead of it, though RemoveNeighbor leaves it behind
\* (routing-table.cpp:61-92, ndvr.cpp:286-322).
DigestLagsTable ==
  \A n \in Node, p \in Prefix :
    IF LookupRoute(rt[n], p) THEN digest[n][p] \in 1..rt[n][p].seq
                             ELSE digest[n][p] = 0

\* What a router records or asks for is a version its neighbour has reached,
\* and a vector names one its publisher has reached (ndvr.cpp:361-388, 552-565).
VersionsWereReached ==
  /\ \A n, m \in Node : neighVer[n][m] <= version[m]
  /\ \A n \in Node : replyEv[n] <= version[n]
  /\ \A n \in Node : \A r \in pend[n] : r.version <= version[r.to]
  /\ \A d \in data : d.version <= version[d.from]

\* Every router ends up with a usable route for every prefix that is announced
\* anywhere, and keeps it. One prefix gets there; with several, an Interest
\* dropped as a duplicate may be the only one for its version (ndvr.cpp:543-545).
Announced == UNION {NamePrefixes[n] : n \in Node}
Converges ==
  <>[](\A n \in Node, p \in Announced :
         LookupRoute(rt[n], p) /\ isValidCost(rt[n][p].cost))

-----------------------------------------------------------------------------
(* What comments of the code say, and the code does not do.                *)

\* "Same digest, so there was no change!" (ndvr.cpp:515-518): a router with
\* the digest of its neighbour has nothing to take over from it.
SameDigestMeansNoChange ==
  \A n, m \in Node :
    <<n, m>> \in Link /\ digest[n] = digest[m] /\ digest[n] # NoDigest
      => Missing(n, m) = {}
=============================================================================
