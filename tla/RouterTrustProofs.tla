--------------------------- MODULE RouterTrustProofs ---------------------------
(***************************************************************************)
(* A data signing key signs and lives no longer than its limits and one    *)
(* interval between checks allow; a router's vectors are never refused by  *)
(* the rules and cost at most two certificates: for any number of keys and *)
(* whatever the limits and the interval are.                               *)
(***************************************************************************)
EXTENDS RouterTrust, SequenceTheorems, TLAPS

\* What holds of a key in use: the time to the next check is what its age
\* may still grow by.
KeyInv ==
  running /\ enableDSK =>
    /\ hasKey
    /\ checkIn \in 0..CheckInterval
    /\ maxSecs # 0 => age < maxSecs + CheckInterval - checkIn
    /\ maxSize # 0 => amount < maxSize + sinceCheck

-----------------------------------------------------------------------------
(* SigningKey: types.                                                      *)

\* A daemon about to start.
LEMMA TypeInit == Init => TypeOK
<1>1. Init => enableDSK \in BOOLEAN /\ hasKey \in BOOLEAN /\ running \in BOOLEAN
  BY DEF Init
<1>2. Init => maxSecs \in SecsLimits /\ maxSize \in SizeLimits
  BY DEF Init
<1>3. Init => amount \in 0..MaxAmount /\ age \in 0..MaxAge /\ sinceCheck \in 0..MaxAmount
  BY SigningKeyAssumption DEF Init
<1>4. Init => checkIn \in 0..CheckInterval \cup {-1}
  BY SigningKeyAssumption DEF Init
<1>5. QED
  BY <1>1, <1>2, <1>3, <1>4 DEF TypeOK

\* No step leaves the types, whatever the limits, intervals and sizes are.
LEMMA TypeStep == TypeOK /\ [Next]_vars => TypeOK'
<1> SUFFICES ASSUME TypeOK, [Next]_vars PROVE TypeOK'
  OBVIOUS
<1> USE SigningKeyAssumption DEF TypeOK
<1>1. CASE ManageSigningInfo
  <2>1. maxSecs' \in SecsLimits /\ maxSize' \in SizeLimits /\ sinceCheck' \in 0..MaxAmount
    BY <1>1 DEF ManageSigningInfo
  <2>2. enableDSK' \in BOOLEAN /\ running' \in BOOLEAN /\ hasKey' \in BOOLEAN
    BY <1>1, Zenon DEF ManageSigningInfo, createDSK
  <2>3. amount' \in 0..MaxAmount /\ age' \in 0..MaxAge
    BY <1>1 DEF ManageSigningInfo, createDSK
  <2>4. checkIn' \in 0..CheckInterval \cup {-1}
    BY <1>1 DEF ManageSigningInfo
  <2>5. QED
    BY <2>1, <2>2, <2>3, <2>4
<1>2. ASSUME NEW size \in Sizes, ReplyDvInfoInterest(size) PROVE TypeOK'
  BY <1>2 DEF ReplyDvInfoInterest
<1>3. CASE Tick
  BY <1>3 DEF Tick
<1>4. CASE UNCHANGED vars
  BY <1>4 DEF vars
<1>5. QED
  BY <1>1, <1>2, <1>3, <1>4 DEF Next

\* The daemon's key state keeps its types (ndvr.hpp:285-295).
THEOREM SigningKeyTypeCorrect == Spec => []TypeOK
  BY TypeInit, TypeStep, PTL DEF Spec

-----------------------------------------------------------------------------
(* SigningKey: limits.                                                     *)

\* A check leaves a key within its limits; between checks the age grows by
\* what the timer loses, and the amount by what sinceCheck counts.
LEMMA KeyStep == TypeOK /\ KeyInv /\ [Next]_vars => KeyInv'
<1> SUFFICES ASSUME TypeOK, KeyInv, [Next]_vars PROVE KeyInv'
  OBVIOUS
<1>1. CASE ManageSigningInfo
  <2> SUFFICES ASSUME enableDSK' PROVE KeyInv'
    BY DEF KeyInv
  <2>1. enableDSK /\ checkIn' = CheckInterval /\ sinceCheck' = 0
        /\ maxSecs' = maxSecs /\ maxSize' = maxSize
    BY <1>1 DEF ManageSigningInfo
  <2>2. CASE NeedsNewKey
    <3>1. hasKey' = TRUE /\ amount' = 0 /\ age' = 0
      BY <1>1, <2>1, <2>2 DEF ManageSigningInfo, createDSK
    <3>2. QED
      BY <2>1, <3>1, SigningKeyAssumption DEF KeyInv, TypeOK
  <2>3. CASE ~NeedsNewKey
    <3>1. hasKey' = hasKey /\ amount' = amount /\ age' = age
      BY <1>1, <2>1, <2>3 DEF ManageSigningInfo
    <3>2. hasKey /\ (maxSize # 0 => amount < maxSize) /\ (maxSecs # 0 => age < maxSecs)
      BY <2>3, SigningKeyAssumption DEF NeedsNewKey, SignedTooMuch, IsTooOld, TypeOK
    <3>3. QED
      BY <2>1, <3>1, <3>2, SigningKeyAssumption DEF KeyInv, TypeOK
  <2>4. QED
    BY <2>2, <2>3
<1>2. ASSUME NEW size \in Sizes, ReplyDvInfoInterest(size) PROVE KeyInv'
  BY <1>2, SigningKeyAssumption DEF ReplyDvInfoInterest, KeyInv, TypeOK
<1>3. CASE Tick
  BY <1>3, SigningKeyAssumption DEF Tick, KeyInv, TypeOK
<1>4. CASE UNCHANGED vars
  BY <1>4 DEF vars, KeyInv
<1>5. QED
  BY <1>1, <1>2, <1>3, <1>4 DEF Next

\* KeyInv is inductive together with the types.
LEMMA KeyInvariant == Spec => [](TypeOK /\ KeyInv)
<1>1. Init => KeyInv
  BY DEF Init, KeyInv
<1>2. QED
  BY <1>1, TypeInit, TypeStep, KeyStep, PTL DEF Spec

\* A key signs less than its limit and what was signed since the last check
\* (ndvr.cpp:160-168).
THEOREM KeyAmountIsLimited == Spec => []AmountIsLimited
<1>1. KeyInv => AmountIsLimited
  BY DEF KeyInv, AmountIsLimited
<1>2. QED
  BY <1>1, KeyInvariant, PTL

\* A key is younger than its limit and one interval (ndvr.cpp:163-168).
THEOREM KeyAgeIsLimited == Spec => []AgeIsLimited
<1>1. TypeOK /\ KeyInv => AgeIsLimited
  BY SigningKeyAssumption DEF TypeOK, KeyInv, AgeIsLimited
<1>2. QED
  BY <1>1, KeyInvariant, PTL

-----------------------------------------------------------------------------
(* RouterTrust: certificates and chains.                                   *)

NACertificate == [kind |-> "NA", signer |-> NetworkKey]
DSKCertificate == [kind |-> "DSK", signer |-> KSK]

Certified(k) == k \in RouterKey /\ cert[k] # NoKey

\* The key hierarchy: data keys are certified by the KSK, the KSK by the
\* network, and every key that something was signed with has a certificate.
CertInv ==
  /\ hasKey => current # NoKey
  /\ cert[KSK] = NetworkKey
  /\ \A k \in DSK : cert[k] \in {KSK, NoKey}
  /\ current # NoKey => Certified(current)
  /\ flight # NoKey => Certified(flight)

\* A chain is a vector, the certificate of its data key if it has one, and
\* that of the KSK.
ChainInv ==
  /\ Len(chain) <= 3
  /\ chain # <<>> => chain[1].kind = "DvInfo" /\ Certified(chain[1].signer)
  /\ Len(chain) >= 2 =>
       chain[2] = IF chain[1].signer = KSK THEN NACertificate ELSE DSKCertificate
  /\ Len(chain) = 3 => chain[1].signer # KSK /\ chain[3] = NACertificate

AskInv ==
  asked # NoKey => chain # <<>> /\ asked = chain[Len(chain)].signer

TrustInv == TrustTypeOK /\ CertInv /\ ChainInv /\ AskInv

-----------------------------------------------------------------------------
(* The rules and the chain.                                                *)

\* Of the rules that overlap, a data key's certificate falls to the second.
LEMMA RulesInOrder ==
  RuleFor("DvInfo") = 1 /\ RuleFor("DSK") = 2 /\ RuleFor("NA") = 3
<1> DEFINE fits(kind, r) == /\ kind \in Rules[r].filter
                            /\ \A s \in 1..(r - 1) : kind \notin Rules[s].filter
<1>1. /\ Rules[1].filter = {"DvInfo"}
      /\ Rules[2].filter = {"DSK"}
      /\ Rules[3].filter = {"DSK", "NA"}
  BY DEF Rules
<1>2. \A r \in 1..3 : r = 1 \/ r = 2 \/ r = 3
  OBVIOUS
<1>3. \A r \in 1..3 : fits("DvInfo", r) <=> r = 1
  BY <1>1, <1>2
<1>4. \A r \in 1..3 : fits("DSK", r) <=> r = 2
  BY <1>1, <1>2
<1>5. \A r \in 1..3 : fits("NA", r) <=> r = 3
  BY <1>1, <1>2
<1> QED  BY <1>3, <1>4, <1>5 DEF RuleFor

LEMMA RulesAllow ==
  ASSUME NEW k \in RouterKey
  PROVE  /\ Allows([kind |-> "DvInfo", signer |-> k])
         /\ Allows([kind |-> "DSK", signer |-> k])
         /\ Allows(NACertificate)
<1>1. Rules[1].signers = RouterKey /\ Rules[2].signers = RouterKey
      /\ Rules[3].signers = {NetworkKey}
  BY DEF Rules
<1> QED  BY <1>1, RulesInOrder DEF Allows, NACertificate

LEMMA ChainShape ==
  ASSUME TrustInv
  PROVE  /\ chain \in Seq(Packet) /\ Len(chain) \in 0..3
         /\ DOMAIN chain = 1..Len(chain)
         /\ chain # <<>> => Len(chain) # 0 /\ chain[1] \in Packet
<1>1. chain \in Seq(Packet) /\ Len(chain) <= 3
  BY DEF TrustInv, TrustTypeOK, ChainInv
<1>2. /\ Len(chain) \in Nat /\ DOMAIN chain = 1..Len(chain)
      /\ \A i \in 1..Len(chain) : chain[i] \in Packet
  BY <1>1, LenProperties, ElementOfSeq
<1>3. chain # <<>> => Len(chain) # 0
  BY <1>1, EmptySeq
<1> QED  BY <1>1, <1>2, <1>3

\* Nobody but the vector's signer, the KSK and the network signs in a chain,
\* and the network signs last.
LEMMA ChainSigners ==
  ASSUME TrustInv, NEW i \in DOMAIN chain
  PROVE  /\ chain[i].signer \in {chain[1].signer, KSK, NetworkKey}
         /\ i < Len(chain) => chain[i].signer \in RouterKey
<1>1. Len(chain) \in 0..3 /\ i \in 1..Len(chain) /\ chain # <<>>
  BY ChainShape, EmptySeq
<1>2. CASE i = 1
  BY <1>1, <1>2 DEF TrustInv, ChainInv, Certified
<1>3. CASE i = 2
  <2>1. chain[2] = NACertificate \/ chain[2] = DSKCertificate
    BY <1>1, <1>3 DEF TrustInv, ChainInv
  <2>2. Len(chain) = 3 => chain[2] = DSKCertificate
    BY DEF TrustInv, ChainInv
  <2>3. KSK \in RouterKey
    BY DEF RouterKey
  <2>4. chain[2].signer \in {KSK, NetworkKey}
    BY <2>1 DEF NACertificate, DSKCertificate
  <2>5. Len(chain) = 3 => chain[2].signer = KSK
    BY <2>2 DEF DSKCertificate
  <2>6. chain[i].signer = chain[2].signer
    BY <1>3, Zenon
  <2>7. i < Len(chain) => Len(chain) = 3
    BY <1>3, ChainShape
  <2> QED  BY <2>3, <2>4, <2>5, <2>6, <2>7
<1>4. CASE i = 3
  BY <1>1, <1>4 DEF TrustInv, ChainInv, NACertificate
<1> QED  BY <1>1, <1>2, <1>3, <1>4

\* The last packet of a chain is allowed, and whoever signed it is the
\* network or has a certificate, which is the one the chain wants next.
LEMMA ChainEnd ==
  ASSUME TrustInv, chain # <<>>
  PROVE  /\ Last(chain) = chain[Len(chain)]
         /\ Allows(Last(chain))
         /\ Last(chain).signer # NetworkKey =>
              /\ Certified(Last(chain).signer)
              /\ \/ Len(chain) = 1
                 \/ Len(chain) = 2 /\ Last(chain).signer = KSK
<1> DEFINE s == chain[1].signer
<1>1. /\ chain \in Seq(Packet) /\ Len(chain) \in 1..3
      /\ chain[1] = [kind |-> "DvInfo", signer |-> s] /\ Certified(s)
  <2>1. chain \in Seq(Packet) /\ chain[1] \in Packet /\ Len(chain) \in 1..3
    BY ChainShape
  <2> QED  BY <2>1 DEF Packet, TrustInv, ChainInv
<1>2. Last(chain) = chain[Len(chain)]
  BY DEF Last
<1>3. CASE Len(chain) = 1
  <2>1. s \in RouterKey
    BY <1>1 DEF Certified
  <2>2. Allows(chain[1])
    BY <1>1, <2>1, RulesAllow
  <2> QED  BY <1>1, <1>2, <1>3, <2>2
<1>4. CASE Len(chain) = 2 /\ s # KSK
  <2>1. chain[2] = DSKCertificate
    BY <1>4 DEF TrustInv, ChainInv
  <2>2. KSK \in RouterKey /\ cert[KSK] # NoKey
    BY RouterTrustAssumption DEF TrustInv, CertInv, RouterKey, Key
  <2>3. Allows(DSKCertificate)
    BY <2>2, RulesAllow DEF DSKCertificate
  <2> QED  BY <1>2, <1>4, <2>1, <2>2, <2>3 DEF Certified, DSKCertificate
<1>5. CASE Len(chain) = 3 \/ (Len(chain) = 2 /\ s = KSK)
  <2>1. chain[Len(chain)] = NACertificate
    BY <1>5 DEF TrustInv, ChainInv
  <2>2. Allows(NACertificate) /\ NACertificate.signer = NetworkKey
    BY <1>1, RulesAllow DEF Certified, NACertificate
  <2> QED  BY <1>2, <2>1, <2>2
<1> QED  BY <1>1, <1>3, <1>4, <1>5

-----------------------------------------------------------------------------
(* The invariant.                                                          *)

\* The router's key state moves as in SigningKey.
LEMMA KeyStepOfTrust == [TrustNext]_allVars => [Next]_vars
  BY DEF TrustNext, Manage, Sign, OnKeyInterest, OnDvInfoContent, Validation,
         OnValidatedDvInfo, RequestCertificate, OnDvInfoValidationFailed, Ends, Forget,
         Next, allVars, keyVars

LEMMA TrustInitInv == TrustInit => TrustInv /\ OnlyLossRefuses
<1> SUFFICES ASSUME TrustInit PROVE TrustInv /\ OnlyLossRefuses
  OBVIOUS
<1>1. cert \in [RouterKey -> Key \cup {NoKey}] /\ cert[KSK] = NetworkKey
      /\ \A k \in DSK : cert[k] = NoKey
  BY RouterTrustAssumption DEF TrustInit, setupSigningInfo, RouterKey, Key
<1>2. TypeOK /\ ~running /\ ~hasKey
  BY TypeInit DEF TrustInit, Init
<1>3. chain = <<>> /\ chain \in Seq(Packet) /\ Len(chain) = 0
  BY EmptySeq DEF TrustInit
<1>4. TrustTypeOK
  BY <1>1, <1>2, <1>3 DEF TrustInit, TrustTypeOK
<1> QED
  BY <1>1, <1>2, <1>3, <1>4
     DEF TrustInit, TrustInv, CertInv, ChainInv, AskInv, OnlyLossRefuses

\* A new key's name is one that nothing speaks of.
LEMMA FreshName ==
  ASSUME TrustInv
  PROVE  LET k == CHOOSE k \in DSK : k \notin InUse IN k \in DSK /\ k \notin InUse
<1> DEFINE f == IF flight \in DSK THEN flight ELSE NoKey
           s == IF chain # <<>> /\ chain[1].signer \in DSK THEN chain[1].signer
                                                          ELSE NoKey
<1>1. current \in DSK \cup {NoKey} /\ f \in DSK \cup {NoKey} /\ s \in DSK \cup {NoKey}
  BY DEF TrustInv, TrustTypeOK
<1>2. PICK k \in DSK : k \notin {current, f, s}
  BY <1>1, RouterTrustAssumption
<1>3. k # current /\ k # flight
  BY <1>2
<1>4. ASSUME NEW i \in DOMAIN chain PROVE chain[i].signer # k
  <2>1. chain # <<>>
    BY <1>4, ChainShape, EmptySeq
  <2>2. k # chain[1].signer /\ k # KSK /\ k # NetworkKey
    BY <1>2, <2>1, RouterTrustAssumption DEF RouterKey
  <2> QED  BY <1>4, <2>2, ChainSigners
<1>5. k # asked
  <2>1. CASE asked = NoKey
    BY <2>1, RouterTrustAssumption DEF Key, RouterKey
  <2>2. CASE asked # NoKey
    <3>1. chain \in Seq(Packet) /\ chain # <<>> /\ asked = chain[Len(chain)].signer
      BY <2>2 DEF TrustInv, TrustTypeOK, AskInv
    <3>2. Len(chain) \in DOMAIN chain
      BY <3>1, LenProperties, EmptySeq
    <3> QED  BY <1>4, <3>1, <3>2
  <2> QED  BY <2>1, <2>2
<1>6. k \notin InUse
  BY <1>3, <1>4, <1>5 DEF InUse
<1> QED  BY <1>6

LEMMA ManageInv ==
  ASSUME TrustInv, TypeOK', Manage
  PROVE  TrustInv'
<1>1. UNCHANGED <<flight, chain, asked, outcome, lossy>>
  BY DEF Manage
<1>2. CASE MakesKey
  <2> DEFINE k == CHOOSE k \in DSK : k \notin InUse
  <2>1. k \in DSK /\ k \notin InUse
    BY FreshName
  <2> HIDE DEF k
  <2>2. current' = k /\ cert' = [cert EXCEPT ![k] = KSK] /\ cached' \subseteq cached
    BY <1>2 DEF Manage, CertifyDSK, Certifier, k
  <2>3. k \in RouterKey /\ KSK \in RouterKey /\ k # KSK /\ k # NoKey /\ KSK # NoKey
    BY <2>1, RouterTrustAssumption DEF RouterKey, Key
  <2>4. TrustTypeOK'
    BY <1>1, <2>1, <2>2, <2>3 DEF TrustInv, TrustTypeOK, Key
  <2>5. \A j : j # k => cert'[j] = cert[j]
    BY <2>2
  <2>6. CertInv'
    <3>1. flight # k
      BY <2>1 DEF InUse
    <3> QED
      BY <1>1, <2>2, <2>3, <3>1 DEF TrustInv, TrustTypeOK, CertInv, Certified
  <2>7. ChainInv'
    <3>1. chain # <<>> => chain[1].signer # k
      <4>1. chain # <<>> => 1 \in DOMAIN chain
        BY EmptySeq, LenProperties DEF TrustInv, TrustTypeOK
      <4> QED  BY <2>1, <4>1 DEF InUse
    <3> QED  BY <1>1, <2>2, <3>1 DEF TrustInv, ChainInv, Certified, TrustTypeOK
  <2>8. AskInv'
    BY <1>1 DEF TrustInv, AskInv
  <2> QED  BY <2>4, <2>6, <2>7, <2>8 DEF TrustInv
<1>3. CASE ~MakesKey
  <2>1. UNCHANGED <<current, cert, cached>>
    BY <1>3 DEF Manage
  <2>2. hasKey' = hasKey /\ (enableDSK' => hasKey)
    BY <1>3 DEF Manage, ManageSigningInfo, MakesKey, NeedsNewKey
  <2>3. TrustTypeOK'
    BY <1>1, <2>1, <2>2 DEF TrustInv, TrustTypeOK, CertInv
  <2>4. CertInv' /\ ChainInv' /\ AskInv'
    BY <1>1, <2>1, <2>2 DEF TrustInv, CertInv, ChainInv, AskInv, Certified
  <2> QED  BY <2>3, <2>4 DEF TrustInv
<1> QED  BY <1>2, <1>3

LEMMA RouterInv ==
  ASSUME TrustInv, TypeOK',
         (\E size \in Sizes : Sign(size)) \/ (Tick /\ UNCHANGED trustVars)
  PROVE  TrustInv'
<1>1. UNCHANGED <<enableDSK, hasKey, running, current, cert, chain, asked, cached,
                  outcome, lossy>>
  BY DEF Sign, ReplyDvInfoInterest, Tick, trustVars
<1>2. flight' = flight \/ (running /\ flight' = getSigningInfo)
  BY DEF Sign, ReplyDvInfoInterest, trustVars
<1>3. flight' # NoKey => Certified(flight')
  <2>1. flight # NoKey => Certified(flight)
    BY DEF TrustInv, CertInv
  <2>2. running /\ enableDSK => Certified(current)
    BY DEF TrustInv, TrustTypeOK, CertInv
  <2>3. Certified(KSK)
    BY RouterTrustAssumption DEF TrustInv, CertInv, Certified, RouterKey, Key
  <2> QED  BY <1>2, <2>1, <2>2, <2>3 DEF getSigningInfo
<1>4. TrustTypeOK'
  BY <1>1, <1>3 DEF TrustInv, TrustTypeOK, Certified
<1>5. CertInv' /\ ChainInv' /\ AskInv'
  BY <1>1, <1>3 DEF TrustInv, CertInv, ChainInv, AskInv, Certified
<1> QED  BY <1>4, <1>5 DEF TrustInv

LEMMA OnKeyInterestInv ==
  ASSUME TrustInv, TypeOK', NEW k \in RouterKey, OnKeyInterest(k)
  PROVE  TrustInv'
<1> DEFINE c == DefaultCertificate(k)
<1>1. /\ asked = k /\ k # NoKey /\ k # NetworkKey
      /\ chain' = Append(chain, c) /\ asked' = NoKey
      /\ UNCHANGED <<keyVars, current, cert, flight, cached, outcome, lossy>>
  BY RouterTrustAssumption DEF OnKeyInterest, Key
<1>2. /\ chain \in Seq(Packet) /\ chain # <<>> /\ k = chain[Len(chain)].signer
      /\ Certified(k) /\ Len(chain) \in {1, 2} /\ (Len(chain) = 2 => k = KSK)
  BY <1>1, ChainEnd DEF TrustInv, TrustTypeOK, AskInv
<1>3. c = IF k = KSK THEN NACertificate ELSE DSKCertificate
  BY <1>2 DEF DefaultCertificate, Certified, TrustInv, CertInv, RouterKey,
              NACertificate, DSKCertificate
<1>4. c \in Packet
  BY <1>3 DEF Packet, Kind, NACertificate, DSKCertificate, Key, RouterKey
<1> HIDE DEF c
<1>5. /\ chain' \in Seq(Packet) /\ Len(chain') = Len(chain) + 1 /\ chain' # <<>>
      /\ chain'[Len(chain')] = c
      /\ \A i \in 1..Len(chain) : chain'[i] = chain[i]
  BY <1>1, <1>2, <1>4
<1>6. TrustTypeOK'
  BY <1>1, <1>5 DEF TrustInv, TrustTypeOK, keyVars, vars
<1>7. CertInv'
  BY <1>1 DEF TrustInv, CertInv, Certified, keyVars, vars
<1>8. ChainInv'
  <2>1. chain'[1] = chain[1]
    BY <1>2, <1>5
  <2>2. CASE Len(chain) = 1
    BY <1>1, <1>2, <1>3, <1>5, <2>1, <2>2 DEF TrustInv, ChainInv, Certified
  <2>3. CASE Len(chain) = 2
    <3>1. chain'[2] = chain[2] /\ Len(chain') = 3 /\ chain'[3] = NACertificate
      BY <1>2, <1>3, <1>5, <2>3
    <3>2. chain[1].signer # KSK
      BY <1>2, <2>3, RouterTrustAssumption
         DEF TrustInv, ChainInv, NACertificate, RouterKey
    <3> QED  BY <1>1, <2>1, <2>3, <3>1, <3>2 DEF TrustInv, ChainInv, Certified
  <2> QED  BY <1>2, <2>2, <2>3
<1>9. AskInv'
  BY <1>1 DEF AskInv
<1> QED  BY <1>6, <1>7, <1>8, <1>9 DEF TrustInv

LEMMA NeighbourInv ==
  ASSUME TrustInv, TypeOK', OnDvInfoContent \/ Validation \/ \E k \in RouterKey : Forget(k)
  PROVE  TrustInv'
<1>1. UNCHANGED <<keyVars, current, cert, lossy>>
  BY DEF OnDvInfoContent, Validation, OnValidatedDvInfo, RequestCertificate,
         OnDvInfoValidationFailed, Ends, Forget
<1>2. CASE OnDvInfoContent
  <2> DEFINE d == [kind |-> "DvInfo", signer |-> flight]
  <2>1. /\ flight # NoKey /\ chain = <<>> /\ chain' = <<d>> /\ flight' = NoKey
        /\ outcome' = "none" /\ UNCHANGED <<asked, cached>>
    BY <1>2 DEF OnDvInfoContent
  <2>2. Certified(flight) /\ d \in Packet
    BY <2>1 DEF TrustInv, CertInv, Certified, Packet, Kind, Key
  <2>3. chain' \in Seq(Packet) /\ Len(chain') = 1 /\ chain'[1] = d
    BY <2>1, <2>2
  <2>4. asked' = NoKey
    BY <2>1 DEF TrustInv, AskInv
  <2>5. TrustTypeOK'
    BY <1>1, <2>1, <2>3 DEF TrustInv, TrustTypeOK, keyVars, vars
  <2>6. CertInv' /\ AskInv'
    BY <1>1, <2>1, <2>4 DEF TrustInv, CertInv, AskInv, Certified, keyVars, vars
  <2>7. ChainInv'
    BY <1>1, <2>2, <2>3 DEF ChainInv, Certified
  <2> QED  BY <2>5, <2>6, <2>7 DEF TrustInv
<1>3. CASE RequestCertificate
  <2>1. /\ chain # <<>> /\ asked' = Last(chain).signer
        /\ Last(chain).signer # NetworkKey
        /\ UNCHANGED <<flight, chain, cached, outcome>>
    BY <1>3 DEF RequestCertificate, Validating, setupRootCert
  <2>2. Last(chain) = chain[Len(chain)] /\ Last(chain).signer \in RouterKey
    BY <2>1, ChainEnd DEF Certified
  <2>3. TrustTypeOK'
    BY <1>1, <2>1, <2>2 DEF TrustInv, TrustTypeOK, keyVars, vars
  <2>4. CertInv' /\ ChainInv' /\ AskInv'
    BY <1>1, <2>1, <2>2
       DEF TrustInv, CertInv, ChainInv, AskInv, Certified, keyVars, vars
  <2> QED  BY <2>3, <2>4 DEF TrustInv
<1>4. CASE OnValidatedDvInfo \/ OnDvInfoValidationFailed
  <2>1. /\ chain' = <<>> /\ asked' = NoKey /\ UNCHANGED flight
        /\ outcome' \in {"accepted", "rejected", "lost"}
    BY <1>4 DEF OnValidatedDvInfo, OnDvInfoValidationFailed, Ends
  <2>2. cached' \subseteq RouterKey
    <3>1. CASE OnDvInfoValidationFailed
      BY <3>1 DEF OnDvInfoValidationFailed, TrustInv, TrustTypeOK
    <3>2. CASE OnValidatedDvInfo
      <4>1. \A i \in 1..(Len(chain) - 1) : chain[i].signer \in RouterKey
        <5>1. \A i \in 1..(Len(chain) - 1) : i \in DOMAIN chain /\ i < Len(chain)
          BY ChainShape
        <5> QED  BY <5>1, ChainSigners
      <4> QED  BY <3>2, <4>1 DEF OnValidatedDvInfo, TrustInv, TrustTypeOK
    <3> QED  BY <1>4, <3>1, <3>2
  <2>3. chain' \in Seq(Packet) /\ Len(chain') = 0
    BY <2>1, EmptySeq
  <2>4. TrustTypeOK'
    BY <1>1, <2>1, <2>2, <2>3 DEF TrustInv, TrustTypeOK, keyVars, vars
  <2>5. CertInv' /\ ChainInv' /\ AskInv'
    BY <1>1, <2>1, <2>3 DEF TrustInv, CertInv, ChainInv, AskInv, Certified, keyVars, vars
  <2> QED  BY <2>4, <2>5 DEF TrustInv
<1>5. ASSUME NEW k \in RouterKey, Forget(k)
      PROVE  TrustInv'
  <2>1. cached' \subseteq cached /\ UNCHANGED <<flight, chain, asked, outcome>>
    BY <1>5 DEF Forget
  <2>2. TrustTypeOK'
    BY <1>1, <2>1 DEF TrustInv, TrustTypeOK, keyVars, vars
  <2>3. CertInv' /\ ChainInv' /\ AskInv'
    BY <1>1, <2>1 DEF TrustInv, CertInv, ChainInv, AskInv, Certified, keyVars, vars
  <2> QED  BY <2>2, <2>3 DEF TrustInv
<1> QED  BY <1>2, <1>3, <1>4, <1>5 DEF Validation

LEMMA TrustNextInv == TrustInv /\ [TrustNext]_allVars => TrustInv'
<1> SUFFICES ASSUME TrustInv, [TrustNext]_allVars PROVE TrustInv'
  OBVIOUS
<1>1. TypeOK'
  BY TypeStep, KeyStepOfTrust DEF TrustInv, TrustTypeOK
<1>2. CASE UNCHANGED allVars
  BY <1>2 DEF TrustInv, TrustTypeOK, TypeOK, CertInv, ChainInv, AskInv, Certified,
              allVars, keyVars, vars, trustVars
<1>3. CASE TrustNext
  BY <1>1, <1>3, ManageInv, RouterInv, OnKeyInterestInv, NeighbourInv DEF TrustNext
<1> QED  BY <1>2, <1>3

-----------------------------------------------------------------------------
(* Theorems.                                                               *)

\* The state of keys, certificates and validation keeps its types, and a
\* running router that uses data keys always has one to sign with
\* (ndvr.cpp:137-199).
THEOREM TrustTypeCorrect == TrustSpec => []TrustTypeOK
<1>1. TrustInv => TrustTypeOK
  BY DEF TrustInv
<1> QED  BY <1>1, TrustInitInv, TrustNextInv, PTL DEF TrustSpec

\* The certificates of any number of keys, made at any time, never give the
\* neighbour more than two of them to ask for (ndvr.cpp:175-199).
THEOREM NoLongChains == TrustSpec => []ChainsAreShort
<1>1. TrustInv => ChainsAreShort
  BY DEF TrustInv, ChainInv, ChainsAreShort
<1> QED  BY <1>1, TrustInitInv, TrustNextInv, PTL DEF TrustSpec

\* Whatever the limits of keys, and whenever one is replaced between a
\* signature and its validation, the three rules accept every vector of the
\* router, and the certificates they ask for are there
\* (config/validation.conf, ndvr.cpp:566-583, 642-686).
THEOREM RulesRefuseNothing == TrustSpec => []OnlyLossRefuses
<1>1. TrustInv /\ OnlyLossRefuses /\ [TrustNext]_allVars => OnlyLossRefuses'
  <2> SUFFICES ASSUME TrustInv, OnlyLossRefuses, [TrustNext]_allVars
               PROVE  OnlyLossRefuses'
    OBVIOUS
  <2>1. CASE OnDvInfoValidationFailed
    <3>1. Validating => Allows(Last(chain))
      BY ChainEnd DEF Validating
    <3>2. asked # NoKey => DefaultCertificate(asked) # NoKey
      <4> SUFFICES ASSUME asked # NoKey PROVE DefaultCertificate(asked) # NoKey
        OBVIOUS
      <4>1. asked \in RouterKey /\ asked # NetworkKey
        BY RouterTrustAssumption DEF TrustInv, TrustTypeOK
      <4>2. cert[asked] # NoKey
        BY <4>1, ChainEnd DEF TrustInv, AskInv, Certified
      <4>3. [kind |-> IF asked = KSK THEN "NA" ELSE "DSK", signer |-> cert[asked]]
              \in Packet
        BY <4>1, <4>2 DEF TrustInv, TrustTypeOK, Packet, Kind
      <4> QED  BY <4>2, <4>3, RouterTrustAssumption DEF DefaultCertificate
    <3> QED
      BY <2>1, <3>1, <3>2 DEF OnDvInfoValidationFailed, Ends, OnlyLossRefuses
  <2>2. CASE OnValidatedDvInfo
    BY <2>2 DEF OnValidatedDvInfo, Ends, OnlyLossRefuses
  <2>3. CASE OnDvInfoContent
    BY <2>3 DEF OnDvInfoContent, OnlyLossRefuses
  <2>4. ASSUME \/ Manage \/ RequestCertificate
               \/ \E size \in Sizes : Sign(size)
               \/ Tick /\ UNCHANGED trustVars
               \/ \E k \in RouterKey : OnKeyInterest(k) \/ Forget(k)
               \/ UNCHANGED allVars
        PROVE  OnlyLossRefuses'
    <3>1. UNCHANGED <<outcome, lossy>>
      BY <2>4 DEF Manage, RequestCertificate, Sign, OnKeyInterest, Forget, allVars, trustVars
    <3> QED  BY <3>1 DEF OnlyLossRefuses
  <2> QED  BY <2>1, <2>2, <2>3, <2>4 DEF TrustNext, Validation
<1> QED  BY <1>1, TrustInitInv, TrustNextInv, PTL DEF TrustSpec

-----------------------------------------------------------------------------
(* The limits of keys, of a router that others validate.                   *)

\* Making certificates and answering for them does not change when a router
\* changes keys: its keys go the way of SigningKey (ndvr.cpp:145-201).
THEOREM TrustImplementsSigningKey == TrustSpec => Spec
<1>1. TrustInit => Init
  BY DEF TrustInit
<1> QED  BY <1>1, KeyStepOfTrust, PTL DEF TrustSpec, Spec

\* The limits hold of the keys that vectors are signed with, as their amounts
\* and ages go on while certificates are under way (ndvr.cpp:160-168).
THEOREM TrustedKeysAreLimited == TrustSpec => [](AmountIsLimited /\ AgeIsLimited)
  BY TrustImplementsSigningKey, KeyAmountIsLimited, KeyAgeIsLimited, PTL
=============================================================================
