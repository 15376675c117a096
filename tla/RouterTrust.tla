------------------------------ MODULE RouterTrust ------------------------------
(***************************************************************************)
(* Who believes a vector.  A router's vectors are signed with its key, a   *)
(* KSK certified by the network or a DSK certified by the KSK; a neighbour *)
(* checks each by the rules of config/validation.conf and asks for the     *)
(* certificates it lacks, one after the other, while the router goes on to *)
(* newer keys.                                                             *)
(*                                                                         *)
(* The router's key state is that of SigningKey.  DSK is a set of names: a *)
(* router makes any number of keys, and a name that no packet under way    *)
(* speaks of stands for the next one; packets speak of three at most.      *)
(***************************************************************************)
EXTENDS SigningKey, Sequences, SequencesExt

CONSTANTS
  NetworkKey,  \* the key of the network's identity
  KSK,         \* the key of the router's identity, its default key
  DSK,         \* names of data signing keys
  NoKey

RouterKey == DSK \cup {KSK}
Key == RouterKey \cup {NetworkKey}

Kind == {"DvInfo", "DSK", "NA"}
Packet == [kind : Kind, signer : Key]

ASSUME RouterTrustAssumption ==
  /\ KSK \notin DSK
  /\ NetworkKey \notin RouterKey
  /\ NoKey \notin Key \cup Packet
  /\ \A a, b, c \in DSK \cup {NoKey} : DSK \ {a, b, c} # {}

VARIABLES
  current,  \* the key m_signingInfoDSK names
  cert,     \* by which key each of the router's keys is certified
  flight,   \* by which key the vector on its way is signed
  chain,    \* a vector being validated, and the certificates got for it
  asked,    \* the key whose certificate the neighbour waits for
  cached,   \* keys the neighbour has verified certificates of
  outcome,  \* of the last validation
  lossy     \* whether certificates get lost on their way

keyVars == vars
trustVars == <<current, cert, flight, chain, asked, cached, outcome, lossy>>
allVars == <<keyVars, trustVars>>

TrustTypeOK ==
  /\ TypeOK
  /\ current \in DSK \cup {NoKey}
  /\ cert \in [RouterKey -> Key \cup {NoKey}]
  /\ flight \in RouterKey \cup {NoKey}
  /\ chain \in Seq(Packet)
  /\ asked \in RouterKey \cup {NoKey}
  /\ cached \subseteq RouterKey
  /\ outcome \in {"none", "accepted", "rejected", "lost"}
  /\ lossy \in BOOLEAN
  /\ enableDSK /\ running => current # NoKey

-----------------------------------------------------------------------------
(* Identities, before the simulation starts.                               *)

\* The file that the rules name as their trust anchor.
setupRootCert == {NetworkKey}

\* Mutant: the certificate of the identity stays the one signed with itself.
setupSigningInfoBySelf ==
  [k \in RouterKey |-> IF k = KSK THEN KSK ELSE NoKey]

\* The default certificate of the router's key is signed by the network.
setupSigningInfo ==
  [k \in RouterKey |-> IF k = KSK THEN NetworkKey ELSE NoKey]

TrustInit ==
  /\ Init
  /\ current = NoKey
  /\ cert = setupSigningInfo
  /\ flight = NoKey
  /\ chain = <<>>
  /\ asked = NoKey
  /\ cached = {}
  /\ outcome = "none"
  /\ lossy \in BOOLEAN

-----------------------------------------------------------------------------
(* The router.                                                             *)

getSigningInfo == IF enableDSK THEN current ELSE KSK

InUse == {current, flight, asked} \cup {chain[i].signer : i \in DOMAIN chain}

MakesKey == enableDSK /\ (maxSecs # 0 \/ maxSize # 0) /\ NeedsNewKey

\* Mutant: the new key is certified by what signs the vectors.
CertifierOfVectors == IF current = NoKey THEN KSK ELSE getSigningInfo

\* m_signingInfo: the identity, that is its default key.
Certifier == KSK

\* Mutant: the new key is made and never named by m_signingInfoDSK.
CertifyDSKUnused ==
  LET k == CHOOSE k \in DSK : k \notin InUse IN
  /\ cert' = [cert EXCEPT ![k] = Certifier]
  /\ cached' = cached \cap (InUse \cup {KSK})
  /\ UNCHANGED current

\* The certificate part of createDSK.
CertifyDSK ==
  LET k == CHOOSE k \in DSK : k \notin InUse IN
  /\ current' = k
  /\ cert' = [cert EXCEPT ![k] = Certifier]
  /\ cached' = cached \cap (InUse \cup {KSK})

Manage ==
  /\ ManageSigningInfo
  /\ IF MakesKey THEN CertifyDSK ELSE UNCHANGED <<current, cert, cached>>
  /\ UNCHANGED <<flight, chain, asked, outcome, lossy>>

\* The vector replaces one that was on its way, which is lost.
Sign(size) ==
  /\ ReplyDvInfoInterest(size)
  /\ flight' = getSigningInfo
  /\ UNCHANGED <<current, cert, chain, asked, cached, outcome, lossy>>

\* Mutant: the certificate is looked for under the key in use.
CertificateInUse(k) ==
  IF k \in {current, KSK} THEN [kind |-> IF k = KSK THEN "NA" ELSE "DSK",
                                signer |-> cert[k]]
                          ELSE NoKey

\* The default certificate of the key, of any the identity ever had.
DefaultCertificate(k) ==
  IF cert[k] # NoKey THEN [kind |-> IF k = KSK THEN "NA" ELSE "DSK",
                           signer |-> cert[k]]
                     ELSE NoKey

OnKeyInterest(k) ==
  /\ asked = k
  /\ DefaultCertificate(k) # NoKey
  /\ chain' = Append(chain, DefaultCertificate(k))
  /\ asked' = NoKey
  /\ UNCHANGED <<keyVars, current, cert, flight, cached, outcome, lossy>>

-----------------------------------------------------------------------------
(* The neighbour: Ndvr's handlers, and the library's validator.            *)

\* The rules in the order of the file: the packets that a rule is for, and
\* the keys it allows their signer to be.
Rules == << [filter |-> {"DvInfo"}, signers |-> RouterKey],
            [filter |-> {"DSK"}, signers |-> RouterKey],
            [filter |-> {"DSK", "NA"}, signers |-> {NetworkKey}] >>

\* Mutant: the last rule that matches decides.
LastRuleFor(kind) ==
  CHOOSE r \in 1..3 : kind \in Rules[r].filter
                      /\ \A s \in (r + 1)..3 : kind \notin Rules[s].filter

\* The first rule that matches decides; there is one for every kind.
RuleFor(kind) ==
  CHOOSE r \in 1..3 : kind \in Rules[r].filter
                      /\ \A s \in 1..(r - 1) : kind \notin Rules[s].filter

Allows(packet) == packet.signer \in Rules[RuleFor(packet.kind)].signers

OnDvInfoContent ==
  /\ flight # NoKey
  /\ chain = <<>>
  /\ chain' = <<[kind |-> "DvInfo", signer |-> flight]>>
  /\ flight' = NoKey
  /\ outcome' = "none"
  /\ UNCHANGED <<keyVars, current, cert, asked, cached, lossy>>

\* The validator looks at the last certificate of the chain.
Validating == chain # <<>> /\ asked = NoKey

Ends(result) ==
  /\ chain' = <<>>
  /\ asked' = NoKey
  /\ outcome' = result
  /\ UNCHANGED <<keyVars, current, cert, flight, lossy>>

OnValidatedDvInfo ==
  /\ Validating
  /\ Allows(Last(chain))
  /\ Last(chain).signer \in setupRootCert \cup cached
  /\ cached' = cached \cup {chain[i].signer : i \in 1..(Len(chain) - 1)}
  /\ Ends("accepted")

RequestCertificate ==
  /\ Validating
  /\ Allows(Last(chain))
  /\ Last(chain).signer \notin setupRootCert \cup cached
  /\ asked' = Last(chain).signer
  /\ UNCHANGED <<keyVars, current, cert, flight, chain, cached, outcome, lossy>>

OnDvInfoValidationFailed ==
  /\ \/ Validating /\ ~Allows(Last(chain)) /\ Ends("rejected")
     \/ /\ asked # NoKey
        /\ lossy \/ DefaultCertificate(asked) = NoKey
        /\ Ends("lost")
  /\ UNCHANGED cached

\* The cache keeps a certificate for some time.
Forget(k) ==
  /\ k \in cached
  /\ cached' = cached \ {k}
  /\ UNCHANGED <<keyVars, current, cert, flight, chain, asked, outcome, lossy>>

-----------------------------------------------------------------------------
Validation == OnValidatedDvInfo \/ RequestCertificate \/ OnDvInfoValidationFailed

TrustNext ==
  \/ Manage
  \/ \E size \in Sizes : Sign(size)
  \/ Tick /\ UNCHANGED trustVars
  \/ \E k \in RouterKey : OnKeyInterest(k)
  \/ OnDvInfoContent
  \/ Validation
  \/ \E k \in RouterKey : Forget(k)

TrustSpec == TrustInit /\ [][TrustNext]_allVars

\* The scheduler runs what is due, the validator goes on with what it has, and
\* an Interest for a certificate is answered or expires.
TrustFairSpec ==
  /\ TrustSpec
  /\ WF_allVars(Tick /\ UNCHANGED trustVars)
  /\ WF_allVars(Manage)
  /\ WF_allVars(Validation)
  /\ \A k \in RouterKey : WF_allVars(OnKeyInterest(k))

-----------------------------------------------------------------------------
(* Properties.                                                             *)

\* No honest router's vector is refused by the rules, however its keys change
\* between signing and validation: validation fails only where a certificate
\* gets lost.  The rules of validation.conf overlap, and their order matters
\* (ndvr.cpp:642-686).
OnlyLossRefuses == outcome # "rejected" /\ (outcome = "lost" => lossy)

\* A vector costs its receiver two certificates at most, however many keys the
\* router went through: each data key is certified by the KSK, not by the data
\* key before it (ndvr.cpp:188, 136-141).
ChainsAreShort == Len(chain) <= 3

\* Where nothing is lost, every vector whose validation begins is accepted,
\* one signed with a key replaced in the meantime as well: the identity keeps
\* its old keys, and OnKeyInterest finds them (ndvr.cpp:566-583).
ReceivedIsAccepted == (~lossy /\ chain # <<>>) ~> (outcome = "accepted")
=============================================================================
