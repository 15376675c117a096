------------------------------- MODULE SigningKey -------------------------------
(***************************************************************************)
(* The data signing key (DSK) of a router.  Vectors are signed with it and *)
(* counted; a check that runs every CheckInterval seconds makes a new key  *)
(* when the old one has signed too much or is too old.                     *)
(***************************************************************************)
EXTENDS Integers

CONSTANTS
  CheckInterval,  \* seconds from one check to the next
  SecsLimits,     \* values of m_maxSecsDSK, 0 for no limit
  SizeLimits,     \* values of m_maxSizeDSK, 0 for no limit
  Sizes,          \* sizes of encoded vectors
  MaxAge,         \* bound of the age of a key
  MaxAmount       \* bound of the amount signed with a key

ASSUME SigningKeyAssumption ==
  /\ CheckInterval \in Nat \ {0}
  /\ SecsLimits \subseteq Nat
  /\ SizeLimits \subseteq Nat
  /\ Sizes \subseteq Nat
  /\ MaxAge \in Nat
  /\ MaxAmount \in Nat

VARIABLES
  enableDSK,   \* m_enableDSK
  maxSecs,     \* m_maxSecsDSK
  maxSize,     \* m_maxSizeDSK
  hasKey,      \* m_signingInfoDSK names a key
  amount,      \* m_signedDataAmountDSK
  age,         \* seconds since m_lastDSKCert
  checkIn,     \* seconds to managesigninginfo_event, -1 when none is scheduled
  running,     \* Start has returned
  sinceCheck   \* what was signed since the last check; no variable of the code

vars == <<enableDSK, maxSecs, maxSize, hasKey, amount, age, checkIn, running, sinceCheck>>

TypeOK ==
  /\ enableDSK \in BOOLEAN
  /\ maxSecs \in SecsLimits
  /\ maxSize \in SizeLimits
  /\ hasKey \in BOOLEAN
  /\ amount \in 0..MaxAmount
  /\ age \in 0..MaxAge
  /\ checkIn \in 0..CheckInterval \cup {-1}
  /\ running \in BOOLEAN
  /\ sinceCheck \in 0..MaxAmount

Init ==
  /\ enableDSK \in BOOLEAN
  /\ maxSecs \in SecsLimits
  /\ maxSize \in SizeLimits
  /\ hasKey = FALSE
  /\ amount = 0
  /\ age = 0
  /\ checkIn = -1
  /\ running = FALSE
  /\ sinceCheck = 0

\* Mutant: the count goes on with the new key.
createDSKKeepsCount == hasKey' = TRUE /\ age' = 0 /\ UNCHANGED amount

createDSK ==
  /\ hasKey' = TRUE
  /\ amount' = 0
  /\ age' = 0

\* Mutant: a key as old as the limit is kept.
IsTooOldLate == maxSecs # 0 /\ age > maxSecs

SignedTooMuch == maxSize # 0 /\ amount >= maxSize
IsTooOld == maxSecs # 0 /\ age >= maxSecs
NeedsNewKey == ~hasKey \/ SignedTooMuch \/ IsTooOld

\* Mutant: the check is made once.
ManageSigningInfoOnce ==
  /\ running => checkIn = 0
  /\ IF NeedsNewKey THEN createDSK ELSE UNCHANGED <<hasKey, amount, age>>
  /\ checkIn' = -1
  /\ running' = TRUE
  /\ sinceCheck' = 0
  /\ UNCHANGED <<enableDSK, maxSecs, maxSize>>

\* Called by Start, and by the event it schedules.
ManageSigningInfo ==
  /\ running => checkIn = 0
  /\ running' = TRUE
  /\ sinceCheck' = 0
  /\ IF enableDSK /\ (maxSecs # 0 \/ maxSize # 0)
       THEN /\ IF NeedsNewKey THEN createDSK ELSE UNCHANGED <<hasKey, amount, age>>
            /\ checkIn' = CheckInterval
            /\ UNCHANGED enableDSK
       ELSE /\ enableDSK' = FALSE
            /\ checkIn' = -1
            /\ UNCHANGED <<hasKey, amount, age>>
  /\ UNCHANGED <<maxSecs, maxSize>>

\* A vector of this size is signed.
ReplyDvInfoInterest(size) ==
  /\ running
  /\ amount + size <= MaxAmount
  /\ sinceCheck + size <= MaxAmount
  /\ amount' = amount + size
  /\ sinceCheck' = sinceCheck + size
  /\ UNCHANGED <<enableDSK, maxSecs, maxSize, hasKey, age, checkIn, running>>

\* A second passes; a check that is due comes first.
Tick ==
  /\ running
  /\ checkIn # 0
  /\ checkIn' = IF checkIn = -1 THEN -1 ELSE checkIn - 1
  /\ age' = IF age < MaxAge THEN age + 1 ELSE MaxAge
  /\ UNCHANGED <<enableDSK, maxSecs, maxSize, hasKey, amount, running, sinceCheck>>

Next ==
  \/ ManageSigningInfo
  \/ \E size \in Sizes : ReplyDvInfoInterest(size)
  \/ Tick

Spec == Init /\ [][Next]_vars

\* Time passes and the scheduler runs what is due.
FairSpec == Spec /\ WF_vars(Tick) /\ WF_vars(ManageSigningInfo)

-----------------------------------------------------------------------------
(* Properties.                                                             *)

\* A key signs less than its limit and what is signed between two checks:
\* the limit of the amount is soft, by no more than that (ndvr.cpp:160-168).
AmountIsLimited ==
  running /\ enableDSK /\ maxSize # 0 => hasKey /\ amount < maxSize + sinceCheck

\* No key is used once it is older than its limit by a whole interval between
\* checks, whatever the amount it signed (ndvr.cpp:163-168).
AgeIsLimited ==
  running /\ enableDSK /\ maxSecs # 0 => hasKey /\ age < maxSecs + CheckInterval

\* A key that signed its limit is replaced while the daemon runs; the else-if
\* of the age and the early returns do not starve it (ndvr.cpp:148-168).
FullKeyIsReplaced ==
  (running /\ enableDSK /\ SignedTooMuch) ~> (amount = 0)
=============================================================================
