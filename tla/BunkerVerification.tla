------------------------- MODULE BunkerVerification -------------------------
(***************************************************************************)
(* contracts/src/BunkerVerification.sol: providers attest once per         *)
(* interval; verifiers count the intervals missed and suspend a provider   *)
(* after too many, or at once when they challenge an attestation; the      *)
(* owner reinstates after a cooldown.                                      *)
(***************************************************************************)
EXTENDS Integers, TLAPS

CONSTANTS Providers,
          Intervals,     \* values the owner may set or start with
          MaxMisses,     \* maxMissedAttestations likewise
          Cooldowns,     \* reinstatementCooldown likewise
          MaxTotal,      \* bound on the count of attestations
          MaxTime        \* bound on the clock

(* The setters refuse an interval and a threshold of zero. *)
ASSUME VerificationConstants ==
  /\ Intervals \subseteq Nat \ {0} /\ MaxMisses \subseteq Nat \ {0} /\ Cooldowns \subseteq Nat
  /\ MaxTotal \in Nat \ {0} /\ MaxTime \in Nat

VARIABLES rec,           \* attestations
          suspendedAt,
          attestationInterval, maxMissedAttestations, reinstatementCooldown,
          attestedAt,    \* history: when the provider last attested, 0 for never
          accusedAt,     \* history: when it was last challenged or found missing too often
          shortest,      \* history: the shortest interval since its count last started
          highest,       \* history: the highest threshold since then
          now

params == <<attestationInterval, maxMissedAttestations, reinstatementCooldown>>
since == <<shortest, highest>>
vars == <<rec, suspendedAt, params, attestedAt, accusedAt, since, now>>

AttestationRecord == [last : Nat, total : 0 .. MaxTotal, missed : Nat,
                      consecutive : Nat, suspended : BOOLEAN]

Init ==
  /\ rec = [p \in Providers |-> [last |-> 0, total |-> 0, missed |-> 0,
                                 consecutive |-> 0, suspended |-> FALSE]]
  /\ suspendedAt = [p \in Providers |-> 0]
  /\ attestationInterval \in Intervals
  /\ maxMissedAttestations \in MaxMisses
  /\ reinstatementCooldown \in Cooldowns
  /\ attestedAt = [p \in Providers |-> 0]
  /\ accusedAt = [p \in Providers |-> 0]
  /\ shortest = [p \in Providers |-> attestationInterval]
  /\ highest = [p \in Providers |-> maxMissedAttestations]
  /\ now = 1

(* The count of p's misses starts anew under the parameters in force. *)
CountAnew(p) ==
  /\ shortest' = [shortest EXCEPT ![p] = attestationInterval]
  /\ highest' = [highest EXCEPT ![p] = maxMissedAttestations]

SubmitAttestation(p) ==
  LET r == rec[p]
  IN  /\ ~r.suspended
      /\ r.total < MaxTotal
      /\ \/ /\ r.last = 0
            /\ rec' = [rec EXCEPT ![p] = [last |-> now, total |-> 1, missed |-> 0,
                                          consecutive |-> 0, suspended |-> FALSE]]
         \/ /\ r.last # 0
            /\ now >= r.last + attestationInterval
            /\ rec' = [rec EXCEPT ![p] = [r EXCEPT !.last = now, !.total = @ + 1,
                                                   !.consecutive = 0]]
      /\ attestedAt' = [attestedAt EXCEPT ![p] = now]
      /\ CountAnew(p)
      /\ UNCHANGED <<suspendedAt, params, accusedAt, now>>

IntervalsMissed(r) == (now - r.last) \div attestationInterval

(* Mutant: the clock is not advanced past the intervals counted. *)
CountedAgain(r) ==
  [r EXCEPT !.missed = @ + IntervalsMissed(r), !.consecutive = @ + IntervalsMissed(r),
            !.suspended = r.consecutive + IntervalsMissed(r) >= maxMissedAttestations]

Counted(r) ==
  [r EXCEPT !.missed = @ + IntervalsMissed(r), !.consecutive = @ + IntervalsMissed(r),
            !.last = @ + IntervalsMissed(r) * attestationInterval,
            !.suspended = r.consecutive + IntervalsMissed(r) >= maxMissedAttestations]

(* The call within the window, or in its last instant, changes nothing. *)
CheckMissedAttestations(p) ==
  /\ rec[p].last # 0 /\ ~rec[p].suspended
  /\ now > rec[p].last + attestationInterval
  /\ rec' = [rec EXCEPT ![p] = Counted(@)]
  /\ suspendedAt' = [suspendedAt EXCEPT ![p] = IF Counted(rec[p]).suspended THEN now ELSE @]
  /\ accusedAt' = [accusedAt EXCEPT ![p] = IF Counted(rec[p]).suspended THEN now ELSE @]
  /\ UNCHANGED <<params, attestedAt, since, now>>

(* A challenge suspends, and restarts the cooldown of a suspended provider. *)
SuspensionTime(p) == now

ChallengeAttestation(p) ==
  /\ rec[p].last # 0
  /\ rec' = [rec EXCEPT ![p].suspended = TRUE]
  /\ suspendedAt' = [suspendedAt EXCEPT ![p] = SuspensionTime(p)]
  /\ accusedAt' = [accusedAt EXCEPT ![p] = now]
  /\ UNCHANGED <<params, attestedAt, since, now>>

Reinstated(r) == [r EXCEPT !.suspended = FALSE, !.consecutive = 0, !.last = now]

(* The owner may also call this for a provider that is not suspended. *)
ReinstateProvider(p) ==
  /\ rec[p].last # 0
  /\ now >= suspendedAt[p] + reinstatementCooldown
  /\ rec' = [rec EXCEPT ![p] = Reinstated(@)]
  /\ CountAnew(p)
  /\ UNCHANGED <<suspendedAt, params, attestedAt, accusedAt, now>>

SetAttestationInterval(i) ==
  /\ attestationInterval' = i
  /\ shortest' = [p \in Providers |-> IF i < shortest[p] THEN i ELSE shortest[p]]
  /\ UNCHANGED <<maxMissedAttestations, reinstatementCooldown, highest>>

SetMaxMissedAttestations(m) ==
  /\ maxMissedAttestations' = m
  /\ highest' = [p \in Providers |-> IF m > highest[p] THEN m ELSE highest[p]]
  /\ UNCHANGED <<attestationInterval, reinstatementCooldown, shortest>>

SetReinstatementCooldown(c) ==
  /\ reinstatementCooldown' = c
  /\ UNCHANGED <<attestationInterval, maxMissedAttestations, since>>

OwnerStep ==
  /\ \/ \E i \in Intervals : SetAttestationInterval(i)
     \/ \E m \in MaxMisses : SetMaxMissedAttestations(m)
     \/ \E c \in Cooldowns : SetReinstatementCooldown(c)
  /\ UNCHANGED <<rec, suspendedAt, attestedAt, accusedAt, now>>

Tick ==
  /\ now < MaxTime /\ now' = now + 1
  /\ UNCHANGED <<rec, suspendedAt, params, attestedAt, accusedAt, since>>

ProviderStep(p) ==
  \/ SubmitAttestation(p)
  \/ CheckMissedAttestations(p)
  \/ ChallengeAttestation(p)
  \/ ReinstateProvider(p)

Next ==
  \/ \E p \in Providers : ProviderStep(p)
  \/ OwnerStep
  \/ Tick

Spec == Init /\ [][Next]_vars

-----------------------------------------------------------------------------
(* Properties. *)

(* No timestamp lies in the future: the subtractions of                     *)
(* checkMissedAttestations never trap.                                      *)
TypeOK ==
  /\ rec \in [Providers -> AttestationRecord]
  /\ suspendedAt \in [Providers -> 0 .. now]
  /\ attestationInterval \in Intervals
  /\ maxMissedAttestations \in MaxMisses
  /\ reinstatementCooldown \in Cooldowns
  /\ attestedAt \in [Providers -> 0 .. now]
  /\ accusedAt \in [Providers -> 0 .. now]
  /\ shortest \in [Providers -> Intervals] /\ highest \in [Providers -> MaxMisses]
  /\ now \in Nat
  /\ \A p \in Providers : rec[p].last <= now

(* checkMissedAttestations, called in any rhythm, counts no interval twice: *)
(* the misses counted since the provider last attested fit into that time,  *)
(* even at the shortest interval the owner has set since.                   *)
MissesHappened ==
  \A p \in Providers : rec[p].consecutive * shortest[p] <= now - attestedAt[p]

(* A provider that is not suspended has fewer misses counted than suspend   *)
(* it at the highest threshold the owner has set since the count started,   *)
(* also after a reinstatement.                                              *)
BelowThreshold ==
  \A p \in Providers : rec[p].suspended \/ rec[p].consecutive < highest[p]

(* A suspension lasts the cooldown, counted from the last challenge or      *)
(* check that called for it: a challenge of a provider that is suspended    *)
(* already starts the cooldown anew, and a suspended provider does not      *)
(* attest.                                                                  *)
SuspensionLasts ==
  \A p \in Providers : rec[p].suspended =>
    /\ ~rec'[p].suspended => now >= accusedAt[p] + reinstatementCooldown
    /\ attestedAt'[p] = attestedAt[p]

(* Suspensions are called for, and last. *)
SuspensionsFair ==
  /\ [](MissesHappened /\ BelowThreshold)
  /\ [][SuspensionLasts]_vars
-----------------------------------------------------------------------------
(* Proof, for any providers and parameters, that suspensions are fair.      *)

(* What SuspensionLasts rests on: the cooldown of a suspension runs from    *)
(* the last accusation.                                                     *)
IInv == TypeOK /\ now > 0 /\ \A p \in Providers : suspendedAt[p] = accusedAt[p]

(* What MissesHappened rests on: every miss counted moved the clock of the  *)
(* provider on by an interval that is no shorter than the shortest.         *)
ClockMoved ==
  \A p \in Providers :
    /\ attestedAt[p] <= rec[p].last
    /\ shortest[p] <= attestationInterval
    /\ rec[p].consecutive * shortest[p] <= rec[p].last - attestedAt[p]

(* The threshold in force is at most the highest. *)
ThresholdKept == BelowThreshold /\ \A p \in Providers : maxMissedAttestations <= highest[p]

(* Multiplication by a natural keeps the order. *)
LEMMA Scaled ==
  ASSUME NEW c \in Nat, NEW x \in Nat, NEW y \in Nat, x <= y
  PROVE  c * x \in Nat /\ c * y \in Nat /\ c * x <= c * y
<1>1. PICK d \in Nat : y = x + d
  <2>1. y - x \in Nat /\ y = x + (y - x)
    OBVIOUS
  <2> QED BY <2>1
<1>2. c * x \in Nat /\ c * d \in Nat
  BY SMTT(30)
<1>3. c * y = c * x + c * d
  BY <1>1, SMTT(30)
<1> QED BY <1>2, <1>3

LEMMA Division ==
  ASSUME NEW a \in Nat, NEW i \in Nat \ {0}
  PROVE  /\ a \div i \in Nat /\ (a \div i) * i \in Nat /\ (a \div i) * i <= a
BY SMTT(30)

LEMMA InitIInv == Init => IInv /\ ClockMoved /\ ThresholdKept
<1> SUFFICES ASSUME Init PROVE IInv /\ ClockMoved /\ ThresholdKept
  OBVIOUS
<1>1. IInv
  BY VerificationConstants DEF Init, IInv, TypeOK, AttestationRecord
<1>2. attestationInterval \in Nat /\ maxMissedAttestations \in Nat \ {0}
  BY VerificationConstants DEF Init
<1>3. ClockMoved /\ ThresholdKept
  BY <1>2 DEF Init, ClockMoved, ThresholdKept, BelowThreshold
<1> QED BY <1>1, <1>3

(* The intervals counted lie between the provider's clock and now. *)
LEMMA IntervalsPassed ==
  ASSUME IInv, NEW p \in Providers
  PROVE  /\ IntervalsMissed(rec[p]) \in Nat
         /\ IntervalsMissed(rec[p]) * attestationInterval \in Nat
         /\ rec[p].last + IntervalsMissed(rec[p]) * attestationInterval <= now
<1>1. /\ rec[p] \in AttestationRecord /\ rec[p].last \in Nat /\ now \in Nat /\ rec[p].last <= now
      /\ attestationInterval \in Nat \ {0}
  BY VerificationConstants DEF IInv, TypeOK, AttestationRecord
<1> DEFINE past == now - rec[p].last
           k == past \div attestationInterval
<1>2. past \in Nat
  BY <1>1
<1>3. k \in Nat /\ k * attestationInterval \in Nat /\ k * attestationInterval <= past
  <2> HIDE DEF past
  <2> QED BY <1>1, <1>2, Division
<1>4. IntervalsMissed(rec[p]) = k
  BY DEF IntervalsMissed
<1> DEFINE m == k * attestationInterval
<1>5. m \in Nat /\ m <= past
  BY <1>3
<1>6. rec[p].last + m <= now
  <2> HIDE DEF m
  <2> QED BY <1>1, <1>5
<1> QED BY <1>3, <1>4, <1>6

(* A challenge changes no other field. *)
LEMMA RecordSuspended ==
  ASSUME NEW r \in AttestationRecord, NEW u, u = [r EXCEPT !.suspended = TRUE]
  PROVE  u \in AttestationRecord /\ u.last = r.last /\ u.consecutive = r.consecutive /\ u.suspended
BY DEF AttestationRecord

(* What a check makes of a record. *)
LEMMA CountedRecord ==
  ASSUME IInv, NEW p \in Providers
  PROVE  /\ Counted(rec[p]) \in AttestationRecord
         /\ Counted(rec[p]).last = rec[p].last + IntervalsMissed(rec[p]) * attestationInterval
         /\ Counted(rec[p]).consecutive = rec[p].consecutive + IntervalsMissed(rec[p])
         /\ Counted(rec[p]).suspended
               = (rec[p].consecutive + IntervalsMissed(rec[p]) >= maxMissedAttestations)
<1> DEFINE r == rec[p]
           k == IntervalsMissed(r)
           c == r.consecutive + k
           l == r.last + k * attestationInterval
           m == r.missed + k
           late == c >= maxMissedAttestations
<1>1. r \in AttestationRecord
  BY DEF IInv, TypeOK
<1>2. c \in Nat /\ l \in Nat /\ m \in Nat /\ late \in BOOLEAN
  <2>1. k \in Nat /\ k * attestationInterval \in Nat
    BY IntervalsPassed
  <2> QED BY <1>1, <2>1 DEF AttestationRecord
<1>3. Counted(r) = [r EXCEPT !.missed = m, !.consecutive = c, !.last = l, !.suspended = late]
  BY DEF Counted
<1>4. /\ Counted(r) \in AttestationRecord
      /\ Counted(r).last = l /\ Counted(r).consecutive = c /\ Counted(r).suspended = late
  <2> HIDE DEF r, m, c, l, late
  <2> QED BY <1>1, <1>2, <1>3 DEF AttestationRecord
<1> QED BY <1>4

(* An attestation, the first or a later one, starts the count anew. *)
LEMMA Attested ==
  ASSUME IInv, NEW p \in Providers, SubmitAttestation(p)
  PROVE  \E r \in AttestationRecord : rec' = [rec EXCEPT ![p] = r] /\ r.last = now /\ r.consecutive = 0
<1>1. rec[p] \in AttestationRecord /\ now \in Nat
  BY DEF IInv, TypeOK
<1>2. CASE rec[p].last = 0
  <2> DEFINE r == [last |-> now, total |-> 1, missed |-> 0, consecutive |-> 0, suspended |-> FALSE]
  <2>1. r \in AttestationRecord /\ r.last = now /\ r.consecutive = 0
    BY <1>1, VerificationConstants DEF AttestationRecord
  <2> QED BY <1>2, <2>1 DEF SubmitAttestation
<1>3. CASE rec[p].last # 0
  <2> DEFINE t == rec[p].total + 1
             r == [rec[p] EXCEPT !.last = now, !.total = t, !.consecutive = 0]
  <2>1. t \in 0 .. MaxTotal
    BY <1>1, VerificationConstants DEF AttestationRecord, SubmitAttestation
  <2>2. r \in AttestationRecord /\ r.last = now /\ r.consecutive = 0
    <3> HIDE DEF t
    <3> QED BY <1>1, <2>1 DEF AttestationRecord
  <2>3. rec' = [rec EXCEPT ![p] = r]
    BY <1>3 DEF SubmitAttestation
  <2> QED BY <2>2, <2>3, Zenon
<1> QED BY <1>2, <1>3

(* A reinstatement too. *)
LEMMA ReinstatedRecord ==
  ASSUME IInv, NEW p \in Providers
  PROVE  /\ Reinstated(rec[p]) \in AttestationRecord
         /\ Reinstated(rec[p]).last = now /\ Reinstated(rec[p]).consecutive = 0
<1>1. rec[p] \in AttestationRecord /\ now \in Nat
  BY DEF IInv, TypeOK
<1> QED BY <1>1 DEF Reinstated, AttestationRecord

LEMMA StepIInv == IInv /\ [Next]_vars => IInv'
<1> SUFFICES ASSUME IInv, [Next]_vars PROVE IInv'
  OBVIOUS
<1>1. ASSUME NEW p \in Providers, SubmitAttestation(p) PROVE IInv'
  <2>1. PICK r \in AttestationRecord : rec' = [rec EXCEPT ![p] = r] /\ r.last = now
    BY <1>1, Attested
  <2>2. /\ attestedAt' = [attestedAt EXCEPT ![p] = now]
        /\ UNCHANGED <<suspendedAt, params, accusedAt, now>>
    BY <1>1 DEF SubmitAttestation
  <2>3. rec' \in [Providers -> AttestationRecord] /\ \A q \in Providers : rec'[q].last <= now
    BY <2>1 DEF IInv, TypeOK
  <2>4. attestedAt' \in [Providers -> 0 .. now]
    BY <2>2 DEF IInv, TypeOK
  <2>5. shortest' \in [Providers -> Intervals] /\ highest' \in [Providers -> MaxMisses]
    BY <1>1 DEF SubmitAttestation, CountAnew, IInv, TypeOK
  <2> QED BY <2>2, <2>3, <2>4, <2>5 DEF IInv, TypeOK, params
<1>2. ASSUME NEW p \in Providers, CheckMissedAttestations(p) PROVE IInv'
  <2>1. Counted(rec[p]) \in AttestationRecord /\ Counted(rec[p]).last <= now
    BY IntervalsPassed, CountedRecord
  <2> QED BY <1>2, <2>1 DEF IInv, TypeOK, CheckMissedAttestations, params, since
<1>3. ASSUME NEW p \in Providers, ChallengeAttestation(p) PROVE IInv'
  <2> DEFINE r == [rec[p] EXCEPT !.suspended = TRUE]
  <2>1. r \in AttestationRecord /\ r.last = rec[p].last
    BY RecordSuspended DEF IInv, TypeOK
  <2>2. rec' = [rec EXCEPT ![p] = r]
    BY <1>3 DEF ChallengeAttestation
  <2> HIDE DEF r
  <2>3. rec' \in [Providers -> AttestationRecord] /\ \A q \in Providers : rec'[q].last <= now
    BY <2>1, <2>2 DEF IInv, TypeOK
  <2>4. /\ suspendedAt' \in [Providers -> 0 .. now] /\ accusedAt' \in [Providers -> 0 .. now]
        /\ \A q \in Providers : suspendedAt'[q] = accusedAt'[q]
    BY <1>3 DEF IInv, TypeOK, ChallengeAttestation, SuspensionTime
  <2> QED BY <1>3, <2>3, <2>4 DEF IInv, TypeOK, ChallengeAttestation, params, since
<1>4. ASSUME NEW p \in Providers, ReinstateProvider(p) PROVE IInv'
  <2>1. rec' \in [Providers -> AttestationRecord] /\ \A q \in Providers : rec'[q].last <= now
    BY <1>4, ReinstatedRecord DEF IInv, TypeOK, ReinstateProvider
  <2>2. shortest' \in [Providers -> Intervals] /\ highest' \in [Providers -> MaxMisses]
    BY <1>4 DEF ReinstateProvider, CountAnew, IInv, TypeOK
  <2> QED BY <1>4, <2>1, <2>2 DEF IInv, TypeOK, ReinstateProvider, params
<1>5. CASE OwnerStep
  BY <1>5 DEF IInv, TypeOK, OwnerStep, SetAttestationInterval, SetMaxMissedAttestations,
              SetReinstatementCooldown, since
<1>6. CASE Tick
  BY <1>6 DEF IInv, TypeOK, AttestationRecord, Tick, params, since
<1>7. CASE UNCHANGED vars
  BY <1>7 DEF IInv, TypeOK, vars, params, since
<1> QED BY <1>1, <1>2, <1>3, <1>4, <1>5, <1>6, <1>7 DEF Next, ProviderStep

(* No step of a provider, a verifier, the owner or time spoils the clocks   *)
(* or the threshold.                                                        *)
LEMMA StepClocks ==
  IInv /\ ClockMoved /\ ThresholdKept /\ [Next]_vars => ClockMoved' /\ ThresholdKept'
<1> SUFFICES ASSUME IInv, ClockMoved, ThresholdKept, [Next]_vars
             PROVE  ClockMoved' /\ ThresholdKept'
  OBVIOUS
<1>0. /\ attestationInterval \in Nat \ {0} /\ maxMissedAttestations \in Nat \ {0} /\ now \in Nat
      /\ \A p \in Providers :
           /\ rec[p].last \in Nat /\ rec[p].consecutive \in Nat /\ attestedAt[p] \in Nat
           /\ shortest[p] \in Nat \ {0} /\ highest[p] \in Nat \ {0}
  <2>1. /\ attestationInterval \in Nat \ {0} /\ maxMissedAttestations \in Nat \ {0} /\ now \in Nat
    BY VerificationConstants DEF IInv, TypeOK
  <2>2. ASSUME NEW p \in Providers
        PROVE  /\ rec[p].last \in Nat /\ rec[p].consecutive \in Nat /\ attestedAt[p] \in Nat
               /\ shortest[p] \in Nat \ {0} /\ highest[p] \in Nat \ {0}
    <3>1. rec[p] \in AttestationRecord /\ attestedAt[p] \in Nat
      BY DEF IInv, TypeOK
    <3>2. shortest[p] \in Intervals /\ highest[p] \in MaxMisses
      BY DEF IInv, TypeOK
    <3> QED BY <3>1, <3>2, VerificationConstants DEF AttestationRecord
  <2> QED BY <2>1, <2>2
<1>1. ASSUME NEW p \in Providers, SubmitAttestation(p) \/ ReinstateProvider(p)
      PROVE  ClockMoved' /\ ThresholdKept'
  <2>1. /\ \A q \in Providers \ {p} : rec'[q] = rec[q] /\ attestedAt'[q] = attestedAt[q]
        /\ rec'[p].last = now /\ rec'[p].consecutive = 0 /\ attestedAt'[p] <= now
        /\ attestedAt'[p] \in Nat
    <3>1. \E r : rec' = [rec EXCEPT ![p] = r] /\ r.last = now /\ r.consecutive = 0
      BY <1>1, Attested, ReinstatedRecord DEF ReinstateProvider
    <3>2. attestedAt' = [attestedAt EXCEPT ![p] = now] \/ attestedAt' = attestedAt
      BY <1>1 DEF SubmitAttestation, ReinstateProvider
    <3> QED BY <1>0, <3>1, <3>2 DEF IInv, TypeOK
  <2>2. /\ \A q \in Providers \ {p} : shortest'[q] = shortest[q] /\ highest'[q] = highest[q]
        /\ shortest'[p] = attestationInterval /\ highest'[p] = maxMissedAttestations
        /\ UNCHANGED params
    BY <1>1 DEF SubmitAttestation, ReinstateProvider, CountAnew, IInv, TypeOK
  <2>3. 0 * shortest'[p] = 0
    BY <1>0, <2>2
  <2>4. ClockMoved'
    <3> SUFFICES ASSUME NEW q \in Providers
                 PROVE  /\ attestedAt'[q] <= rec'[q].last
                        /\ shortest'[q] <= attestationInterval'
                        /\ rec'[q].consecutive * shortest'[q] <= rec'[q].last - attestedAt'[q]
      BY DEF ClockMoved
    <3>1. CASE q = p
      <4>1. 0 <= now - attestedAt'[p]
        BY <1>0, <2>1
      <4> QED BY <1>0, <2>1, <2>2, <2>3, <3>1, <4>1 DEF params
    <3>2. CASE q # p
      BY <2>1, <2>2, <3>2 DEF ClockMoved, params
    <3> QED BY <3>1, <3>2
  <2>5. ThresholdKept'
    BY <1>0, <2>1, <2>2 DEF ThresholdKept, BelowThreshold, params
  <2> QED BY <2>4, <2>5
<1>2. ASSUME NEW p \in Providers, CheckMissedAttestations(p)
      PROVE  ClockMoved' /\ ThresholdKept'
  <2> DEFINE k == IntervalsMissed(rec[p])
             c == rec[p].consecutive
             i == attestationInterval
             m == maxMissedAttestations
             x == shortest[p]
             l == rec[p].last
             z == attestedAt[p]
             h == highest[p]
             ki == k * i
             kx == k * x
             cx == c * x
  <2>1. /\ \A q \in Providers \ {p} : rec'[q] = rec[q]
        /\ rec'[p] = Counted(rec[p]) /\ UNCHANGED <<attestedAt, params, since>>
    BY <1>2 DEF CheckMissedAttestations, IInv, TypeOK
  <2>2. /\ k \in Nat /\ ki \in Nat /\ c \in Nat /\ i \in Nat /\ x \in Nat /\ m \in Nat
        /\ l \in Nat /\ z \in Nat /\ h \in Nat
    BY <1>0, IntervalsPassed
  <2>3. /\ rec'[p].last = l + ki /\ rec'[p].consecutive = c + k
        /\ rec'[p].suspended = (c + k >= m)
    BY <2>1, CountedRecord
  <2>4. z <= l /\ x <= i /\ cx <= l - z /\ m <= h
    BY DEF ClockMoved, ThresholdKept
  <2>5. cx \in Nat /\ kx \in Nat /\ kx <= ki /\ (c + k) * x = cx + kx
    <3>1. kx \in Nat /\ kx <= ki
      <4> HIDE DEF k, i, x
      <4> QED BY <2>2, <2>4, Scaled
    <3>2. cx \in Nat
      <4> HIDE DEF c, x
      <4> QED BY <2>2, Scaled
    <3>3. (c + k) * x = cx + kx
      <4> HIDE DEF c, k, x
      <4> QED BY <2>2
    <3> QED BY <3>1, <3>2, <3>3
  <2>6. z <= l + ki /\ cx + kx <= (l + ki) - z
    <3> HIDE DEF ki, kx, cx, l, z
    <3> QED BY <2>2, <2>4, <2>5
  <2>7. c + k >= m \/ c + k < h
    <3> HIDE DEF c, k, m, h
    <3> QED BY <2>2, <2>4
  <2> HIDE DEF k, c, ki, kx, cx, m
  <2>8. /\ attestedAt'[p] <= rec'[p].last
        /\ rec'[p].consecutive * shortest'[p] <= rec'[p].last - attestedAt'[p]
    BY <2>1, <2>3, <2>5, <2>6 DEF since
  <2>9. rec'[p].suspended \/ rec'[p].consecutive < highest'[p]
    BY <2>1, <2>3, <2>7 DEF since
  <2>10. ClockMoved'
    <3> SUFFICES ASSUME NEW q \in Providers
                 PROVE  /\ attestedAt'[q] <= rec'[q].last
                        /\ shortest'[q] <= attestationInterval'
                        /\ rec'[q].consecutive * shortest'[q] <= rec'[q].last - attestedAt'[q]
      BY DEF ClockMoved
    <3> QED BY <2>1, <2>8, Zenon DEF ClockMoved, params, since
  <2>11. ThresholdKept'
    BY <2>1, <2>9 DEF ThresholdKept, BelowThreshold, params, since
  <2> QED BY <2>10, <2>11
<1>3. ASSUME NEW p \in Providers, ChallengeAttestation(p)
      PROVE  ClockMoved' /\ ThresholdKept'
  <2>1. /\ \A q \in Providers : rec'[q].last = rec[q].last /\ rec'[q].consecutive = rec[q].consecutive
        /\ \A q \in Providers : rec[q].suspended => rec'[q].suspended
        /\ UNCHANGED <<attestedAt, params, since>>
    BY <1>3 DEF ChallengeAttestation, IInv, TypeOK, AttestationRecord
  <2> QED BY <2>1 DEF ClockMoved, ThresholdKept, BelowThreshold, params, since
<1>4. ASSUME NEW i \in Intervals, SetAttestationInterval(i), UNCHANGED <<rec, attestedAt>>
      PROVE  ClockMoved' /\ ThresholdKept'
  <2>1. i \in Nat
    BY VerificationConstants
  <2>2. \A q \in Providers : /\ shortest'[q] \in Nat /\ shortest'[q] <= shortest[q]
                             /\ shortest'[q] <= attestationInterval'
    BY <1>0, <1>4, <2>1 DEF SetAttestationInterval
  <2>3. ASSUME NEW q \in Providers
        PROVE  rec[q].consecutive * shortest'[q] <= rec[q].last - attestedAt[q]
    <3> DEFINE c == rec[q].consecutive
               x == shortest'[q]
               y == shortest[q]
               cx == c * x
               cy == c * y
               z == rec[q].last - attestedAt[q]
    <3>1. c \in Nat /\ x \in Nat /\ y \in Nat /\ x <= y /\ z \in Int
      BY <1>0, <2>2, <2>3
    <3>2. cy <= z
      BY <2>3 DEF ClockMoved
    <3>3. cx \in Nat /\ cy \in Nat /\ cx <= cy
      <4> HIDE DEF c, x, y
      <4> QED BY <3>1, Scaled
    <3>4. cx <= z
      <4> HIDE DEF cx, cy, z
      <4> QED BY <3>1, <3>2, <3>3
    <3> QED BY <3>4
  <2>4. ClockMoved'
    BY <1>4, <2>2, <2>3, Zenon DEF ClockMoved
  <2>5. ThresholdKept'
    BY <1>4 DEF ThresholdKept, BelowThreshold, SetAttestationInterval
  <2> QED BY <2>4, <2>5
<1>5. ASSUME NEW m \in MaxMisses, SetMaxMissedAttestations(m), UNCHANGED <<rec, attestedAt>>
      PROVE  ClockMoved' /\ ThresholdKept'
  <2>1. m \in Nat
    BY VerificationConstants
  <2>2. \A q \in Providers : /\ highest'[q] \in Nat /\ highest[q] <= highest'[q]
                             /\ maxMissedAttestations' <= highest'[q]
    BY <1>0, <1>5, <2>1 DEF SetMaxMissedAttestations
  <2>3. ClockMoved'
    BY <1>5 DEF ClockMoved, SetMaxMissedAttestations
  <2>4. ThresholdKept'
    BY <1>0, <1>5, <2>2 DEF ThresholdKept, BelowThreshold
  <2> QED BY <2>3, <2>4
<1>6. ASSUME NEW c \in Cooldowns, SetReinstatementCooldown(c), UNCHANGED <<rec, attestedAt>>
      PROVE  ClockMoved' /\ ThresholdKept'
  BY <1>6 DEF ClockMoved, ThresholdKept, BelowThreshold, SetReinstatementCooldown, since
<1>7. CASE Tick \/ UNCHANGED vars
  BY <1>7 DEF ClockMoved, ThresholdKept, BelowThreshold, Tick, vars, params, since
<1> QED BY <1>1, <1>2, <1>3, <1>4, <1>5, <1>6, <1>7 DEF Next, ProviderStep, OwnerStep

(* The clock of a provider is never ahead: the misses fit into the time. *)
LEMMA ClockSuffices == IInv /\ ClockMoved => MissesHappened
<1> SUFFICES ASSUME IInv, ClockMoved, NEW p \in Providers
             PROVE  rec[p].consecutive * shortest[p] <= now - attestedAt[p]
  BY DEF MissesHappened
<1> DEFINE m == rec[p].consecutive * shortest[p]
           l == rec[p].last
           z == attestedAt[p]
<1>1. l \in Nat /\ l <= now /\ now \in Nat /\ z \in Nat
  BY DEF IInv, TypeOK, AttestationRecord
<1>2. m \in Nat
  <2>1. rec[p].consecutive \in Nat /\ shortest[p] \in Nat
    BY VerificationConstants DEF IInv, TypeOK, AttestationRecord
  <2> QED BY <2>1, Scaled
<1>3. m <= l - z
  BY DEF ClockMoved
<1>4. m <= now - z
  <2> HIDE DEF m, l, z
  <2> QED BY <1>1, <1>2, <1>3
<1> QED BY <1>4

(* Only reinstateProvider ends a suspension. *)
LEMMA LastsCooldown == IInv /\ [Next]_vars => SuspensionLasts
<1> SUFFICES ASSUME IInv, [Next]_vars, NEW p \in Providers, rec[p].suspended
             PROVE  /\ ~rec'[p].suspended => now >= accusedAt[p] + reinstatementCooldown
                    /\ attestedAt'[p] = attestedAt[p]
  BY DEF SuspensionLasts
<1> USE DEF IInv, TypeOK, AttestationRecord
<1>1. ASSUME NEW q \in Providers, SubmitAttestation(q)
      PROVE  rec'[p] = rec[p] /\ attestedAt'[p] = attestedAt[p]
  BY <1>1 DEF SubmitAttestation
<1>2. ASSUME NEW q \in Providers, CheckMissedAttestations(q)
      PROVE  rec'[p] = rec[p] /\ attestedAt'[p] = attestedAt[p]
  BY <1>2 DEF CheckMissedAttestations
<1>3. ASSUME NEW q \in Providers, ChallengeAttestation(q)
      PROVE  rec'[p].suspended /\ attestedAt'[p] = attestedAt[p]
  BY <1>3 DEF ChallengeAttestation
<1>4. ASSUME NEW q \in Providers, ReinstateProvider(q)
      PROVE  /\ rec'[p] = rec[p] \/ now >= accusedAt[p] + reinstatementCooldown
             /\ attestedAt'[p] = attestedAt[p]
  BY <1>4 DEF ReinstateProvider
<1>5. CASE OwnerStep \/ Tick \/ UNCHANGED vars
  BY <1>5 DEF OwnerStep, Tick, vars
<1> QED BY <1>1, <1>2, <1>3, <1>4, <1>5 DEF Next, ProviderStep

(* In whatever rhythm providers attest and verifiers check or challenge,    *)
(* and whatever the owner sets meanwhile, no timestamp lies in the future,  *)
(* no interval is counted twice, nobody stays in service with too many      *)
(* misses, and a suspension lasts its cooldown.                             *)
THEOREM SuspensionsAlwaysFair == Spec => []TypeOK /\ SuspensionsFair
<1>1. Init => IInv /\ ClockMoved /\ ThresholdKept
  BY InitIInv
<1>2. IInv /\ [Next]_vars => IInv' /\ [SuspensionLasts]_vars
  BY StepIInv, LastsCooldown
<1>3. IInv /\ ClockMoved /\ ThresholdKept /\ [Next]_vars => ClockMoved' /\ ThresholdKept'
  BY StepClocks
<1>4. IInv /\ ClockMoved => MissesHappened
  BY ClockSuffices
<1>5. IInv => TypeOK
  BY DEF IInv
<1>6. ThresholdKept => BelowThreshold
  BY DEF ThresholdKept
<1> QED BY <1>1, <1>2, <1>3, <1>4, <1>5, <1>6, PTL DEF Spec, SuspensionsFair
=============================================================================
