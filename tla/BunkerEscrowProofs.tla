------------------------- MODULE BunkerEscrowProofs -------------------------
(***************************************************************************)
(* The escrow contract for any number of reservations, any accounts,       *)
(* amounts, durations and fees. IndInv is inductive, so the contract stays *)
(* solvent and a closed reservation closed. Every step pays for one        *)
(* reservation, takes one deposit or moves nothing (StepKinds), so tokens  *)
(* are conserved, no fee exceeds the agreed one and payments are fair.     *)
(***************************************************************************)
EXTENDS BunkerEscrow, FiniteSetTheorems, TLAPS

(* The provers a leaf is given to, in this order, when it names none. *)
USE SMTT(20), ZenonT(30), Z3T(30)

(* The unreleased amounts, as the function Solvent sums. *)
Owed == [id \in Ids |-> Remaining(res[id])]

LEMMA OwedType == IndInv => Owed \in [Ids -> Nat]
BY DEF IndInv, TypeOK, ReservationsSound, Owed, Remaining, Reservation

(* A transaction that changes one reservation and moves the difference of  *)
(* its unreleased amount into or out of the contract keeps it solvent.     *)
LEMMA OneReservation ==
  ASSUME IndInv, NEW id \in Ids,
         res' \in [Ids -> Reservation],
         \A j \in Ids : j # id => res'[j] = res[j],
         token'[Escrow] = token[Escrow] + Remaining(res'[id]) - Remaining(res[id])
  PROVE  Solvent'
<1>1. IsFiniteSet(Ids)
  BY ConstantsAssumption, FS_Interval DEF Ids
<1>2. Owed \in [Ids -> Int] /\ Owed' \in [Ids -> Int]
  BY OwedType DEF Owed, Remaining, Reservation
<1>3. \A j \in Ids : j # id => Owed'[j] = Owed[j]
  BY DEF Owed
<1>4. SumOver(Owed', Ids) = SumOver(Owed, Ids) + Owed'[id] - Owed[id]
  BY <1>1, <1>2, <1>3, SumOverUpdate
<1>5. Owed'[id] = Remaining(res'[id]) /\ Owed[id] = Remaining(res[id])
  BY DEF Owed
<1>6. token[Escrow] = SumOver(Owed, Ids)
  BY DEF IndInv, Solvent, Owed
<1>7. SumOver(Owed, Ids) \in Int /\ Owed[id] \in Int /\ Owed'[id] \in Int
  BY <1>1, <1>2, SumOverType
<1>8. token'[Escrow] = SumOver(Owed', Ids)
  BY <1>4, <1>5, <1>6, <1>7
<1> QED BY <1>8 DEF Solvent, Owed

(* The earned part of a deposit lies between nothing and all of it. *)
LEMMA ProportionalRange ==
  ASSUME NEW r \in Reservation, r.duration > 0, NEW t \in Nat, t <= r.duration
  PROVE  Proportional(r, t) \in 0..r.totalAmount
BY ShareRange DEF Proportional, Reservation

(* The fee is part of the payment, the burn part of the fee, and what each *)
(* account receives is a natural number.                                   *)
LEMMA FeeRange ==
  ASSUME TypeOK, NEW r \in Reservation, r.feeBps <= MAX_PROTOCOL_FEE_BPS,
         NEW gross \in Nat
  PROVE  /\ Fee(r, gross) \in 0..gross
         /\ Burn(r, gross) \in 0..Fee(r, gross)
<1>1. Fee(r, gross) \in 0..gross
  BY ShareRange DEF Fee, Reservation, MAX_PROTOCOL_FEE_BPS, BPS_DENOMINATOR
<1>2. Burn(r, gross) \in 0..Fee(r, gross)
  <2>1. Fee(r, gross) \in Nat /\ feeBurnBps \in Nat /\ feeBurnBps <= 10000
    BY <1>1 DEF TypeOK, BPS_DENOMINATOR
  <2>2. Burn(r, gross) = (Fee(r, gross) * feeBurnBps) \div 10000
    BY DEF Burn, BPS_DENOMINATOR
  <2> HIDE DEF Fee
  <2> QED BY <2>1, <2>2, ShareRange
<1> QED BY <1>1, <1>2

LEMMA ShareNat ==
  ASSUME TypeOK, NEW r \in Reservation, r.feeBps <= MAX_PROTOCOL_FEE_BPS,
         NEW gross \in Nat, NEW a
  PROVE  ProviderShare(r, gross, a) \in Nat
<1> DEFINE net == gross - Fee(r, gross)
           perProvider == net \div PROVIDERS_PER_RESERVATION
           dust == net - perProvider * PROVIDERS_PER_RESERVATION
           slots == {i \in Slots : r.providers[i] = a}
<1>1. net \in Nat
  BY FeeRange
<1> HIDE DEF net
<1>2. perProvider \in Nat /\ dust \in Nat
  BY <1>1 DEF PROVIDERS_PER_RESERVATION
<1>3. Cardinality(slots) \in Nat
  <2>1. IsFiniteSet(Slots)
    <3>1. Slots = 1..3 /\ 1 \in Int /\ 3 \in Int
      BY DEF Slots, PROVIDERS_PER_RESERVATION
    <3> QED BY <3>1, FS_Interval, Zenon
  <2>2. slots \in SUBSET Slots
    OBVIOUS
  <2> HIDE DEF slots
  <2> QED BY <2>1, <2>2, FS_Subset, FS_CardinalityType
<1>4. ProviderShare(r, gross, a)
        = perProvider * Cardinality(slots) + (IF r.providers[1] = a THEN dust ELSE 0)
  BY DEF ProviderShare, net
<1> HIDE DEF perProvider, dust, slots
<1>5. perProvider * Cardinality(slots) \in Nat
  BY <1>2, <1>3
<1> QED BY <1>2, <1>4, <1>5

(* A distribution keeps the ledger well typed and takes exactly what it    *)
(* pays out of the contract's account.                                     *)
LEMMA DistributeLedger ==
  ASSUME TypeOK, NEW r \in Reservation, r.feeBps <= MAX_PROTOCOL_FEE_BPS,
         NEW gross \in Nat, NEW back \in Nat, Distribute(r, gross, back)
  PROVE  /\ totalBurned' \in Nat /\ totalTreasuryFees' \in Nat
         /\ token' \in [Accounts -> Nat]
         /\ token'[Escrow] = token[Escrow] - (gross + back)
<1>1. Fee(r, gross) \in Nat /\ Burn(r, gross) \in Nat
      /\ Fee(r, gross) - Burn(r, gross) \in Nat
  BY FeeRange
<1>2. totalBurned' \in Nat /\ totalTreasuryFees' \in Nat
  BY <1>1 DEF Distribute, TypeOK
<1>3. Escrow \in Accounts
  BY DEF Accounts
<1>4. token'[Escrow] = token[Escrow] - (gross + back)
  BY <1>3 DEF Distribute
<1>5. ASSUME NEW a \in Accounts PROVE token'[a] \in Nat
  <2>1. CASE a = Escrow
    BY <2>1, <1>3, <1>4 DEF Distribute, TypeOK
  <2>2. CASE a # Escrow
    <3>1. token'[a] = token[a] + ProviderShare(r, gross, a)
                  + (IF a = treasury THEN Fee(r, gross) - Burn(r, gross) ELSE 0)
                  + (IF a = r.requester THEN back ELSE 0)
      BY <2>2 DEF Distribute
    <3>2. token[a] \in Nat /\ ProviderShare(r, gross, a) \in Nat
      BY ShareNat DEF TypeOK
    <3> QED BY <3>1, <3>2, <1>1
  <2> QED BY <2>1, <2>2
<1>6. token' \in [Accounts -> Nat]
  <2>1. token' = [a \in Accounts |-> token'[a]]
    BY DEF Distribute
  <2> QED BY <1>5, <2>1
<1> QED BY <1>2, <1>4, <1>6

(* One step of the specification keeps the invariant.  A step that leaves  *)
(* the reservations and the ledger alone keeps everything but the          *)
(* configuration; every other step changes one reservation.                *)
LEMMA NewReservation ==
  ASSUME IndInv, NEW u \in Requesters, NEW amount \in Nat, NEW duration \in Nat,
         CreateReservation(u, amount, duration)
  PROVE  IndInv'
<1> DEFINE id == nextReservationId
<1>1. id \in Ids /\ res[id] = EmptyReservation
  BY DEF IndInv, TypeOK, CreateReservation
<1>2. u # Escrow /\ u \in Accounts /\ Escrow \in Accounts
  BY AddressAssumption DEF Accounts
<1>3. res' \in [Ids -> Reservation] /\ Remaining(res'[id]) = amount
      /\ Remaining(res[id]) = 0 /\ \A j \in Ids : j # id => res'[j] = res[j]
  BY <1>1 DEF IndInv, TypeOK, CreateReservation, Reservation, Remaining, EmptyReservation,
              NoProviders, Status
<1>4. token' \in [Accounts -> Nat] /\ token'[Escrow] = token[Escrow] + amount
  BY <1>2 DEF IndInv, TypeOK, CreateReservation
<1>5. TypeOK'
  BY <1>3, <1>4 DEF IndInv, TypeOK, CreateReservation, config
<1>6. Solvent'
  <2>1. token[Escrow] \in Nat
    BY <1>2 DEF IndInv, TypeOK
  <2> QED BY <1>1, <1>3, <1>4, <2>1, OneReservation
<1>7. ReservationsSound'
  <2> SUFFICES ASSUME NEW j \in Ids
               PROVE  /\ res'[j].releasedAmount <= res'[j].totalAmount
                      /\ res'[j].status # "None" =>
                            j < nextReservationId' /\ res'[j].duration > 0
                            /\ res'[j].requester \in Requesters
                      /\ res'[j].status = "Active" => res'[j].startTime <= now'
                      /\ res'[j].status \in Terminal =>
                            res'[j].releasedAmount = res'[j].totalAmount
    BY DEF ReservationsSound
  <2>1. now' = now /\ nextReservationId' = nextReservationId + 1
        /\ nextReservationId \in Nat
    BY DEF CreateReservation, IndInv, TypeOK
  <2>2. CASE j = id
    <3>1. res'[j].releasedAmount = 0 /\ res'[j].totalAmount = amount
          /\ res'[j].duration = duration /\ res'[j].requester = u
          /\ res'[j].status = "Created" /\ duration > 0
      BY <1>1, <2>2 DEF CreateReservation, IndInv, TypeOK
    <3> QED BY <3>1, <2>1, <2>2 DEF Terminal
  <2>3. CASE j # id
    BY <1>3, <2>1, <2>3 DEF IndInv, ReservationsSound, Ids
  <2> QED BY <2>2, <2>3
<1>8. \A j \in Ids : ProvidersNamed(res'[j])
  <2>1. res'[id].status = "Created"
    BY <1>1 DEF CreateReservation, IndInv, TypeOK
  <2> QED BY <1>3, <2>1 DEF IndInv, ProvidersNamed
<1> QED BY <1>1, <1>5, <1>6, <1>7, <1>8 DEF IndInv, TypeOK, CreateReservation, Reservation

LEMMA TopUp ==
  ASSUME IndInv, NEW u \in Requesters, NEW id \in Ids, NEW amount \in Nat,
         IncreaseDeposit(u, id, amount)
  PROVE  IndInv'
<1>2. u # Escrow /\ u \in Accounts /\ Escrow \in Accounts
  BY AddressAssumption DEF Accounts
<1>1. res' = [res EXCEPT ![id].totalAmount = @ + amount] /\ res \in [Ids -> Reservation]
      /\ res[id] \in Reservation
  BY DEF IndInv, TypeOK, IncreaseDeposit
<1>1a. [res[id] EXCEPT !.totalAmount = @ + amount] \in Reservation
  BY <1>1 DEF Reservation
<1>1b. res' \in [Ids -> Reservation] /\ res'[id] = [res[id] EXCEPT !.totalAmount = @ + amount]
      /\ \A j \in Ids : j # id => res'[j] = res[j]
  BY <1>1, <1>1a
<1>3. res' \in [Ids -> Reservation] /\ Remaining(res'[id]) = Remaining(res[id]) + amount
      /\ \A j \in Ids : j # id => res'[j] = res[j]
  BY <1>1, <1>1b DEF Reservation, Remaining
<1>4. token' \in [Accounts -> Nat] /\ token'[Escrow] = token[Escrow] + amount
  BY <1>2 DEF IndInv, TypeOK, IncreaseDeposit
<1>5. TypeOK'
  BY <1>3, <1>4 DEF IndInv, TypeOK, IncreaseDeposit, config
<1>6. Solvent'
  <2>1. token[Escrow] \in Nat /\ Remaining(res[id]) \in Int
    BY <1>2 DEF IndInv, TypeOK, Reservation, Remaining
  <2> QED BY <1>3, <1>4, <2>1, OneReservation
<1>7. ReservationsSound'
  BY DEF IndInv, TypeOK, ReservationsSound, IncreaseDeposit, Terminal, Reservation
<1>8. \A j \in Ids : ProvidersNamed(res'[j])
  <2>1. res'[id].status = res[id].status /\ res'[id].providers = res[id].providers
    BY <1>1, <1>1b DEF Reservation
  <2>2. ProvidersNamed(res'[id])
    BY <2>1, Zenon DEF IndInv, ProvidersNamed
  <2> QED BY <1>3, <2>2 DEF IndInv
<1> QED BY <1>5, <1>6, <1>7, <1>8 DEF IndInv, TypeOK, IncreaseDeposit, Reservation

LEMMA Selection ==
  ASSUME IndInv, NEW id \in Ids, NEW ps \in [Slots -> Providers],
         SelectProviders(id, ps)
  PROVE  IndInv'
<1>3. res' \in [Ids -> Reservation] /\ Remaining(res'[id]) = Remaining(res[id])
      /\ \A j \in Ids : j # id => res'[j] = res[j]
  BY DEF IndInv, TypeOK, SelectProviders, Reservation, Remaining, Status
<1>5. TypeOK'
  BY <1>3 DEF IndInv, TypeOK, SelectProviders, config, ledger
<1>6. Solvent'
  <2>1. token[Escrow] \in Nat /\ Remaining(res[id]) \in Int /\ token' = token
    BY DEF IndInv, TypeOK, Reservation, Remaining, Accounts, SelectProviders, ledger
  <2> QED BY <1>3, <2>1, OneReservation
<1>7. ReservationsSound'
  BY DEF IndInv, TypeOK, ReservationsSound, SelectProviders, Terminal, Reservation
<1>8. \A j \in Ids : ProvidersNamed(res'[j])
  <2>1. ProvidersNamed(res'[id])
    BY DEF IndInv, TypeOK, SelectProviders, ProvidersNamed, Reservation
  <2> QED BY <1>3, <2>1 DEF IndInv
<1> QED BY <1>5, <1>6, <1>7, <1>8 DEF IndInv, TypeOK, SelectProviders, Reservation

(* What no payout changes in a reservation. *)
SameTerms(q, r) ==
  /\ q.totalAmount = r.totalAmount /\ q.duration = r.duration /\ q.feeBps = r.feeBps
  /\ q.requester = r.requester /\ q.startTime = r.startTime /\ q.providers = r.providers

(* A payout of gross to the providers and back to the requester that       *)
(* raises the released amount by as much, and may close the reservation    *)
(* when nothing is left.                                                   *)
LEMMA Payout ==
  ASSUME IndInv, NEW id \in Ids, NEW gross \in Nat, NEW back \in Nat, NEW q \in Reservation,
         res[id].status \in {"Created", "Active"},
         gross + back <= Remaining(res[id]),
         \/ q.status = res[id].status
         \/ q.status \in Terminal /\ gross + back = Remaining(res[id]),
         SameTerms(q, res[id]),
         q.releasedAmount = res[id].releasedAmount + (gross + back),
         res' = [res EXCEPT ![id] = q],
         Distribute(res[id], gross, back),
         UNCHANGED <<nextReservationId, config, activeProviders, now>>
  PROVE  IndInv'
<1> DEFINE r == res[id]
<1>1. res \in [Ids -> Reservation] /\ r \in Reservation /\ r.feeBps <= MAX_PROTOCOL_FEE_BPS
      /\ TypeOK /\ r.releasedAmount <= r.totalAmount
  BY DEF IndInv, TypeOK, ReservationsSound
<1>2. /\ q.totalAmount = r.totalAmount /\ q.duration = r.duration
      /\ q.requester = r.requester /\ q.startTime = r.startTime /\ q.feeBps = r.feeBps
  BY DEF SameTerms
<1>3. res' \in [Ids -> Reservation] /\ res'[id] = q
      /\ \A j \in Ids : j # id => res'[j] = res[j]
  BY <1>1, <1>2
<1>4. totalBurned' \in Nat /\ totalTreasuryFees' \in Nat /\ token' \in [Accounts -> Nat]
      /\ token'[Escrow] = token[Escrow] - (gross + back)
  BY <1>1, DistributeLedger
<1>5. TypeOK'
  BY <1>1, <1>3, <1>4 DEF TypeOK, config
<1>6. r.totalAmount \in Nat /\ r.releasedAmount \in Nat /\ token[Escrow] \in Nat
  BY <1>1 DEF Reservation, TypeOK, Accounts
<1>7. Solvent'
  <2>1. token'[Escrow] = token[Escrow] + Remaining(res'[id]) - Remaining(res[id])
    BY <1>2, <1>3, <1>4, <1>6 DEF Remaining
  <2> QED BY <1>3, <2>1, OneReservation
<1>8. ReservationsSound'
  <2> SUFFICES ASSUME NEW j \in Ids
               PROVE  /\ res'[j].releasedAmount <= res'[j].totalAmount
                      /\ res'[j].status # "None" =>
                            j < nextReservationId' /\ res'[j].duration > 0
                            /\ res'[j].requester \in Requesters
                      /\ res'[j].status = "Active" => res'[j].startTime <= now'
                      /\ res'[j].status \in Terminal =>
                            res'[j].releasedAmount = res'[j].totalAmount
    BY DEF ReservationsSound
  <2>1. CASE j = id
    <3>1. id < nextReservationId /\ r.duration > 0 /\ r.requester \in Requesters
          /\ (r.status = "Active" => r.startTime <= now)
      BY DEF IndInv, ReservationsSound
    <3>2. q.status = "Active" => q.status = r.status
      BY DEF Terminal
    <3>3. q.status \in Terminal => r.releasedAmount + (gross + back) = r.totalAmount
      BY <1>6 DEF Remaining, Terminal
    <3>4. r.releasedAmount + (gross + back) <= r.totalAmount
      BY <1>6 DEF Remaining
    <3> QED BY <1>2, <1>3, <2>1, <3>1, <3>2, <3>3, <3>4
  <2>2. CASE j # id
    BY <1>3, <2>2 DEF IndInv, ReservationsSound
  <2> QED BY <2>1, <2>2
<1>9. ASSUME NEW j \in Ids
      PROVE  /\ res'[j].status = "None" => res'[j] = EmptyReservation
             /\ j >= nextReservationId' => res'[j].status = "None"
             /\ res'[j].feeBps <= MAX_PROTOCOL_FEE_BPS
             /\ ProvidersNamed(res'[j])
  <2>1. CASE j = id
    <3>1. q.status # "None" /\ id < nextReservationId /\ id \in Nat /\ nextReservationId \in Nat
      BY DEF IndInv, ReservationsSound, Terminal, Ids, TypeOK
    <3>2. ProvidersNamed(q)
      BY DEF IndInv, ProvidersNamed, SameTerms, Terminal
    <3> QED BY <1>1, <1>2, <1>3, <2>1, <3>1, <3>2
  <2>2. CASE j # id
    BY <1>3, <2>2 DEF IndInv
  <2> QED BY <2>1, <2>2
<1> QED BY <1>5, <1>7, <1>8, <1>9 DEF IndInv

LEMMA Releasing ==
  ASSUME IndInv, NEW id \in Ids, NEW t \in Nat, t <= res[id].duration,
         res[id].status = "Active", Release(id, t)
  PROVE  IndInv'
<1> DEFINE r == res[id]
           gross == Proportional(r, t) - r.releasedAmount
<1>1. r \in Reservation /\ r.duration > 0 /\ res \in [Ids -> Reservation]
  BY DEF IndInv, TypeOK, ReservationsSound
<1>2. Proportional(r, t) \in 0..r.totalAmount
  BY <1>1, ProportionalRange
<1>3. r.totalAmount \in Nat /\ r.releasedAmount \in Nat
  BY <1>1 DEF Reservation
<1>4. gross \in Nat /\ gross + 0 <= Remaining(r)
  BY <1>2, <1>3 DEF Release, Remaining
<1>5. res' = [res EXCEPT ![id] = [r EXCEPT !.releasedAmount = @ + gross]]
  BY <1>1 DEF Release
<1>6. Distribute(r, gross, 0) /\ UNCHANGED <<nextReservationId, config, activeProviders, now>>
  BY DEF Release
<1> HIDE DEF gross
<1> DEFINE q == [r EXCEPT !.releasedAmount = @ + gross]
<1>7. q \in Reservation /\ SameTerms(q, r) /\ q.status = "Active"
      /\ q.releasedAmount = r.releasedAmount + (gross + 0)
  BY <1>1, <1>3, <1>4 DEF Reservation, SameTerms
<1> HIDE DEF q
<1> QED BY <1>4, <1>5, <1>6, <1>7, Payout, Zenon DEF Status, Terminal, q

LEMMA Closing ==
  ASSUME IndInv, NEW id \in Ids, NEW gross \in Nat, NEW back \in Nat, NEW s \in Terminal,
         res[id].status \in {"Created", "Active"},
         gross + back = Remaining(res[id]), Close(id, s, gross, back)
  PROVE  IndInv'
<1>1. res[id].totalAmount \in Nat /\ res[id].releasedAmount \in Nat
  BY DEF IndInv, TypeOK, Reservation
<1>2. res[id].releasedAmount + (gross + back) = res[id].totalAmount
  BY <1>1 DEF Remaining
<1>3. s \in Status /\ s # res[id].status /\ res[id].status # "None"
  BY DEF Status, Terminal
<1> DEFINE q == [res[id] EXCEPT !.releasedAmount = res[id].totalAmount, !.status = s]
<1>4. res[id] \in Reservation /\ res \in [Ids -> Reservation]
  BY DEF IndInv, TypeOK
<1>5. q \in Reservation /\ SameTerms(q, res[id]) /\ q.status = s
      /\ q.releasedAmount = res[id].releasedAmount + (gross + back)
  BY <1>1, <1>2, <1>3, <1>4, Zenon DEF Reservation, SameTerms
<1>6. res' = [res EXCEPT ![id] = q]
  BY <1>4, Zenon DEF Close
<1> HIDE DEF q
<1>7. gross + back <= Remaining(res[id])
  BY <1>1 DEF Remaining
<1>8. Distribute(res[id], gross, back)
      /\ UNCHANGED <<nextReservationId, config, activeProviders, now>>
  BY DEF Close
<1> QED BY <1>5, <1>6, <1>7, <1>8, Payout, Zenon

(* A refund splits what remains into two parts. *)
LEMMA RefundSplit ==
  ASSUME IndInv, NEW id \in Ids
  PROVE  LET e == EarnedUnreleased(res[id])
         IN  /\ e \in Nat /\ Remaining(res[id]) - e \in Nat
             /\ e + (Remaining(res[id]) - e) = Remaining(res[id])
<1> DEFINE r == res[id]
           e == EarnedUnreleased(r)
<1>1. r \in Reservation /\ r.totalAmount \in Nat /\ r.releasedAmount \in Nat
      /\ r.startTime \in Nat /\ r.duration \in Nat /\ now \in Nat
      /\ r.releasedAmount <= r.totalAmount
  BY DEF IndInv, TypeOK, ReservationsSound, Reservation
<1>2. e \in Nat /\ Remaining(r) - e \in Nat
  <2>1. CASE r.status = "Active"
    <3>1. r.duration > 0 /\ Elapsed(r) \in Nat /\ Elapsed(r) <= r.duration
      BY <1>1, <2>1 DEF IndInv, ReservationsSound, Elapsed
    <3>2. Proportional(r, Elapsed(r)) \in 0..r.totalAmount
      BY <1>1, <3>1, ProportionalRange
    <3> QED BY <1>1, <3>2 DEF EarnedUnreleased, Remaining
  <2>2. CASE r.status # "Active"
    BY <1>1, <2>2 DEF EarnedUnreleased, Remaining
  <2> QED BY <2>1, <2>2
<1>3. e + (Remaining(r) - e) = Remaining(r)
  BY <1>1, <1>2 DEF Remaining
<1> QED BY <1>2, <1>3

(* A step of the owner, the staking contract or the clock touches neither  *)
(* the reservations nor the ledger.                                        *)
LEMMA Elsewhere ==
  ASSUME IndInv, UNCHANGED <<res, nextReservationId, ledger>>,
         protocolFeeBps' \in 0..MAX_PROTOCOL_FEE_BPS, feeBurnBps' \in 0..BPS_DENOMINATOR,
         treasury' \in Treasuries, lowBalanceThresholdBps' \in 0..MAX_THRESHOLD_BPS, paused' \in BOOLEAN, stakingSet' \in BOOLEAN,
         activeProviders' \in SUBSET Providers, now' \in Nat, now <= now'
  PROVE  IndInv'
<1>1. TypeOK'
  BY DEF IndInv, TypeOK, ledger
<1>2. ReservationsSound'
  BY DEF IndInv, TypeOK, ReservationsSound, Reservation
<1>3. Solvent'
  BY DEF IndInv, Solvent, ledger, Remaining
<1> QED BY <1>1, <1>2, <1>3 DEF IndInv, ledger

LEMMA InitIndInv == Init => IndInv
<1> SUFFICES ASSUME Init PROVE IndInv
  OBVIOUS
<1>1. EmptyReservation \in Reservation
  BY DEF EmptyReservation, Reservation, NoProviders, Status
<1>2. TypeOK
  <2>1. token \in [Accounts -> Nat]
    BY ConstantsAssumption DEF Init
  <2>2. res \in [Ids -> Reservation]
    BY <1>1 DEF Init
  <2>3. 500 \in 0..MAX_PROTOCOL_FEE_BPS /\ 8000 \in 0..BPS_DENOMINATOR
        /\ 2000 \in 0..MAX_THRESHOLD_BPS
    BY DEF MAX_PROTOCOL_FEE_BPS, BPS_DENOMINATOR, MAX_THRESHOLD_BPS
  <2>4. activeProviders \in SUBSET Providers
    BY DEF Init
  <2>5. paused = FALSE /\ stakingSet = FALSE
    BY DEF Init
  <2>6. paused \in BOOLEAN /\ stakingSet \in BOOLEAN
    BY <2>5, Zenon
  <2> QED BY <2>1, <2>2, <2>3, <2>4, <2>6 DEF Init, TypeOK
<1>3. ReservationsSound
  BY DEF Init, ReservationsSound, EmptyReservation, Terminal
<1>4. Solvent
  <2>1. IsFiniteSet(Ids)
    BY ConstantsAssumption, FS_Interval DEF Ids
  <2>2. \A i \in Ids : Owed[i] = 0
    BY DEF Init, Owed, Remaining, EmptyReservation
  <2>3. SumOver(Owed, Ids) = 0
    <3> HIDE DEF Owed
    <3> QED BY <2>1, <2>2, SumOverZero
  <2>4. token[Escrow] = 0
    BY AddressAssumption DEF Init, Accounts
  <2> QED BY <2>3, <2>4 DEF Solvent, Owed
<1> QED BY <1>2, <1>3, <1>4 DEF IndInv, Init, EmptyReservation, MAX_PROTOCOL_FEE_BPS,
                                ProvidersNamed

(* Every step keeps the invariant: one case per action. *)
LEMMA StepIndInv == IndInv /\ [Next]_vars => IndInv'
<1> SUFFICES ASSUME IndInv, [Next]_vars PROVE IndInv'
  OBVIOUS
<1> USE ConstantsAssumption
<1>t. /\ protocolFeeBps \in 0..MAX_PROTOCOL_FEE_BPS /\ feeBurnBps \in 0..BPS_DENOMINATOR
      /\ treasury \in Treasuries /\ lowBalanceThresholdBps \in 0..MAX_THRESHOLD_BPS
      /\ paused \in BOOLEAN /\ stakingSet \in BOOLEAN
      /\ activeProviders \in SUBSET Providers /\ now \in Nat
      /\ \A id \in Ids : res[id] \in Reservation /\ res[id].duration \in Nat
  BY DEF IndInv, TypeOK, Reservation
<1>1. CASE RequesterStep
  <2>1. ASSUME NEW u \in Requesters, NEW a \in Amounts, NEW d \in Durations,
               CreateReservation(u, a, d)
        PROVE  IndInv'
    BY <2>1, NewReservation
  <2>2. ASSUME NEW u \in Requesters, NEW id \in Ids, NEW a \in Amounts,
               IncreaseDeposit(u, id, a)
        PROVE  IndInv'
    BY <2>2, TopUp
  <2>3. ASSUME NEW id \in Ids, Refund(id) PROVE IndInv'
    <3> DEFINE r == res[id]
               e == EarnedUnreleased(r)
    <3>2. e \in Nat /\ Remaining(r) - e \in Nat /\ e + (Remaining(r) - e) = Remaining(r)
      BY <2>3, RefundSplit
    <3>4. r.status \in {"Created", "Active"} /\ Close(id, "Refunded", e, Remaining(r) - e)
      BY <2>3 DEF Refund, Refundable
    <3> HIDE DEF e
    <3> QED BY <3>2, <3>4, Closing DEF Terminal
  <2> QED BY <1>1, <2>1, <2>2, <2>3 DEF RequesterStep
<1>2. CASE OperatorStep
  <2>1. ASSUME NEW id \in Ids, NEW ps \in [Slots -> Providers], SelectProviders(id, ps)
        PROVE  IndInv'
    BY <2>1, Selection
  <2>2. ASSUME NEW id \in Ids, NEW d \in 0..res[id].duration, ReleasePayment(id, d)
        PROVE  IndInv'
    BY <2>2, <1>t, Releasing DEF ReleasePayment
  <2>3. ASSUME NEW id \in Ids, FinalizeReservation(id) PROVE IndInv'
    <3>1. Remaining(res[id]) \in Nat /\ Remaining(res[id]) + 0 = Remaining(res[id])
      BY DEF IndInv, TypeOK, ReservationsSound, Remaining, Reservation
    <3> QED BY <2>3, <3>1, Closing DEF FinalizeReservation, Terminal
  <2>4. ASSUME NEW id \in Ids, NEW x \in DisputeAmounts, x <= Remaining(res[id]),
               SettleDispute(id, x, Remaining(res[id]) - x)
        PROVE  IndInv'
    <3>1. x \in Nat /\ Remaining(res[id]) \in Nat
      BY DEF IndInv, TypeOK, ReservationsSound, Remaining, Reservation
    <3>2. Remaining(res[id]) - x \in Nat
          /\ (Remaining(res[id]) - x) + x = Remaining(res[id])
      BY <2>4, <3>1
    <3> QED BY <2>4, <3>1, <3>2, Closing DEF SettleDispute, Terminal
  <2> QED BY <1>2, <2>1, <2>2, <2>3, <2>4 DEF OperatorStep
<1>3. ASSUME NEW p \in Providers, NEW id \in Ids, Claim(p, id) PROVE IndInv'
  <2>1. Elapsed(res[id]) \in Nat /\ Elapsed(res[id]) <= res[id].duration
    BY <1>3, <1>t DEF Claim, Elapsed, IndInv, ReservationsSound, Reservation
  <2> QED BY <1>3, <2>1, Releasing DEF Claim
<1>4. CASE OwnerStep
  <2>1. UNCHANGED <<res, nextReservationId, ledger, activeProviders, now>>
    BY <1>4 DEF OwnerStep
  <2>2. /\ protocolFeeBps' \in 0..MAX_PROTOCOL_FEE_BPS /\ feeBurnBps' \in 0..BPS_DENOMINATOR
        /\ treasury' \in Treasuries /\ lowBalanceThresholdBps' \in 0..MAX_THRESHOLD_BPS
    <3>1. ASSUME NEW bps \in FeeChoices, SetProtocolFee(bps) PROVE <2>2!:
      BY <3>1, <1>t DEF SetProtocolFee
    <3>2. ASSUME NEW bps \in BurnChoices, SetFeeSplit(bps) PROVE <2>2!:
      BY <3>2, <1>t DEF SetFeeSplit
    <3>3. ASSUME NEW a \in Treasuries, SetTreasury(a) PROVE <2>2!:
      BY <3>3, <1>t DEF SetTreasury
    <3>4. ASSUME NEW bps \in ThresholdChoices, SetLowBalanceThreshold(bps) PROVE <2>2!:
      <4>1. bps \in Nat /\ bps <= MAX_THRESHOLD_BPS
        BY <3>4 DEF SetLowBalanceThreshold
      <4>2. bps \in 0..MAX_THRESHOLD_BPS
        BY <4>1 DEF MAX_THRESHOLD_BPS
      <4> QED BY <3>4, <4>2, <1>t, Zenon DEF SetLowBalanceThreshold
    <3>5. ASSUME SetStakingContract PROVE <2>2!:
      BY <3>5, <1>t DEF SetStakingContract
    <3>6. ASSUME NEW b \in BOOLEAN, SetPaused(b) PROVE <2>2!:
      BY <3>6, <1>t DEF SetPaused
    <3> QED BY <1>4, <3>1, <3>2, <3>3, <3>4, <3>5, <3>6 DEF OwnerStep
  <2>3. paused' \in BOOLEAN /\ stakingSet' \in BOOLEAN
    <3>1. (\E b \in BOOLEAN : SetPaused(b)) \/ SetStakingContract
            \/ (paused' = paused /\ stakingSet' = stakingSet)
      BY <1>4, Zenon DEF OwnerStep, SetProtocolFee, SetFeeSplit, SetTreasury, SetLowBalanceThreshold
    <3> QED BY <3>1, <1>t, Zenon DEF SetPaused, SetStakingContract
  <2> QED BY <1>t, <2>1, <2>2, <2>3, Elsewhere
<1>5. ASSUME NEW p \in Restaking, StakingChanges(p) PROVE IndInv'
  BY <1>5, <1>t, Elsewhere DEF StakingChanges, config
<1>6. CASE Tick
  BY <1>6, <1>t, Elsewhere DEF Tick, config
<1>7. CASE UNCHANGED vars
  BY <1>7, <1>t, Elsewhere DEF vars, config
<1> QED BY <1>1, <1>2, <1>3, <1>4, <1>5, <1>6, <1>7 DEF Next

(* The inductive invariant holds in every reachable state: besides         *)
(* solvency, no reservation releases more than was deposited for it, none  *)
(* that is open lacks a requester, a duration or its three providers, an   *)
(* id not handed out is empty, and no snapshot exceeds the largest fee.    *)
THEOREM AlwaysIndInv == Spec => []IndInv
BY InitIndInv, StepIndInv, PTL DEF Spec

(* The contract is solvent in every reachable state: its balance is        *)
(* exactly the sum of what createReservation and increaseDeposit took in   *)
(* and claim, releasePayment, finalizeReservation, refund and              *)
(* settleDispute have not yet released.                                    *)
THEOREM AlwaysSolvent == Spec => []Solvent
<1>1. IndInv => Solvent
  BY DEF IndInv
<1> QED BY <1>1, AlwaysIndInv, PTL

(* No deposit is ever locked in: whatever the other reservations were paid *)
(* and whether or not the contract is paused, refund of an open one passes *)
(* its checks, does not underflow and finds both its transfers covered.    *)
THEOREM ExitNeverBlocked == Spec => []ExitAlwaysPossible
<1>1. ASSUME IndInv, NEW id \in Ids, res[id].status \in {"Created", "Active"}
      PROVE  Refundable(id)
  <2>1. EarnedUnreleased(res[id]) \in Nat /\ Remaining(res[id]) \in Int
        /\ Remaining(res[id]) - EarnedUnreleased(res[id]) \in Nat
    <3>1. Remaining(res[id]) \in Int
      BY <1>1 DEF IndInv, TypeOK, Reservation, Remaining
    <3> QED BY <1>1, <3>1, RefundSplit
  <2>2. Owed[id] <= SumOver(Owed, Ids)
    <3>1. IsFiniteSet(Ids)
      BY ConstantsAssumption, FS_Interval DEF Ids
    <3>2. \A x \in Ids : Owed[x] \in Nat
      BY <1>1, OwedType
    <3> QED BY <3>1, <3>2, SumOverBound
  <2>3. token[Escrow] = SumOver(Owed, Ids)
    BY <1>1 DEF IndInv, Solvent, Owed
  <2>4. Owed[id] = Remaining(res[id])
    BY DEF Owed
  <2> QED BY <1>1, <2>1, <2>2, <2>3, <2>4 DEF Refundable
<1>2. IndInv => ExitAlwaysPossible
  BY <1>1 DEF ExitAlwaysPossible
<1> QED BY <1>2, AlwaysIndInv, PTL

(* No reservation releases more than was deposited, and a closed one has   *)
(* released everything.                                                    *)
THEOREM AlwaysSound == Spec => []ReservationsSound
<1>1. IndInv => ReservationsSound
  BY DEF IndInv
<1> QED BY <1>1, AlwaysIndInv, PTL

(* The state variables keep their types. *)
THEOREM TypeCorrect == Spec => []TypeOK
<1>1. IndInv => TypeOK
  BY DEF IndInv
<1> QED BY <1>1, AlwaysIndInv, PTL

LEMMA ClosedStep ==
  ASSUME IndInv, [Next]_vars, NEW id \in Ids, res[id].status \in Terminal
  PROVE  res'[id] = res[id]
<1> USE DEF Terminal
<1>t. res \in [Ids -> Reservation] /\ nextReservationId \in Nat
  BY DEF IndInv, TypeOK
<1>1. CASE RequesterStep
  <2>1. ASSUME NEW u \in Requesters, NEW a \in Amounts, NEW d \in Durations,
               CreateReservation(u, a, d)
        PROVE  res'[id] = res[id]
    <3>1. nextReservationId # id
      BY <1>t DEF IndInv, Ids
    <3> QED BY <2>1, <3>1, <1>t DEF CreateReservation
  <2> QED BY <1>1, <2>1, <1>t, Zenon DEF RequesterStep, IncreaseDeposit, Refund, Refundable, Close
<1>2. CASE OperatorStep
  BY <1>2, <1>t, Zenon DEF OperatorStep, SelectProviders, ReleasePayment, Release,
                    FinalizeReservation, SettleDispute, Close
<1>3. ASSUME NEW p \in Providers, NEW k \in Ids, Claim(p, k) PROVE res'[id] = res[id]
  BY <1>3, <1>t DEF Claim, Release
<1>4. CASE OwnerStep
  BY <1>4 DEF OwnerStep
<1>5. ASSUME NEW p \in Restaking, StakingChanges(p) PROVE res'[id] = res[id]
  BY <1>5 DEF StakingChanges
<1>6. CASE Tick \/ UNCHANGED vars
  BY <1>6 DEF Tick, vars
<1> QED BY <1>1, <1>2, <1>3, <1>4, <1>5, <1>6 DEF Next

(* A reservation that finalizeReservation, refund or settleDispute has     *)
(* closed is never changed again: no later claim, top-up or second refund  *)
(* reaches it.                                                             *)
THEOREM ClosedStaysClosed == Spec => ClosedForever
<1>1. IndInv /\ [Next]_vars =>
        [\A id \in Ids : res[id].status \in Terminal => res'[id] = res[id]]_vars
  BY ClosedStep
<1> QED BY <1>1, InitIndInv, StepIndInv, PTL DEF Spec, ClosedForever
-----------------------------------------------------------------------------
(* What a step does to the accounts, whichever function was called: it     *)
(* pays gross to the providers of a reservation and back to its requester, *)
(* takes a deposit, or moves nothing.                                      *)

(* The common outcome of claim, releasePayment, finalizeReservation,       *)
(* refund and settleDispute.                                               *)
Pays(id, gross, back) ==
  /\ res[id].status \in {"Created", "Active"}
  /\ res[id].status = "Created" => gross = 0
  /\ Distribute(res[id], gross, back)
  /\ res'[id].releasedAmount = res[id].releasedAmount + (gross + back)
  /\ res[id].status = "Active" /\ res'[id].status = "Refunded" =>
       gross = EarnedUnreleased(res[id]) /\ back = Remaining(res[id]) - gross
  /\ \A j \in Ids : j # id => res'[j] = res[j]

Deposits(u, amount) ==
  /\ token' = [token EXCEPT ![u] = @ - amount, ![Escrow] = @ + amount]
  /\ token[u] >= amount
  /\ UNCHANGED <<totalBurned, totalTreasuryFees>>

(* Neither a deposit nor any other step releases or refunds anything. *)
NothingReleased ==
  \A id \in Ids :
    /\ res[id].status # "None" => res'[id].releasedAmount = res[id].releasedAmount
    /\ res[id].status = "None" => res'[id].releasedAmount = 0
    /\ res[id].status = "Active" => res'[id].status # "Refunded"

LEMMA ReleasePays ==
  ASSUME IndInv, NEW id \in Ids, NEW t \in Nat, t <= res[id].duration,
         res[id].status = "Active", Release(id, t)
  PROVE  \E gross \in Nat : Pays(id, gross, 0)
<1> DEFINE r == res[id]
           gross == Proportional(r, t) - r.releasedAmount
<1>1. r \in Reservation /\ r.duration > 0 /\ res \in [Ids -> Reservation]
      /\ r.releasedAmount \in Nat
  BY DEF IndInv, TypeOK, ReservationsSound, Reservation
<1>2. Proportional(r, t) \in Nat
  <2>1. Proportional(r, t) \in 0..r.totalAmount
    BY <1>1, ProportionalRange
  <2>2. r.totalAmount \in Nat
    BY <1>1 DEF Reservation
  <2> QED BY <2>1, <2>2
<1>3. gross \in Nat
  BY <1>1, <1>2 DEF Release
<1>4. res' = [res EXCEPT ![id] = [r EXCEPT !.releasedAmount = @ + gross]]
  BY <1>1 DEF Release
<1>5. Distribute(r, gross, 0)
  BY DEF Release
<1> HIDE DEF gross
<1>6. res'[id].releasedAmount = r.releasedAmount + (gross + 0) /\ res'[id].status = "Active"
      /\ \A j \in Ids : j # id => res'[j] = res[j]
  BY <1>1, <1>3, <1>4 DEF Reservation
<1> QED BY <1>3, <1>5, <1>6 DEF Pays

LEMMA ClosePays ==
  ASSUME IndInv, NEW id \in Ids, NEW gross \in Nat, NEW back \in Nat, NEW s,
         res[id].status \in {"Created", "Active"}, res[id].status = "Created" => gross = 0,
         s = "Refunded" => gross = EarnedUnreleased(res[id]),
         gross + back = Remaining(res[id]), Close(id, s, gross, back)
  PROVE  Pays(id, gross, back)
<1> DEFINE r == res[id]
<1>1. r \in Reservation /\ res \in [Ids -> Reservation] /\ r.totalAmount \in Nat
      /\ r.releasedAmount \in Nat
  BY DEF IndInv, TypeOK, Reservation
<1>2. res' = [res EXCEPT ![id] = [r EXCEPT !.releasedAmount = r.totalAmount, !.status = s]]
  BY <1>1, Zenon DEF Close
<1>3. res'[id].releasedAmount = r.totalAmount /\ res'[id].status = s
      /\ \A j \in Ids : j # id => res'[j] = res[j]
  BY <1>1, <1>2 DEF Reservation
<1>4. r.totalAmount = r.releasedAmount + (gross + back) /\ back = Remaining(r) - gross
  BY <1>1 DEF Remaining
<1>5. Distribute(r, gross, back)
  BY DEF Close
<1> QED BY <1>3, <1>4, <1>5 DEF Pays

LEMMA StepKinds ==
  ASSUME IndInv, [Next]_vars
  PROVE  \/ \E id \in Ids, gross, back \in Nat : Pays(id, gross, back)
         \/ NothingReleased /\ \E u \in Requesters, amount \in Nat : Deposits(u, amount)
         \/ NothingReleased /\ UNCHANGED ledger
<1> USE ConstantsAssumption
<1>t. res \in [Ids -> Reservation] /\ nextReservationId \in Nat
      /\ \A id \in Ids : /\ res[id].status = "None" => res[id].releasedAmount = 0
                         /\ id >= nextReservationId => res[id].status = "None"
                         /\ res[id].duration \in Nat
  BY DEF IndInv, TypeOK, EmptyReservation, Reservation
<1>n. UNCHANGED res => NothingReleased
  BY <1>t DEF NothingReleased
<1>1. CASE RequesterStep
  <2>1. ASSUME NEW u \in Requesters, NEW a \in Amounts, NEW d \in Durations,
               CreateReservation(u, a, d)
        PROVE  NothingReleased /\ a \in Nat /\ Deposits(u, a)
    BY <2>1, <1>t DEF CreateReservation, NothingReleased, Deposits
  <2>2. ASSUME NEW u \in Requesters, NEW id \in Ids, NEW a \in Amounts,
               IncreaseDeposit(u, id, a)
        PROVE  NothingReleased /\ a \in Nat /\ Deposits(u, a)
    <3>1. \A j \in Ids : res'[j].releasedAmount = res[j].releasedAmount
                         /\ res'[j].status = res[j].status
      BY <2>2, <1>t DEF IncreaseDeposit, Reservation
    <3>2. NothingReleased
      BY <3>1, <1>t DEF NothingReleased
    <3> QED BY <2>2, <3>2 DEF IncreaseDeposit, Deposits
  <2>3. ASSUME NEW id \in Ids, Refund(id)
        PROVE  \E gross, back \in Nat : Pays(id, gross, back)
    <3> DEFINE r == res[id]
               e == EarnedUnreleased(r)
    <3>1. e \in Nat /\ Remaining(r) - e \in Nat /\ e + (Remaining(r) - e) = Remaining(r)
      BY <2>3, RefundSplit
    <3>2. r.status \in {"Created", "Active"} /\ Close(id, "Refunded", e, Remaining(r) - e)
      BY <2>3 DEF Refund, Refundable
    <3>3. r.status = "Created" => e = 0
      BY DEF EarnedUnreleased
    <3>4. Pays(id, e, Remaining(r) - e)
      <4> HIDE DEF e
      <4> QED BY <3>1, <3>2, <3>3, ClosePays DEF e
    <3> QED BY <3>1, <3>4
  <2> QED BY <1>1, <2>1, <2>2, <2>3 DEF RequesterStep
<1>2. CASE OperatorStep
  <2>1. ASSUME NEW id \in Ids, NEW ps \in [Slots -> Providers], SelectProviders(id, ps)
        PROVE  NothingReleased /\ UNCHANGED ledger
    <3>1. \A j \in Ids : res'[j].releasedAmount = res[j].releasedAmount
                         /\ res'[j].status \in {res[j].status, "Active"}
      BY <2>1, <1>t DEF SelectProviders, Reservation
    <3>2. NothingReleased
      BY <3>1, <1>t DEF NothingReleased
    <3> QED BY <2>1, <3>2 DEF SelectProviders
  <2>2. ASSUME NEW id \in Ids, NEW d \in 0..res[id].duration, ReleasePayment(id, d)
        PROVE  \E gross \in Nat : Pays(id, gross, 0)
    BY <2>2, <1>t, ReleasePays DEF ReleasePayment
  <2>3. ASSUME NEW id \in Ids, FinalizeReservation(id)
        PROVE  \E gross \in Nat : Pays(id, gross, 0)
    <3>1. Remaining(res[id]) \in Nat /\ Remaining(res[id]) + 0 = Remaining(res[id])
      BY DEF IndInv, TypeOK, ReservationsSound, Remaining, Reservation
    <3>2. Pays(id, Remaining(res[id]), 0)
      BY <2>3, <3>1, ClosePays DEF FinalizeReservation
    <3> QED BY <3>1, <3>2
  <2>4. ASSUME NEW id \in Ids, NEW x \in DisputeAmounts, x <= Remaining(res[id]),
               SettleDispute(id, x, Remaining(res[id]) - x)
        PROVE  \E gross, back \in Nat : Pays(id, gross, back)
    <3>1. x \in Nat /\ Remaining(res[id]) \in Nat
      BY DEF IndInv, TypeOK, ReservationsSound, Remaining, Reservation
    <3>2. Remaining(res[id]) - x \in Nat
          /\ (Remaining(res[id]) - x) + x = Remaining(res[id])
      BY <2>4, <3>1
    <3>3. Pays(id, Remaining(res[id]) - x, x)
      BY <2>4, <3>1, <3>2, ClosePays DEF SettleDispute
    <3> QED BY <3>1, <3>2, <3>3
  <2> QED BY <1>2, <2>1, <2>2, <2>3, <2>4 DEF OperatorStep
<1>3. ASSUME NEW p \in Providers, NEW id \in Ids, Claim(p, id)
      PROVE  \E gross \in Nat : Pays(id, gross, 0)
  <2>1. Elapsed(res[id]) \in Nat /\ Elapsed(res[id]) <= res[id].duration
    BY <1>3 DEF Claim, Elapsed, IndInv, TypeOK, ReservationsSound, Reservation
  <2> QED BY <1>3, <2>1, ReleasePays DEF Claim
<1>4. CASE OwnerStep
  BY <1>4, <1>n DEF OwnerStep
<1>5. ASSUME NEW p \in Restaking, StakingChanges(p)
      PROVE  NothingReleased /\ UNCHANGED ledger
  BY <1>5, <1>n DEF StakingChanges
<1>6. CASE Tick \/ UNCHANGED vars
  BY <1>6, <1>n DEF Tick, vars
<1>7. 0 \in Nat
  OBVIOUS
<1> QED BY <1>1, <1>2, <1>3, <1>4, <1>5, <1>6, <1>7, Zenon DEF Next

(* How many slots an account holds, slot by slot. *)
Holds(ps, i, a) == IF ps[i] = a THEN 1 ELSE 0

LEMMA SlotsHeld ==
  ASSUME NEW ps, NEW a
  PROVE  Cardinality({i \in Slots : ps[i] = a})
           = Holds(ps, 1, a) + Holds(ps, 2, a) + Holds(ps, 3, a)
<1> DEFINE A(n) == {i \in 1..n : ps[i] = a}
<1>1. Slots = 1..3
  BY DEF Slots, PROVIDERS_PER_RESERVATION
<1>2. A(0) = {}
  OBVIOUS
<1>3. A(1) = (IF ps[1] = a THEN A(0) \cup {1} ELSE A(0)) /\ 1 \notin A(0)
  OBVIOUS
<1>4. A(2) = (IF ps[2] = a THEN A(1) \cup {2} ELSE A(1)) /\ 2 \notin A(1)
  OBVIOUS
<1>5. A(3) = (IF ps[3] = a THEN A(2) \cup {3} ELSE A(2)) /\ 3 \notin A(2)
  OBVIOUS
<1> HIDE DEF A
<1>6. IsFiniteSet(A(0)) /\ Cardinality(A(0)) = 0
  BY <1>2, FS_EmptySet
<1>7. IsFiniteSet(A(1)) /\ Cardinality(A(1)) = Holds(ps, 1, a)
  BY <1>3, <1>6, FS_AddElement DEF Holds
<1>8. IsFiniteSet(A(2)) /\ Cardinality(A(2)) = Holds(ps, 1, a) + Holds(ps, 2, a)
  BY <1>4, <1>7, FS_AddElement DEF Holds
<1>9. Cardinality(A(3)) = Holds(ps, 1, a) + Holds(ps, 2, a) + Holds(ps, 3, a)
  BY <1>5, <1>8, FS_AddElement DEF Holds
<1> QED BY <1>1, <1>9 DEF A

(* A share is the equal part of each slot held, and the dust of the first. *)
LEMMA ShareBySlot ==
  ASSUME NEW r, NEW gross, gross - Fee(r, gross) \in Nat
  PROVE  \E part, dust \in Nat :
           /\ part * 3 + dust = gross - Fee(r, gross) /\ dust < 3
           /\ \A a : ProviderShare(r, gross, a)
                = part * Holds(r.providers, 1, a) + part * Holds(r.providers, 2, a)
                    + part * Holds(r.providers, 3, a) + dust * Holds(r.providers, 1, a)
<1> DEFINE net == gross - Fee(r, gross)
           part == net \div 3
           dust == net - part * 3
<1>1. ASSUME NEW a PROVE ProviderShare(r, gross, a)
        = part * Cardinality({i \in Slots : r.providers[i] = a})
            + (IF r.providers[1] = a THEN dust ELSE 0)
  BY DEF ProviderShare, PROVIDERS_PER_RESERVATION
<1>2. net \in Nat
  OBVIOUS
<1> HIDE DEF net
<1>3. part \in Nat /\ dust \in Nat /\ part * 3 + dust = net /\ dust < 3
  BY <1>2
<1> HIDE DEF part, dust
<1>4. ASSUME NEW a
      PROVE  ProviderShare(r, gross, a)
                = part * Holds(r.providers, 1, a) + part * Holds(r.providers, 2, a)
                    + part * Holds(r.providers, 3, a) + dust * Holds(r.providers, 1, a)
  <2>1. ProviderShare(r, gross, a)
          = part * (Holds(r.providers, 1, a) + Holds(r.providers, 2, a) + Holds(r.providers, 3, a))
              + (IF r.providers[1] = a THEN dust ELSE 0)
    BY <1>1, SlotsHeld, Zenon
  <2> QED BY <1>3, <2>1 DEF Holds
<1> QED BY <1>3, <1>4 DEF net

LEMMA AccountsFinite == IsFiniteSet(Accounts) /\ IsFiniteSet(Treasuries)
<1>1. IsFiniteSet(Requesters \cup Providers)
  BY AddressAssumption, FS_Union, Zenon
<1>2. IsFiniteSet((Requesters \cup Providers) \cup Treasuries)
  BY <1>1, AddressAssumption, FS_Union, Zenon
<1>3. IsFiniteSet({Escrow})
  BY FS_Singleton, Zenon
<1>4. IsFiniteSet(((Requesters \cup Providers) \cup Treasuries) \cup {Escrow})
  BY <1>2, <1>3, FS_Union, Zenon
<1> QED BY <1>4, AddressAssumption DEF Accounts

(* A deposit moves tokens between two accounts. *)
LEMMA DepositConserves ==
  ASSUME TypeOK, NEW u \in Requesters, NEW amount \in Nat, Deposits(u, amount)
  PROVE  SumOver(token', Accounts) = SumOver(token, Accounts)
<1>1. u \in Accounts /\ Escrow \in Accounts /\ u # Escrow
  BY AddressAssumption DEF Accounts
<1> DEFINE t == [token EXCEPT ![u] = @ - amount]
<1>2. Credited(t, token, Accounts, u, -amount) /\ Credited(token', t, Accounts, Escrow, amount)
  BY <1>1 DEF TypeOK, Deposits, Credited
<1>3. /\ -amount \in Int /\ amount \in Int
      /\ \A a \in Accounts : token[a] \in Int
  BY DEF TypeOK
<1> HIDE DEF t
<1>4. SumOver(t, Accounts) = SumOver(token, Accounts) + (-amount)
  BY <1>1, <1>2, <1>3, AccountsFinite, Credit, Zenon
<1>5. SumOver(token', Accounts) = SumOver(t, Accounts) + amount
  BY <1>1, <1>2, <1>3, AccountsFinite, Credit, Zenon
<1>6. SumOver(token, Accounts) \in Int
  BY <1>3, AccountsFinite, SumOverType
<1> QED BY <1>4, <1>5, <1>6

(* A payment leaves the escrow account and arrives in full: the fee with   *)
(* the treasury or burned, the shares and the dust with the providers, the *)
(* rest with the requester.                                                *)
LEMMA PaymentConserves ==
  ASSUME IndInv, NEW id \in Ids, NEW gross \in Nat, NEW back \in Nat, Pays(id, gross, back)
  PROVE  SumOver(token', Accounts) + totalBurned' = SumOver(token, Accounts) + totalBurned
<1> DEFINE r == res[id]
           p == r.providers
           fee == Fee(r, gross)
           burn == Burn(r, gross)
<1>1. r \in Reservation /\ r.feeBps <= MAX_PROTOCOL_FEE_BPS /\ TypeOK
      /\ r.requester \in Requesters
  BY DEF IndInv, TypeOK, ReservationsSound, Pays
<1>2. fee \in 0..gross /\ burn \in 0..fee
  BY <1>1, FeeRange
<1>3. PICK part \in Nat, dust \in Nat :
           /\ part * 3 + dust = gross - fee
           /\ \A a : ProviderShare(r, gross, a)
                = part * Holds(p, 1, a) + part * Holds(p, 2, a)
                    + part * Holds(p, 3, a) + dust * Holds(p, 1, a)
  BY <1>2, ShareBySlot
<1>4. /\ totalBurned' = totalBurned + burn /\ totalBurned \in Nat
      /\ \A a \in Accounts : token'[a] =
           IF a = Escrow THEN token[a] - (gross + back)
           ELSE token[a] + ProviderShare(r, gross, a)
                  + (IF a = treasury THEN fee - burn ELSE 0)
                  + (IF a = r.requester THEN back ELSE 0)
  BY <1>1 DEF Pays, Distribute, TypeOK
<1>5. /\ Escrow \in Accounts /\ treasury \in Accounts \ {Escrow}
      /\ r.requester \in Accounts \ {Escrow}
      /\ \A a \in Accounts : token[a] \in Int
  BY <1>1, AddressAssumption DEF TypeOK, Accounts
<1>6. /\ fee \in Int /\ burn \in Int /\ fee - burn \in Int
      /\ part \in Int /\ dust \in Int /\ back \in Int
  BY <1>2
<1>7. SumOver(token, Accounts) \in Int
  BY <1>5, AccountsFinite, SumOverType, Zenon
<1>8. CASE r.status = "Created"
  <2>1. gross = 0 /\ fee = 0 /\ burn = 0 /\ part = 0 /\ dust = 0
    <3>1. gross = 0
      BY <1>8 DEF Pays
    <3> HIDE DEF fee, burn, r
    <3>2. fee = 0 /\ burn = 0
      BY <1>2, <3>1
    <3> QED BY <1>3, <3>1, <3>2
  <2>2. \A a \in Accounts : ProviderShare(r, gross, a) = 0
    BY <1>3, <2>1 DEF Holds
  <2> DEFINE t1 == [a \in Accounts |-> token[a] + (IF a = Escrow THEN -back ELSE 0)]
  <2> HIDE DEF fee, burn, r
  <2>3. -back \in Int /\ \A a \in Accounts : t1[a] = token[a] + (IF a = Escrow THEN -back ELSE 0)
    OBVIOUS
  <2>4. Credited(t1, token, Accounts, Escrow, -back) /\ Credited(token', t1, Accounts, r.requester, back)
    BY <1>4, <1>5, <1>6, <2>1, <2>2 DEF Credited
  <2> HIDE DEF t1
  <2>5. SumOver(t1, Accounts) = SumOver(token, Accounts) + (-back)
        /\ \A a \in Accounts : t1[a] \in Int
    BY <1>5, <2>3, <2>4, AccountsFinite, Credit, Zenon
  <2>6. SumOver(token', Accounts) = SumOver(t1, Accounts) + back
    BY <1>6, <1>5, <2>4, AccountsFinite, Credit, ZenonT(30)
  <2> QED BY <1>4, <1>7, <2>1, <2>5, <2>6
<1>9. CASE r.status = "Active"
  <2>1. p[1] \in Accounts \ {Escrow} /\ p[2] \in Accounts \ {Escrow} /\ p[3] \in Accounts \ {Escrow}
    <3>1. p \in [Slots -> Providers] /\ Slots = 1..3
      BY <1>9 DEF IndInv, ProvidersNamed, Slots, PROVIDERS_PER_RESERVATION
    <3> QED BY <3>1, AddressAssumption DEF Accounts
  <2> HIDE DEF fee, burn, p, r
  <2> DEFINE t1 == [a \in Accounts |-> token[a] + (IF a = Escrow THEN -(gross + back) ELSE 0)]
             t2 == [a \in Accounts |-> t1[a] + (IF a = p[1] THEN part ELSE 0)]
             t3 == [a \in Accounts |-> t2[a] + (IF a = p[2] THEN part ELSE 0)]
             t4 == [a \in Accounts |-> t3[a] + (IF a = p[3] THEN part ELSE 0)]
             t5 == [a \in Accounts |-> t4[a] + (IF a = p[1] THEN dust ELSE 0)]
             t6 == [a \in Accounts |-> t5[a] + (IF a = treasury THEN fee - burn ELSE 0)]
  <2>2. \A a \in Accounts : token'[a] = t6[a] + (IF a = r.requester THEN back ELSE 0)
    <3> SUFFICES ASSUME NEW a \in Accounts
                 PROVE  token'[a] = t6[a] + (IF a = r.requester THEN back ELSE 0)
      OBVIOUS
    <3>1. t6[a] = token[a] + (IF a = Escrow THEN -(gross + back) ELSE 0)
                    + (IF a = p[1] THEN part ELSE 0) + (IF a = p[2] THEN part ELSE 0)
                    + (IF a = p[3] THEN part ELSE 0) + (IF a = p[1] THEN dust ELSE 0)
                    + (IF a = treasury THEN fee - burn ELSE 0)
      OBVIOUS
    <3> HIDE DEF t6
    <3>2. CASE a = Escrow
      BY <1>4, <1>5, <2>1, <3>1, <3>2
    <3>3. CASE a # Escrow
      <4>1. ProviderShare(r, gross, a)
              = (IF a = p[1] THEN part ELSE 0) + (IF a = p[2] THEN part ELSE 0)
                    + (IF a = p[3] THEN part ELSE 0) + (IF a = p[1] THEN dust ELSE 0)
        BY <1>3 DEF Holds
      <4>2. token'[a] = token[a] + ProviderShare(r, gross, a)
                  + (IF a = treasury THEN fee - burn ELSE 0)
                  + (IF a = r.requester THEN back ELSE 0)
        BY <1>4, <3>3
      <4> QED BY <1>5, <1>6, <3>1, <3>3, <4>1, <4>2
    <3> QED BY <3>2, <3>3, Zenon
  <2>3. /\ Escrow \in Accounts /\ p[1] \in Accounts /\ p[2] \in Accounts /\ p[3] \in Accounts
        /\ treasury \in Accounts /\ r.requester \in Accounts /\ -(gross + back) \in Int
    BY <1>5, <2>1
  <2>4. /\ Credited(t1, token, Accounts, Escrow, -(gross + back))
        /\ Credited(t2, t1, Accounts, p[1], part)
        /\ Credited(t3, t2, Accounts, p[2], part)
        /\ Credited(t4, t3, Accounts, p[3], part)
        /\ Credited(t5, t4, Accounts, p[1], dust)
        /\ Credited(t6, t5, Accounts, treasury, fee - burn)
        /\ Credited(token', t6, Accounts, r.requester, back)
    <3>1. \A a \in Accounts : t1[a] \in Int /\ t2[a] \in Int /\ t3[a] \in Int
      BY <1>5, <1>6, <2>3
    <3>2. \A a \in Accounts : t4[a] \in Int /\ t5[a] \in Int /\ t6[a] \in Int
      <4> HIDE DEF t3
      <4> QED BY <1>6, <3>1
    <3> QED BY <1>5, <2>2, <3>1, <3>2, ZenonT(30) DEF Credited
  <2> HIDE DEF t1, t2, t3, t4, t5, t6
  <2>5. SumOver(t1, Accounts) = SumOver(token, Accounts) + (-(gross + back))
    BY <2>3, <2>4, AccountsFinite, Credit, Zenon
  <2>6. SumOver(t2, Accounts) = SumOver(t1, Accounts) + (part)
    BY <1>6, <2>3, <2>4, AccountsFinite, Credit, ZenonT(30)
  <2>7. SumOver(t3, Accounts) = SumOver(t2, Accounts) + (part)
    BY <1>6, <2>3, <2>4, AccountsFinite, Credit, ZenonT(30)
  <2>8. SumOver(t4, Accounts) = SumOver(t3, Accounts) + (part)
    BY <1>6, <2>3, <2>4, AccountsFinite, Credit, ZenonT(30)
  <2>9. SumOver(t5, Accounts) = SumOver(t4, Accounts) + (dust)
    BY <1>6, <2>3, <2>4, AccountsFinite, Credit, ZenonT(30)
  <2>10. SumOver(t6, Accounts) = SumOver(t5, Accounts) + (fee - burn)
    BY <1>6, <2>3, <2>4, AccountsFinite, Credit, ZenonT(30)
  <2>11. SumOver(token', Accounts) = SumOver(t6, Accounts) + (back)
    BY <1>6, <2>3, <2>4, AccountsFinite, Credit, ZenonT(30)
  <2> QED BY <1>3, <1>4, <1>6, <1>7, <2>5, <2>6, <2>7, <2>8, <2>9, <2>10, <2>11
<1> QED BY <1>8, <1>9, Zenon DEF Pays

(* At the start every requester holds the initial balance, and the other   *)
(* accounts nothing.                                                       *)
LEMMA InitSupply == Init => SupplyConserved
<1> SUFFICES ASSUME Init PROVE SupplyConserved
  OBVIOUS
<1> DEFINE Others == Accounts \ Requesters
<1>1. /\ Accounts = Requesters \cup Others /\ Requesters \cap Others = {}
      /\ IsFiniteSet(Requesters) /\ IsFiniteSet(Others)
  BY AddressAssumption, AccountsFinite, FS_Subset DEF Accounts
<1>2. /\ \A a \in Requesters : token[a] = InitialBalance
      /\ \A a \in Others : token[a] = 0
      /\ \A a \in Requesters \cup Others : token[a] \in Int
      /\ InitialBalance \in Int
  BY ConstantsAssumption DEF Init, Accounts
<1> HIDE DEF Others
<1>3. SumOver(token, Requesters) = InitialBalance * Cardinality(Requesters)
  BY <1>1, <1>2, SumOverConst
<1>4. SumOver(token, Others) = 0
  BY <1>1, <1>2, SumOverZero
<1>5. SumOver(token, Requesters \cup Others) = SumOver(token, Requesters) + SumOver(token, Others)
  BY <1>1, <1>2, SumOverUnion
<1>6. SumOver(token, Accounts) = InitialBalance * Cardinality(Requesters)
  <2>1. SumOver(token, Requesters) \in Int
    BY <1>1, <1>2, SumOverType
  <2> QED BY <1>1, <1>3, <1>4, <1>5, <2>1
<1>7. totalBurned = 0 /\ SumOver(token, Accounts) \in Int
  BY <1>1, <1>2, AccountsFinite, SumOverType DEF Init
<1> QED BY <1>6, <1>7 DEF SupplyConserved

LEMMA StepSupply == IndInv /\ SupplyConserved /\ [Next]_vars => SupplyConserved'
<1> SUFFICES ASSUME IndInv, SupplyConserved, [Next]_vars PROVE SupplyConserved'
  OBVIOUS
<1>1. ASSUME NEW id \in Ids, NEW gross \in Nat, NEW back \in Nat, Pays(id, gross, back)
      PROVE  SupplyConserved'
  BY <1>1, PaymentConserves DEF SupplyConserved
<1>2. ASSUME NEW u \in Requesters, NEW amount \in Nat, Deposits(u, amount)
      PROVE  SupplyConserved'
  <2>1. SumOver(token', Accounts) = SumOver(token, Accounts) /\ totalBurned' = totalBurned
    BY <1>2, DepositConserves, Zenon DEF IndInv, Deposits
  <2> QED BY <2>1 DEF SupplyConserved
<1>3. CASE UNCHANGED ledger
  BY <1>3 DEF ledger, SupplyConserved
<1> QED BY <1>1, <1>2, <1>3, StepKinds

(* Over every sequence of deposits, claims, operator releases, refunds,    *)
(* disputes and finalizations the balances and the burned tokens add up to *)
(* what the requesters brought, whether or not accounts play two roles.    *)
THEOREM SupplyAlwaysConserved == Spec => []SupplyConserved
BY InitIndInv, InitSupply, StepIndInv, StepSupply, PTL DEF Spec
-----------------------------------------------------------------------------
(* The other results about what single accounts receive speak of accounts  *)
(* that play one role: a treasury that is also a provider or a requester   *)
(* has other income.                                                       *)
TreasuriesApart == Treasuries \cap (Requesters \cup Providers) = {}

(* What a payment does to an account that is no provider of it. *)
LEMMA NoShare ==
  ASSUME IndInv, NEW id \in Ids, NEW gross \in Nat, NEW back \in Nat, Pays(id, gross, back),
         NEW a, a \notin Providers
  PROVE  ProviderShare(res[id], gross, a) = 0
<1> DEFINE r == res[id]
           p == r.providers
<1>1. r \in Reservation /\ r.feeBps <= MAX_PROTOCOL_FEE_BPS /\ TypeOK
  BY DEF IndInv, TypeOK
<1>2. Fee(r, gross) \in 0..gross
  BY <1>1, FeeRange
<1>3. PICK part \in Nat, dust \in Nat :
           /\ part * 3 + dust = gross - Fee(r, gross)
           /\ \A x : ProviderShare(r, gross, x)
                = part * Holds(p, 1, x) + part * Holds(p, 2, x)
                    + part * Holds(p, 3, x) + dust * Holds(p, 1, x)
  BY <1>2, ShareBySlot
<1>4. CASE r.status = "Created"
  <2>1. gross = 0
    BY <1>4 DEF Pays
  <2>2. part * 3 + dust = gross - Fee(r, gross) /\ gross - Fee(r, gross) = 0
    BY <1>2, <1>3, <2>1
  <2>3. part = 0 /\ dust = 0
    <3>1. part * 3 + dust = 0
      BY <2>1, <2>2, Zenon
    <3> QED BY <3>1
  <2> QED BY <1>3, <2>3 DEF Holds
<1>5. CASE r.status = "Active"
  <2>1. Slots = 1..3 /\ p \in [Slots -> Providers]
    BY <1>5 DEF IndInv, ProvidersNamed, Slots, PROVIDERS_PER_RESERVATION
  <2>2. Holds(p, 1, a) = 0 /\ Holds(p, 2, a) = 0 /\ Holds(p, 3, a) = 0
    BY <2>1 DEF Holds
  <2> QED BY <1>3, <2>2
<1> QED BY <1>4, <1>5 DEF Pays

LEMMA InitTreasury == TreasuriesApart /\ Init => TreasuryCounted
<1> SUFFICES ASSUME TreasuriesApart, Init PROVE TreasuryCounted
  OBVIOUS
<1>1. \A a \in Treasuries : token[a] = 0
  BY DEF TreasuriesApart, Init, Accounts
<1>2. SumOver(token, Treasuries) = 0
  BY <1>1, AccountsFinite, SumOverZero
<1> QED BY <1>2 DEF Init, TreasuryCounted

LEMMA StepTreasury == TreasuriesApart /\ IndInv /\ TreasuryCounted /\ [Next]_vars => TreasuryCounted'
<1> SUFFICES ASSUME TreasuriesApart, IndInv, TreasuryCounted, [Next]_vars PROVE TreasuryCounted'
  OBVIOUS
<1>t. /\ \A a \in Treasuries : /\ a \in Accounts /\ a \notin Providers /\ a \notin Requesters
                              /\ a # Escrow /\ token[a] \in Int
      /\ treasury \in Treasuries
      /\ totalTreasuryFees \in Int
  BY AddressAssumption DEF TreasuriesApart, IndInv, TypeOK, Accounts
<1>1. ASSUME NEW id \in Ids, NEW gross \in Nat, NEW back \in Nat, Pays(id, gross, back)
      PROVE  TreasuryCounted'
  <2> DEFINE r == res[id]
             v == Fee(r, gross) - Burn(r, gross)
  <2>1. r \in Reservation /\ r.feeBps <= MAX_PROTOCOL_FEE_BPS /\ TypeOK
        /\ r.requester \in Requesters
    BY <1>1 DEF IndInv, TypeOK, ReservationsSound, Pays
  <2>2. v \in Int
    <3>1. Fee(r, gross) \in 0..gross /\ Burn(r, gross) \in 0..Fee(r, gross)
      BY <2>1, FeeRange
    <3> QED BY <3>1
  <2>3. Credited(token', token, Treasuries, treasury, v)
    <3> SUFFICES ASSUME NEW a \in Treasuries
                 PROVE  token[a] \in Int /\ token'[a] = token[a] + (IF a = treasury THEN v ELSE 0)
      BY DEF Credited
    <3>1. ProviderShare(r, gross, a) = 0
      BY <1>1, <1>t, NoShare, Zenon
    <3>2. token'[a] = token[a] + ProviderShare(r, gross, a) + (IF a = treasury THEN v ELSE 0)
                        + (IF a = r.requester THEN back ELSE 0)
      BY <1>1, <1>t, Zenon DEF Pays, Distribute
    <3> HIDE DEF v, r
    <3> QED BY <1>t, <2>1, <2>2, <3>1, <3>2
  <2>4. totalTreasuryFees' = totalTreasuryFees + v
    BY <1>1 DEF Pays, Distribute
  <2> HIDE DEF v
  <2>5. SumOver(token', Treasuries) = SumOver(token, Treasuries) + v
    BY <1>t, <2>2, <2>3, AccountsFinite, Credit, Zenon
  <2> QED BY <2>4, <2>5 DEF TreasuryCounted
<1>2. ASSUME NEW u \in Requesters, NEW amount \in Nat, Deposits(u, amount)
      PROVE  TreasuryCounted'
  <2>1. \A a \in Treasuries : token'[a] = token[a]
    BY <1>2, <1>t, Zenon DEF Deposits, IndInv, TypeOK
  <2>2. SumOver(token', Treasuries) = SumOver(token, Treasuries)
    BY <1>t, <2>1, AccountsFinite, SumOverSame
  <2> QED BY <1>2, <2>2 DEF TreasuryCounted, Deposits
<1>3. CASE UNCHANGED ledger
  BY <1>3 DEF ledger, TreasuryCounted
<1> QED BY <1>1, <1>2, <1>3, StepKinds

(* With treasuries that play no other role, no token is created or lost    *)
(* and totalTreasuryFees is exactly what the treasuries, replaced ones     *)
(* included, have received.                                                *)
THEOREM TokensAlwaysConserved ==
  ASSUME TreasuriesApart
  PROVE  Spec => []TokensConserved
<1>1. Init => IndInv /\ TokensConserved
  BY InitIndInv, InitSupply, InitTreasury DEF TokensConserved
<1>2. (IndInv /\ TokensConserved) /\ [Next]_vars => (IndInv /\ TokensConserved)'
  BY StepIndInv, StepSupply, StepTreasury DEF TokensConserved
<1> QED BY <1>1, <1>2, PTL DEF Spec
-----------------------------------------------------------------------------
(* The step that releases or refunds part of a reservation pays for it. *)
LEMMA PaymentOf ==
  ASSUME IndInv, [Next]_vars, NEW id \in Ids,
         \/ res'[id].releasedAmount # res[id].releasedAmount
         \/ res[id].status = "Active" /\ res'[id].status = "Refunded"
  PROVE  \E gross, back \in Nat : Pays(id, gross, back)
<1>1. ASSUME NEW j \in Ids, NEW gross \in Nat, NEW back \in Nat, Pays(j, gross, back)
      PROVE  j = id
  BY <1>1, Zenon DEF Pays
<1>2. CASE NothingReleased
  <2>1. res[id].status = "None" => res[id].releasedAmount = 0
    BY DEF IndInv, EmptyReservation
  <2>2. res'[id].releasedAmount = res[id].releasedAmount
    BY <1>2, <2>1, Zenon DEF NothingReleased
  <2>3. res[id].status = "Active" => res'[id].status # "Refunded"
    BY <1>2, Zenon DEF NothingReleased
  <2> QED BY <2>2, <2>3, ZenonT(30)
<1> QED BY <1>1, <1>2, StepKinds, Zenon

(* The fee of a payment, at the rate of the snapshot. *)
LEMMA FeeAtSnapshot ==
  ASSUME IndInv, NEW id \in Ids, NEW gross \in Nat, NEW back \in Nat, Pays(id, gross, back)
  PROVE  (totalBurned' + totalTreasuryFees' - totalBurned - totalTreasuryFees) * BPS_DENOMINATOR
           <= (res'[id].releasedAmount - res[id].releasedAmount) * res[id].feeBps
<1> DEFINE r == res[id]
           fee == Fee(r, gross)
           burn == Burn(r, gross)
           x == gross * r.feeBps
<1>1. /\ r \in Reservation /\ r.feeBps <= MAX_PROTOCOL_FEE_BPS /\ TypeOK
      /\ r.releasedAmount \in Nat /\ r.feeBps \in Nat
      /\ totalBurned \in Nat /\ totalTreasuryFees \in Nat
  BY Zenon DEF IndInv, TypeOK, Reservation
<1>2. fee \in 0..gross /\ burn \in 0..fee
  BY <1>1, FeeRange, Zenon
<1>3. /\ totalBurned' = totalBurned + burn /\ totalTreasuryFees' = totalTreasuryFees + (fee - burn)
      /\ res'[id].releasedAmount = r.releasedAmount + (gross + back)
  BY Zenon DEF Pays, Distribute
<1>4. fee = x \div 10000 /\ x \in Nat
  <2>1. x \in Nat
    BY <1>1, MulMono
  <2> QED BY <2>1 DEF Fee, BPS_DENOMINATOR
<1>5. x <= (gross + back) * r.feeBps
  <2>1. gross + back \in Nat /\ gross <= gross + back
    OBVIOUS
  <2>2. r.feeBps * gross <= r.feeBps * (gross + back)
    BY <1>1, <2>1, MulMono, Zenon
  <2> QED BY <1>1, <2>1, <2>2
<1> HIDE DEF x, fee, burn
<1>6. fee * 10000 <= x
  BY <1>4
<1>7. totalBurned' + totalTreasuryFees' - totalBurned - totalTreasuryFees = fee
  BY <1>1, <1>2, <1>3
<1>8. res'[id].releasedAmount - r.releasedAmount = gross + back
  BY <1>1, <1>3
<1>9. fee \in Int /\ (gross + back) * r.feeBps \in Int
  BY <1>1, <1>2, MulMono
<1> QED BY <1>4, <1>5, <1>6, <1>7, <1>8, <1>9 DEF BPS_DENOMINATOR

(* No payment for a reservation is charged more than the fee agreed when   *)
(* it was created, however often the owner changes the protocol fee.       *)
THEOREM SnapshotBoundsFee == Spec => FeeNeverAboveSnapshot
<1>1. IndInv /\ [Next]_vars =>
        [\A id \in Ids : res'[id].releasedAmount # res[id].releasedAmount =>
           (totalBurned' + totalTreasuryFees' - totalBurned - totalTreasuryFees)
              * BPS_DENOMINATOR
             <= (res'[id].releasedAmount - res[id].releasedAmount) * res[id].feeBps]_vars
  BY PaymentOf, FeeAtSnapshot
<1> QED BY <1>1, InitIndInv, StepIndInv, PTL DEF Spec, FeeNeverAboveSnapshot

(* No account is at once a requester, a provider or a treasury. *)
RolesApart == TreasuriesApart /\ Requesters \cap Providers = {}

(* What a payment brings the accounts of an active reservation. *)
LEMMA PaidOut ==
  ASSUME RolesApart, IndInv, NEW id \in Ids, res[id].status = "Active",
         NEW gross \in Nat, NEW back \in Nat, Pays(id, gross, back)
  PROVE  /\ token'[res[id].requester] - token[res[id].requester] = back
         /\ \E part, dust \in Nat :
              /\ dust < 3
              /\ \A k \in Slots : token'[res[id].providers[k]] - token[res[id].providers[k]]
                                   = part + (IF k = 1 THEN dust ELSE 0)
<1> DEFINE r == res[id]
           p == r.providers
<1>1. /\ r \in Reservation /\ r.feeBps <= MAX_PROTOCOL_FEE_BPS /\ TypeOK
      /\ r.requester \in Requesters /\ r.requester \notin Providers
      /\ r.requester \notin Treasuries /\ treasury \in Treasuries
      /\ token \in [Accounts -> Nat]
  BY DEF IndInv, TypeOK, ReservationsSound, RolesApart, TreasuriesApart
<1>2. Fee(r, gross) \in 0..gross
  BY <1>1, FeeRange, Zenon
<1>3. ASSUME NEW a \in Requesters \cup Providers
      PROVE  /\ token[a] \in Nat
             /\ token'[a] = token[a] + ProviderShare(r, gross, a) + 0
                              + (IF a = r.requester THEN back ELSE 0)
  <2>1. a \in Accounts /\ a # Escrow /\ a # treasury
    BY <1>1, AddressAssumption, Zenon DEF RolesApart, TreasuriesApart, Accounts
  <2> QED BY <1>1, <2>1, Zenon DEF Pays, Distribute
<1>4. token'[r.requester] - token[r.requester] = back
  <2>1. ProviderShare(r, gross, r.requester) = 0
    BY <1>1, NoShare, Zenon
  <2> QED BY <1>1, <1>3, <2>1
<1>5. PICK part \in Nat, dust \in Nat :
           /\ dust < 3
           /\ \A a : ProviderShare(r, gross, a)
                = part * Holds(p, 1, a) + part * Holds(p, 2, a)
                    + part * Holds(p, 3, a) + dust * Holds(p, 1, a)
  BY <1>2, ShareBySlot
<1>6. Slots = 1..3 /\ p \in [Slots -> Providers] /\ \A i, j \in Slots : i # j => p[i] # p[j]
  BY Zenon DEF IndInv, ProvidersNamed, Slots, PROVIDERS_PER_RESERVATION
<1>7. ASSUME NEW k \in Slots
      PROVE  token'[p[k]] - token[p[k]] = part + (IF k = 1 THEN dust ELSE 0)
  <2>1. ProviderShare(r, gross, p[k]) = part + (IF k = 1 THEN dust ELSE 0)
    <3> HIDE DEF p
    <3>1. /\ Holds(p, 1, p[k]) = (IF k = 1 THEN 1 ELSE 0)
          /\ Holds(p, 2, p[k]) = (IF k = 2 THEN 1 ELSE 0)
          /\ Holds(p, 3, p[k]) = (IF k = 3 THEN 1 ELSE 0)
      BY <1>6 DEF Holds
    <3>2. k = 1 \/ k = 2 \/ k = 3
      BY <1>6
    <3> QED BY <1>5, <3>1, <3>2
  <2>2. p[k] \in Providers /\ p[k] # r.requester
    BY <1>1, <1>6, Zenon
  <2>3. token[p[k]] \in Nat /\ token'[p[k]] = token[p[k]] + ProviderShare(r, gross, p[k]) + 0 + 0
    BY <1>3, <2>2
  <2> HIDE DEF p, r
  <2> QED BY <2>1, <2>3
<1> QED BY <1>4, <1>5, <1>7, ZenonT(30)

(* With accounts that play one role each: a payment reaches the three      *)
(* providers equally up to a dust of less than three tokens, a refund      *)
(* returns exactly what neither the elapsed time has earned nor the        *)
(* operator released, and no fee exceeds the agreed one.                   *)
THEOREM PaymentsAlwaysFair ==
  ASSUME RolesApart
  PROVE  Spec => PaymentsFair
<1>1. IndInv /\ [Next]_vars =>
        [\A id \in Ids : res[id].status = "Active" /\ res'[id].releasedAmount # res[id].releasedAmount =>
           \A i, j \in Slots :
             LET paid(k) == token'[res[id].providers[k]] - token[res[id].providers[k]]
             IN  paid(i) - paid(j) < PROVIDERS_PER_RESERVATION]_vars
  <2> SUFFICES ASSUME IndInv, [Next]_vars, NEW id \in Ids, res[id].status = "Active",
                      res'[id].releasedAmount # res[id].releasedAmount,
                      NEW i \in Slots, NEW j \in Slots
               PROVE  (token'[res[id].providers[i]] - token[res[id].providers[i]])
                        - (token'[res[id].providers[j]] - token[res[id].providers[j]])
                        < PROVIDERS_PER_RESERVATION
    OBVIOUS
  <2>1. PICK gross, back \in Nat : Pays(id, gross, back)
    BY PaymentOf, Zenon
  <2>2. PICK part, dust \in Nat :
              /\ dust < 3
              /\ \A k \in Slots : token'[res[id].providers[k]] - token[res[id].providers[k]]
                                   = part + (IF k = 1 THEN dust ELSE 0)
    BY <2>1, PaidOut, Zenon
  <2> QED BY <2>2 DEF PROVIDERS_PER_RESERVATION
<1>2. IndInv /\ [Next]_vars =>
        [\A id \in Ids : res[id].status = "Active" /\ res'[id].status = "Refunded" =>
           LET r == res[id]
               back == token'[r.requester] - token[r.requester]
               earned == Proportional(r, Elapsed(r))
           IN  back = r.totalAmount - (IF earned > r.releasedAmount THEN earned
                                       ELSE r.releasedAmount)]_vars
  <2> SUFFICES ASSUME IndInv, [Next]_vars, NEW id \in Ids, res[id].status = "Active",
                      res'[id].status = "Refunded"
               PROVE  token'[res[id].requester] - token[res[id].requester]
                        = res[id].totalAmount
                            - (IF Proportional(res[id], Elapsed(res[id])) > res[id].releasedAmount
                               THEN Proportional(res[id], Elapsed(res[id]))
                               ELSE res[id].releasedAmount)
    OBVIOUS
  <2> DEFINE e == Proportional(res[id], Elapsed(res[id]))
  <2>1. PICK gross, back \in Nat : Pays(id, gross, back)
    BY PaymentOf, Zenon
  <2>2. token'[res[id].requester] - token[res[id].requester] = back
    BY <2>1, PaidOut
  <2>3. back = Remaining(res[id]) - EarnedUnreleased(res[id])
    BY <2>1 DEF Pays
  <2>4. res[id].totalAmount \in Nat /\ res[id].releasedAmount \in Nat /\ e \in Nat
    <3>1. /\ res[id] \in Reservation /\ res[id].duration > 0
          /\ Elapsed(res[id]) \in Nat /\ Elapsed(res[id]) <= res[id].duration
      BY DEF IndInv, TypeOK, ReservationsSound, Elapsed, Reservation
    <3>2. e \in 0..res[id].totalAmount
      BY <3>1, ProportionalRange
    <3> QED BY <3>1, <3>2 DEF Reservation
  <2>5. EarnedUnreleased(res[id])
          = IF e > res[id].releasedAmount THEN e - res[id].releasedAmount ELSE 0
    BY DEF EarnedUnreleased
  <2> HIDE DEF e
  <2>6. back = res[id].totalAmount
                 - (IF e > res[id].releasedAmount THEN e ELSE res[id].releasedAmount)
    BY <2>3, <2>4, <2>5 DEF Remaining
  <2> QED BY <2>2, <2>6, Zenon DEF e
<1>3. Spec => []IndInv /\ [][Next]_vars
  BY InitIndInv, StepIndInv, PTL DEF Spec
<1>4. Spec => EqualShares
  BY <1>1, <1>3, PTL DEF EqualShares
<1>5. Spec => RefundHonoursEarned
  BY <1>2, <1>3, PTL DEF RefundHonoursEarned
<1> QED BY <1>4, <1>5, SnapshotBoundsFee, Zenon DEF PaymentsFair
=============================================================================
