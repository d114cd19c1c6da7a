---------------------------- MODULE BunkerEscrow ----------------------------
(***************************************************************************)
(* contracts/src/BunkerEscrow.sol: a requester deposits tokens for a       *)
(* deployment, an operator names three providers, and the deposit is paid  *)
(* out to them in proportion to the elapsed time until the reservation is  *)
(* completed, refunded or settled as a dispute.  A transaction is atomic,  *)
(* so every external function is one action; a call that reverts changes   *)
(* nothing and is a stuttering step.                                       *)
(***************************************************************************)
EXTENDS Integers, FiniteSets, Sums

CONSTANTS
  Requesters, Providers, Treasuries,  \* externally owned accounts
  Restaking,         \* providers whose staking status may change
  Escrow,            \* the contract's own account
  NoAddr,            \* address(0)
  MaxReservations,   \* bound on nextReservationId
  Amounts,           \* deposits a requester may try to make
  Durations,         \* durations a requester may ask for
  FeeChoices,        \* protocol fees the owner may set, in basis points
  BurnChoices,       \* burn shares of the fee the owner may set
  ThresholdChoices,  \* low-balance thresholds the owner may set
  DisputeAmounts,    \* what a settled dispute may give back to the requester
  MaxUint128,        \* type(uint128).max
  InitialBalance,    \* tokens each requester holds at the start
  MaxTime            \* bound on the clock

BPS_DENOMINATOR == 10000
MAX_PROTOCOL_FEE_BPS == 2000
MAX_THRESHOLD_BPS == 5000
PROVIDERS_PER_RESERVATION == 3

Slots == 1..PROVIDERS_PER_RESERVATION
Ids == 1..MaxReservations
Accounts == Requesters \cup Providers \cup Treasuries \cup {Escrow}

ASSUME ConstantsAssumption ==
  /\ MaxReservations \in Nat /\ MaxTime \in Nat
  /\ MaxUint128 \in Nat /\ InitialBalance \in Nat
  /\ Amounts \subseteq Nat /\ Durations \subseteq Nat
  /\ FeeChoices \subseteq Nat /\ ThresholdChoices \subseteq Nat
  /\ BurnChoices \subseteq 0..BPS_DENOMINATOR
  /\ DisputeAmounts \subseteq Nat
  /\ Treasuries # {} /\ Restaking \subseteq Providers

ASSUME AddressAssumption ==
  /\ Escrow \notin Requesters \cup Providers \cup Treasuries
  /\ NoAddr \notin Accounts
  /\ IsFiniteSet(Requesters) /\ IsFiniteSet(Providers) /\ IsFiniteSet(Treasuries)

VARIABLES
  res,                \* _reservations, with reservationFeeBps as field feeBps
  nextReservationId,
  protocolFeeBps,
  feeBurnBps,         \* feeTreasuryBps is always the rest
  treasury,
  lowBalanceThresholdBps,
  paused,
  stakingSet,         \* stakingContract # address(0)
  totalBurned,
  totalTreasuryFees,
  token,              \* balances of the ERC-20 token
  activeProviders,    \* what isActiveProvider of the staking contract answers
  now                 \* block.timestamp

config == <<protocolFeeBps, feeBurnBps, treasury, lowBalanceThresholdBps, paused, stakingSet>>
ledger == <<totalBurned, totalTreasuryFees, token>>
vars == <<res, nextReservationId, config, ledger, activeProviders, now>>

Status == {"None", "Created", "Active", "Completed", "Refunded", "Disputed"}
Terminal == {"Completed", "Refunded", "Disputed"}

Reservation ==
  [requester: Requesters \cup {NoAddr}, totalAmount: Nat, releasedAmount: Nat,
   duration: Nat, startTime: Nat, status: Status,
   providers: [Slots -> Providers \cup {NoAddr}], feeBps: Nat]

NoProviders == [i \in Slots |-> NoAddr]

EmptyReservation ==
  [requester |-> NoAddr, totalAmount |-> 0, releasedAmount |-> 0, duration |-> 0,
   startTime |-> 0, status |-> "None", providers |-> NoProviders, feeBps |-> 0]

TypeOK ==
  /\ res \in [Ids -> Reservation]
  /\ nextReservationId \in Nat \ {0}
  /\ protocolFeeBps \in 0..MAX_PROTOCOL_FEE_BPS
  /\ feeBurnBps \in 0..BPS_DENOMINATOR
  /\ treasury \in Treasuries
  /\ lowBalanceThresholdBps \in 0..MAX_THRESHOLD_BPS
  /\ paused \in BOOLEAN /\ stakingSet \in BOOLEAN
  /\ totalBurned \in Nat /\ totalTreasuryFees \in Nat
  /\ token \in [Accounts -> Nat]
  /\ activeProviders \in SUBSET Providers
  /\ now \in Nat

Init ==
  /\ res = [id \in Ids |-> EmptyReservation]
  /\ nextReservationId = 1
  /\ protocolFeeBps = 500
  /\ feeBurnBps = 8000
  /\ treasury \in Treasuries
  /\ lowBalanceThresholdBps = 2000
  /\ paused = FALSE
  /\ stakingSet = FALSE
  /\ totalBurned = 0 /\ totalTreasuryFees = 0
  /\ token = [a \in Accounts |-> IF a \in Requesters THEN InitialBalance ELSE 0]
  /\ activeProviders = {}
  /\ now = 0
-----------------------------------------------------------------------------
(* What a reservation still holds. *)
Remaining(r) == r.totalAmount - r.releasedAmount

(* The part of the deposit earned after t of its duration. *)
Proportional(r, t) == (r.totalAmount * t) \div r.duration

(* Mutant: the elapsed time is not capped at the duration. *)
ElapsedUncapped(r) == now - r.startTime

Elapsed(r) == IF now - r.startTime > r.duration THEN r.duration ELSE now - r.startTime

Fee(r, gross) == (gross * r.feeBps) \div BPS_DENOMINATOR
Burn(r, gross) == (Fee(r, gross) * feeBurnBps) \div BPS_DENOMINATOR

(* Mutant: the remainder of the division by three is not paid. *)
ProviderShareNoDust(r, gross, a) ==
  ((gross - Fee(r, gross)) \div PROVIDERS_PER_RESERVATION)
     * Cardinality({i \in Slots : r.providers[i] = a})

(* What account a receives when gross is shared among r's providers: an    *)
(* equal share for each slot it holds, and the dust if it holds the first. *)
ProviderShare(r, gross, a) ==
  LET net == gross - Fee(r, gross)
      perProvider == net \div PROVIDERS_PER_RESERVATION
      dust == net - perProvider * PROVIDERS_PER_RESERVATION
  IN  perProvider * Cardinality({i \in Slots : r.providers[i] = a})
        + (IF r.providers[1] = a THEN dust ELSE 0)

(* _distributePayment of gross, together with a transfer of back to the    *)
(* requester: every transfer of the transaction must be covered.           *)
Distribute(r, gross, back) ==
  LET fee == Fee(r, gross)
      burnAmount == Burn(r, gross)
      treasuryAmount == fee - burnAmount
  IN  /\ token[Escrow] >= gross + back
      /\ totalBurned' = totalBurned + burnAmount
      /\ totalTreasuryFees' = totalTreasuryFees + treasuryAmount
      /\ token' = [a \in Accounts |->
           IF a = Escrow THEN token[a] - (gross + back)
           ELSE token[a] + ProviderShare(r, gross, a)
                  + (IF a = treasury THEN treasuryAmount ELSE 0)
                  + (IF a = r.requester THEN back ELSE 0)]
-----------------------------------------------------------------------------
CreateReservation(u, amount, duration) ==
  LET id == nextReservationId
  IN  /\ ~paused
      /\ amount > 0 /\ duration > 0 /\ amount <= MaxUint128
      /\ id \in Ids
      /\ token[u] >= amount
      /\ nextReservationId' = nextReservationId + 1
      /\ res' = [res EXCEPT ![id] =
           [requester |-> u, totalAmount |-> amount, releasedAmount |-> 0,
            duration |-> duration, startTime |-> 0, status |-> "Created",
            providers |-> NoProviders, feeBps |-> protocolFeeBps]]
      /\ token' = [token EXCEPT ![u] = @ - amount, ![Escrow] = @ + amount]
      /\ UNCHANGED <<config, totalBurned, totalTreasuryFees, activeProviders, now>>

(* Mutant: the status of the reservation is not checked. *)
IncreaseDepositAnyStatus(u, id, amount) ==
  /\ ~paused
  /\ amount > 0
  /\ res[id].requester = u
  /\ res[id].totalAmount + amount <= MaxUint128
  /\ token[u] >= amount
  /\ res' = [res EXCEPT ![id].totalAmount = @ + amount]
  /\ token' = [token EXCEPT ![u] = @ - amount, ![Escrow] = @ + amount]
  /\ UNCHANGED <<nextReservationId, config, totalBurned, totalTreasuryFees,
                 activeProviders, now>>

IncreaseDeposit(u, id, amount) ==
  /\ ~paused
  /\ amount > 0
  /\ res[id].requester = u
  /\ res[id].status \in {"Created", "Active"}
  /\ res[id].totalAmount + amount <= MaxUint128
  /\ token[u] >= amount
  /\ res' = [res EXCEPT ![id].totalAmount = @ + amount]
  /\ token' = [token EXCEPT ![u] = @ - amount, ![Escrow] = @ + amount]
  /\ UNCHANGED <<nextReservationId, config, totalBurned, totalTreasuryFees,
                 activeProviders, now>>

(* The operator names three distinct providers, staked if a staking        *)
(* contract is configured, and the clock of the reservation starts.        *)
SelectProviders(id, ps) ==
  /\ ~paused
  /\ res[id].status = "Created"
  /\ \A i \in Slots : ps[i] # NoAddr /\ (stakingSet => ps[i] \in activeProviders)
  /\ \A i, j \in Slots : i # j => ps[i] # ps[j]
  /\ res' = [res EXCEPT ![id].providers = ps, ![id].startTime = now,
                        ![id].status = "Active"]
  /\ UNCHANGED <<nextReservationId, config, ledger, activeProviders, now>>

(* The common part of claim and releasePayment: bring the released amount  *)
(* up to what the settled time has earned, if that is more.                *)
Release(id, settled) ==
  LET target == Proportional(res[id], settled)
      gross == target - res[id].releasedAmount
  IN  /\ target > res[id].releasedAmount
      /\ res' = [res EXCEPT ![id].releasedAmount = @ + gross]
      /\ Distribute(res[id], gross, 0)
      /\ UNCHANGED <<nextReservationId, config, activeProviders, now>>

Claim(p, id) ==
  /\ ~paused
  /\ res[id].status = "Active"
  /\ \E i \in Slots : res[id].providers[i] = p
  /\ Release(id, Elapsed(res[id]))

ReleasePayment(id, settledDuration) ==
  /\ ~paused
  /\ res[id].status = "Active"
  /\ settledDuration <= res[id].duration
  /\ Release(id, settledDuration)

(* A reservation is closed by paying out all that remains: gross to the    *)
(* providers and back to the requester.                                    *)
Close(id, status, gross, back) ==
  /\ res' = [res EXCEPT ![id].releasedAmount = res[id].totalAmount,
                        ![id].status = status]
  /\ Distribute(res[id], gross, back)
  /\ UNCHANGED <<nextReservationId, config, activeProviders, now>>

FinalizeReservation(id) ==
  /\ res[id].status = "Active"
  /\ Close(id, "Completed", Remaining(res[id]), 0)

(* Mutant: a refund pays the providers nothing. *)
EarnedUnreleasedNone(r) == 0

(* What the providers have earned and not been paid when a refund comes. *)
EarnedUnreleased(r) ==
  IF r.status = "Active" /\ Proportional(r, Elapsed(r)) > r.releasedAmount
  THEN Proportional(r, Elapsed(r)) - r.releasedAmount ELSE 0

(* Mutant: the requester also gets back what the providers are paid. *)
RefundTwice(id) ==
  /\ res[id].status \in {"Active", "Created"}
  /\ Close(id, "Refunded", EarnedUnreleased(res[id]), Remaining(res[id]))

(* Mutant: no refund while the contract is paused. *)
RefundableUnlessPaused(id) == ~paused /\ res[id].status \in {"Active", "Created"}

(* Where refund does not revert: an open reservation, no underflow in what *)
(* is left after the providers' part, and both transfers covered.          *)
Refundable(id) ==
  LET earned == EarnedUnreleased(res[id])
  IN  /\ res[id].status \in {"Active", "Created"}
      /\ earned <= Remaining(res[id])
      /\ token[Escrow] >= Remaining(res[id])

(* By the requester or the operator. *)
Refund(id) ==
  LET earned == EarnedUnreleased(res[id])
  IN  /\ Refundable(id)
      /\ Close(id, "Refunded", earned, Remaining(res[id]) - earned)

SettleDispute(id, requesterAmount, providerAmount) ==
  /\ res[id].status = "Active"
  /\ requesterAmount + providerAmount = Remaining(res[id])
  /\ Close(id, "Disputed", providerAmount, requesterAmount)
-----------------------------------------------------------------------------
SetProtocolFee(bps) ==
  /\ bps <= MAX_PROTOCOL_FEE_BPS
  /\ protocolFeeBps' = bps
  /\ UNCHANGED <<feeBurnBps, treasury, lowBalanceThresholdBps, paused, stakingSet>>

SetFeeSplit(burnBps) ==
  /\ feeBurnBps' = burnBps
  /\ UNCHANGED <<protocolFeeBps, treasury, lowBalanceThresholdBps, paused, stakingSet>>

SetTreasury(t) ==
  /\ t # NoAddr
  /\ treasury' = t
  /\ UNCHANGED <<protocolFeeBps, feeBurnBps, lowBalanceThresholdBps, paused, stakingSet>>

(* The threshold only decides when the LowBalance event is emitted. *)
SetLowBalanceThreshold(bps) ==
  /\ bps <= MAX_THRESHOLD_BPS
  /\ lowBalanceThresholdBps' = bps
  /\ UNCHANGED <<protocolFeeBps, feeBurnBps, treasury, paused, stakingSet>>

(* Once set, the staking contract cannot be removed. *)
SetStakingContract ==
  /\ stakingSet' = TRUE
  /\ UNCHANGED <<protocolFeeBps, feeBurnBps, treasury, lowBalanceThresholdBps, paused>>

SetPaused(b) ==
  /\ paused # b
  /\ paused' = b
  /\ UNCHANGED <<protocolFeeBps, feeBurnBps, treasury, lowBalanceThresholdBps, stakingSet>>

(* The staking contract activates or deactivates a provider. *)
StakingChanges(p) ==
  /\ activeProviders' = IF p \in activeProviders THEN activeProviders \ {p}
                        ELSE activeProviders \cup {p}
  /\ UNCHANGED <<res, nextReservationId, config, ledger, now>>

Tick ==
  /\ now < MaxTime
  /\ now' = now + 1
  /\ UNCHANGED <<res, nextReservationId, config, ledger, activeProviders>>

RequesterStep ==
  \/ \E u \in Requesters, a \in Amounts, d \in Durations : CreateReservation(u, a, d)
  \/ \E u \in Requesters, id \in Ids, a \in Amounts : IncreaseDeposit(u, id, a)
  \/ \E id \in Ids : Refund(id)

OperatorStep ==
  \E id \in Ids :
    \/ \E ps \in [Slots -> Providers] : SelectProviders(id, ps)
    \/ \E d \in 0..res[id].duration : ReleasePayment(id, d)
    \/ FinalizeReservation(id)
    \/ \E x \in {d \in DisputeAmounts : d <= Remaining(res[id])} :
         SettleDispute(id, x, Remaining(res[id]) - x)

OwnerStep ==
  /\ \/ \E bps \in FeeChoices : SetProtocolFee(bps)
     \/ \E bps \in BurnChoices : SetFeeSplit(bps)
     \/ \E t \in Treasuries : SetTreasury(t)
     \/ \E bps \in ThresholdChoices : SetLowBalanceThreshold(bps)
     \/ SetStakingContract
     \/ \E b \in BOOLEAN : SetPaused(b)
  /\ UNCHANGED <<res, nextReservationId, ledger, activeProviders, now>>

Next ==
  \/ RequesterStep
  \/ OperatorStep
  \/ \E p \in Providers, id \in Ids : Claim(p, id)
  \/ OwnerStep
  \/ \E p \in Restaking : StakingChanges(p)
  \/ Tick

Spec == Init /\ [][Next]_vars
-----------------------------------------------------------------------------
(* Solvency: the contract holds exactly what its reservations have not yet *)
(* released, whatever sequence of deposits, claims, operator releases,     *)
(* refunds, disputes and finalizations led here.                           *)
Solvent ==
  token[Escrow] = SumOver([id \in Ids |-> Remaining(res[id])], Ids)

(* No reservation ever releases more than was deposited for it, an id in   *)
(* use has a requester and a positive duration to divide by, and a closed  *)
(* reservation has released all of its deposit.                            *)
ReservationsSound ==
  \A id \in Ids :
    /\ res[id].releasedAmount <= res[id].totalAmount
    /\ res[id].status # "None" => id < nextReservationId /\ res[id].duration > 0
                                   /\ res[id].requester \in Requesters
    /\ res[id].status = "Active" => res[id].startTime <= now
    /\ res[id].status \in Terminal => res[id].releasedAmount = res[id].totalAmount

(* A reservation that is active has three different providers to pay. *)
ProvidersNamed(r) ==
  r.status = "Active" => /\ r.providers \in [Slots -> Providers]
                         /\ \A i, j \in Slots : i # j => r.providers[i] # r.providers[j]

(* What makes solvency inductive: an id not yet handed out is empty, no    *)
(* snapshot exceeds the largest protocol fee, and an active reservation    *)
(* names its providers.                                                    *)
IndInv ==
  /\ TypeOK
  /\ ReservationsSound
  /\ \A id \in Ids : /\ res[id].status = "None" => res[id] = EmptyReservation
                     /\ id >= nextReservationId => res[id].status = "None"
                     /\ res[id].feeBps <= MAX_PROTOCOL_FEE_BPS
                     /\ ProvidersNamed(res[id])
  /\ Solvent

(* The operations move tokens and never create or lose any: the balances   *)
(* and what was burned add up to the tokens the requesters started with,   *)
(* dust of the three-way split included.                                   *)
SupplyConserved ==
  SumOver(token, Accounts) + totalBurned = InitialBalance * Cardinality(Requesters)

(* The treasury counter is what the treasuries hold, old ones included. *)
TreasuryCounted == SumOver(token, Treasuries) = totalTreasuryFees

(* No token appears or disappears, and every fee is accounted for. *)
TokensConserved == SupplyConserved /\ TreasuryCounted

(* Whatever the contract's state - paused, under-funded by another         *)
(* reservation's payouts, past its duration - an open reservation can be   *)
(* refunded, so no deposit is ever locked in.                              *)
ExitAlwaysPossible ==
  \A id \in Ids : res[id].status \in {"Created", "Active"} => Refundable(id)

(* A completed, refunded or disputed reservation is never touched again. *)
ClosedForever ==
  [][\A id \in Ids : res[id].status \in Terminal => res'[id] = res[id]]_vars

(* The fee agreed when the reservation was created bounds what is ever     *)
(* charged for it, also after the owner has raised the protocol fee.       *)
FeeNeverAboveSnapshot ==
  [][\A id \in Ids : res'[id].releasedAmount # res[id].releasedAmount =>
       (totalBurned' + totalTreasuryFees' - totalBurned - totalTreasuryFees)
          * BPS_DENOMINATOR
         <= (res'[id].releasedAmount - res[id].releasedAmount) * res[id].feeBps]_vars

(* A payment reaches the three providers of the reservation equally, up to *)
(* the dust of the division, which is less than three tokens.              *)
EqualShares ==
  [][\A id \in Ids : res[id].status = "Active" /\ res'[id].releasedAmount # res[id].releasedAmount =>
       \A i, j \in Slots :
         LET paid(k) == token'[res[id].providers[k]] - token[res[id].providers[k]]
         IN  paid(i) - paid(j) < PROVIDERS_PER_RESERVATION]_vars

(* A refund of an active reservation leaves the providers what the elapsed *)
(* time has earned them and returns the rest, less what an operator has    *)
(* released ahead of time.                                                 *)
RefundHonoursEarned ==
  [][\A id \in Ids : res[id].status = "Active" /\ res'[id].status = "Refunded" =>
       LET r == res[id]
           back == token'[r.requester] - token[r.requester]
           earned == Proportional(r, Elapsed(r))
       IN  back = r.totalAmount - (IF earned > r.releasedAmount THEN earned
                                   ELSE r.releasedAmount)]_vars

(* What a payment may do, in whatever order claims, operator releases,      *)
(* refunds and changes of the fee come.                                     *)
PaymentsFair == FeeNeverAboveSnapshot /\ EqualShares /\ RefundHonoursEarned
=============================================================================
