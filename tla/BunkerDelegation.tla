-------------------------- MODULE BunkerDelegation --------------------------
(***************************************************************************)
(* contracts/src/BunkerDelegation.sol: a delegator locks tokens behind one *)
(* provider, and takes them back through a queue of unbonding requests.    *)
(* Providers announce a reward cut; a raise waits one unbonding period.    *)
(* The delegators are the numbers 1..NumDelegators.                        *)
(***************************************************************************)
EXTENDS Integers, Sequences, FiniteSets, FiniteSetsExt

CONSTANTS NumDelegators,       \* how many addresses delegate
          Providers,           \* addresses that act as providers
          NoProvider,          \* address(0)
          Amounts,             \* amounts callers pass
          Cuts,                \* reward cuts providers ask for
          MaxCuts,             \* caps the owner may set
          Periods,             \* unbonding periods the owner may set
          InitialBalance,      \* what a delegator's wallet starts with
          MAX_UNBONDING_QUEUE, \* 20 in the contract
          MaxTime              \* bound on the clock

(* The sum f[1] + ... + f[N], over numbered records. *)
SumTo(f, N) == MapThenSumSet(LAMBDA i : f[i], 1 .. N)

Delegators == 1 .. NumDelegators

VARIABLES info,            \* delegations: one record per delegator
          config,          \* providerConfigs
          queue,           \* unbondingQueues
          totalDelegated,
          maxRewardCutBps,
          unbondingPeriod,
          paused,
          staking,         \* stakingContract # address(0)
          activeProvider,  \* what stakingContract.isActiveProvider answers
          delegatorWallet, \* token balance of each delegator
          balance,         \* token balance of this contract
          now

vars == <<info, config, queue, totalDelegated, maxRewardCutBps,
          unbondingPeriod, paused, staking, activeProvider, delegatorWallet, balance, now>>

Delegation == [provider : Providers \cup {NoProvider}, amount : Nat, active : BOOLEAN]
ProviderConfig == [cut : Nat, pendingCut : Nat, effectiveAt : Nat,
                   total : Nat, accepting : BOOLEAN]
Request == [amount : Nat, unlock : Nat, completed : BOOLEAN]

(* The tokens of the requests that have not been paid yet. *)
Pending(q) == SumTo([i \in 1 .. Len(q) |-> IF q[i].completed THEN 0 ELSE q[i].amount], Len(q))

Init ==
  /\ info = [d \in Delegators |-> [provider |-> NoProvider, amount |-> 0, active |-> FALSE]]
  /\ config = [p \in Providers |-> [cut |-> 0, pendingCut |-> 0, effectiveAt |-> 0,
                                    total |-> 0, accepting |-> FALSE]]
  /\ queue = [d \in Delegators |-> <<>>]
  /\ totalDelegated = 0
  /\ maxRewardCutBps \in MaxCuts
  /\ unbondingPeriod \in Periods
  /\ paused = FALSE
  /\ staking \in BOOLEAN
  /\ activeProvider \in SUBSET Providers
  /\ delegatorWallet = [d \in Delegators |-> InitialBalance]
  /\ balance = 0
  /\ now = 0

-----------------------------------------------------------------------------
(* Providers. *)

(* A raise is announced, anything else is applied at once. *)
RaiseWaits(c, cut) ==
  IF cut > c.cut
    THEN [c EXCEPT !.pendingCut = cut, !.effectiveAt = now + unbondingPeriod]
    ELSE [c EXCEPT !.cut = cut]

SetDelegationConfig(p, cut) ==
  /\ cut <= maxRewardCutBps
  /\ config' = [config EXCEPT ![p] = RaiseWaits(@, cut)]
  /\ UNCHANGED <<info, queue, totalDelegated, maxRewardCutBps, unbondingPeriod,
                 paused, staking, activeProvider, delegatorWallet, balance, now>>

FinalizeRewardCut(p) ==
  /\ config[p].pendingCut # 0
  /\ now >= config[p].effectiveAt
  /\ config' = [config EXCEPT ![p].cut = config[p].pendingCut,
                              ![p].pendingCut = 0, ![p].effectiveAt = 0]
  /\ UNCHANGED <<info, queue, totalDelegated, maxRewardCutBps, unbondingPeriod,
                 paused, staking, activeProvider, delegatorWallet, balance, now>>

ToggleAcceptDelegations(p, accepting) ==
  /\ accepting /\ staking => p \in activeProvider
  /\ config' = [config EXCEPT ![p].accepting = accepting]
  /\ UNCHANGED <<info, queue, totalDelegated, maxRewardCutBps, unbondingPeriod,
                 paused, staking, activeProvider, delegatorWallet, balance, now>>

-----------------------------------------------------------------------------
(* Delegators. *)


(* The provider's recorded total follows the delegation. *)
Recorded(p, change) == [config EXCEPT ![p].total = @ + change]

Delegate(d, p, amount) ==
  /\ ~paused
  /\ amount > 0
  /\ staking => p \in activeProvider
  /\ config[p].accepting
  /\ ~info[d].active
  /\ delegatorWallet[d] >= amount
  /\ info' = [info EXCEPT ![d] = [provider |-> p, amount |-> amount, active |-> TRUE]]
  /\ config' = Recorded(p, amount)
  /\ totalDelegated' = totalDelegated + amount
  /\ delegatorWallet' = [delegatorWallet EXCEPT ![d] = @ - amount]
  /\ balance' = balance + amount
  /\ UNCHANGED <<queue, maxRewardCutBps, unbondingPeriod, paused, staking, activeProvider, now>>

(* Mutant: off by one at the queue's limit. *)
QueueFullLate(d) == Len(queue[d]) > MAX_UNBONDING_QUEUE

QueueFull(d) == Len(queue[d]) >= MAX_UNBONDING_QUEUE

RequestUndelegate(d, amount) ==
  /\ ~paused
  /\ amount > 0
  /\ ~QueueFull(d)
  /\ info[d].active
  /\ amount <= info[d].amount
  /\ info' = [info EXCEPT ![d].amount = @ - amount,
                          ![d].active = amount < info[d].amount]
  /\ config' = Recorded(info[d].provider, 0 - amount)
  /\ totalDelegated' = totalDelegated - amount
  /\ queue' = [queue EXCEPT ![d] = Append(@, [amount |-> amount,
                                              unlock |-> now + unbondingPeriod,
                                              completed |-> FALSE])]
  /\ UNCHANGED <<maxRewardCutBps, unbondingPeriod, paused, staking, activeProvider,
                 delegatorWallet, balance, now>>

(* A request is payable from its unlock time on, also while paused. *)
Payable(d, i) == ~queue[d][i].completed /\ now >= queue[d][i].unlock

CompleteUndelegate(d, i) ==
  /\ i \in DOMAIN queue[d]
  /\ Payable(d, i)
  /\ queue' = [queue EXCEPT ![d][i].completed = TRUE]
  /\ delegatorWallet' = [delegatorWallet EXCEPT ![d] = @ + queue[d][i].amount]
  /\ balance >= queue[d][i].amount
  /\ balance' = balance - queue[d][i].amount
  /\ UNCHANGED <<info, config, totalDelegated, maxRewardCutBps, unbondingPeriod,
                 paused, staking, activeProvider, now>>

-----------------------------------------------------------------------------
(* The owner, the staking contract and the clock. *)

SetMaxRewardCutBps(m) ==
  /\ maxRewardCutBps' = m
  /\ UNCHANGED <<unbondingPeriod, paused, staking>>

SetUnbondingPeriod(t) ==
  /\ unbondingPeriod' = t
  /\ UNCHANGED <<maxRewardCutBps, paused, staking>>

SetPaused(b) ==
  /\ paused # b
  /\ paused' = b
  /\ UNCHANGED <<maxRewardCutBps, unbondingPeriod, staking>>

SetStakingContract(b) ==
  /\ staking' = b
  /\ UNCHANGED <<maxRewardCutBps, unbondingPeriod, paused>>

OwnerStep ==
  /\ \/ \E m \in MaxCuts : SetMaxRewardCutBps(m)
     \/ \E t \in Periods : SetUnbondingPeriod(t)
     \/ \E b \in BOOLEAN : SetPaused(b)
     \/ \E b \in BOOLEAN : SetStakingContract(b)
  /\ UNCHANGED <<info, config, queue, totalDelegated, activeProvider, delegatorWallet, balance, now>>

(* A provider gains or loses its active status in the staking contract. *)
StatusChanges(p) ==
  /\ activeProvider' = IF p \in activeProvider THEN activeProvider \ {p}
                                               ELSE activeProvider \cup {p}
  /\ UNCHANGED <<info, config, queue, totalDelegated, maxRewardCutBps, unbondingPeriod,
                 paused, staking, delegatorWallet, balance, now>>

Tick ==
  /\ now < MaxTime
  /\ now' = now + 1
  /\ UNCHANGED <<info, config, queue, totalDelegated, maxRewardCutBps, unbondingPeriod,
                 paused, staking, activeProvider, delegatorWallet, balance>>

ProviderStep ==
  \E p \in Providers :
    \/ \E cut \in Cuts : SetDelegationConfig(p, cut)
    \/ FinalizeRewardCut(p)
    \/ \E b \in BOOLEAN : ToggleAcceptDelegations(p, b)
    \/ StatusChanges(p)

DelegatorStep ==
  \E d \in Delegators :
    \/ \E p \in Providers, a \in Amounts : Delegate(d, p, a)
    \/ \E a \in Amounts : RequestUndelegate(d, a)
    \/ \E i \in 1 .. MAX_UNBONDING_QUEUE : CompleteUndelegate(d, i)

Next == ProviderStep \/ DelegatorStep \/ OwnerStep \/ Tick

Spec == Init /\ [][Next]_vars

-----------------------------------------------------------------------------
(* Properties. *)

(* The state keeps its shape: queues never pass MAX_UNBONDING_QUEUE and no  *)
(* amount goes below zero (the contract's unsigned arithmetic).             *)
TypeOK ==
  /\ info \in [Delegators -> Delegation]
  /\ config \in [Providers -> ProviderConfig]
  /\ queue \in [Delegators -> Seq(Request)]
  /\ \A d \in Delegators : Len(queue[d]) <= MAX_UNBONDING_QUEUE
  /\ totalDelegated \in Nat
  /\ maxRewardCutBps \in MaxCuts
  /\ unbondingPeriod \in Periods
  /\ paused \in BOOLEAN
  /\ staking \in BOOLEAN
  /\ activeProvider \subseteq Providers
  /\ delegatorWallet \in [Delegators -> Nat]
  /\ balance \in Nat
  /\ now \in Nat

(* What the contract owes a delegator: the live delegation and the queue. *)
Locked(d) == info[d].amount + Pending(queue[d])

(* The contract holds exactly what delegate took in and completeUndelegate  *)
(* has not paid out: every delegation and every open request is covered.    *)
Backed == balance = SumTo([d \in Delegators |-> Locked(d)], NumDelegators)

(* The amount of d's delegation when it stands behind p, otherwise zero. *)
Behind(p, d) == IF info[d].active /\ info[d].provider = p THEN info[d].amount ELSE 0

(* A provider's totalDelegated, and the contract's, are the sums of the     *)
(* delegations that stand behind it, whoever delegates, leaves partly and   *)
(* comes back to another provider in between.                               *)
TotalsAgree ==
  /\ \A p \in Providers :
       config[p].total = SumTo([d \in Delegators |-> Behind(p, d)], NumDelegators)
  /\ totalDelegated = SumTo([d \in Delegators |-> info[d].amount], NumDelegators)
  /\ \A d \in Delegators : info[d].active <=> info[d].amount > 0

(* A delegator whose provider was deactivated, or stopped accepting, can    *)
(* still ask for the tokens back while the queue has room, and a matured    *)
(* request is paid whatever the owner paused in between.                    *)
ExitAlwaysPossible ==
  \A d \in Delegators :
    /\ info[d].active /\ ~paused /\ Len(queue[d]) < MAX_UNBONDING_QUEUE
         => ENABLED RequestUndelegate(d, info[d].amount)
    /\ \A i \in DOMAIN queue[d] :
         ~queue[d][i].completed /\ queue[d][i].unlock <= now
           => ENABLED CompleteUndelegate(d, i)

(* setDelegationConfig and finalizeRewardCut: a cut only rises to a value   *)
(* announced before, whose waiting time is over ("Reward cut increases are  *)
(* timelocked"); every other change of a cut favours the delegators.        *)
RaisesAnnounced ==
  \A p \in Providers :
    config'[p].cut > config[p].cut =>
      /\ config'[p].cut = config[p].pendingCut
      /\ config[p].effectiveAt <= now
=============================================================================
