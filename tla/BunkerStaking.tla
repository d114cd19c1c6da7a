---------------------------- MODULE BunkerStaking ----------------------------
(***************************************************************************)
(* contracts/src/BunkerStaking.sol: providers stake tokens, unbond them    *)
(* through a queue of delayed requests, may be frozen and slashed (at once *)
(* or by a proposal they can appeal), and earn rewards in proportion to    *)
(* their stake, part of which vests over time.  One action per external    *)
(* function; a reverting call is a stuttering step.  Region, capabilities, *)
(* reason texts and registration dates are carried by the code and never   *)
(* read by it; they are left out.                                          *)
(***************************************************************************)
EXTENDS Integers, Sequences, FiniteSets, Sums

CONSTANTS
  NumProviders,          \* providers are 1..NumProviders, none of them another account
  Treasuries,            \* treasury addresses
  Staking, Owner,        \* the contract's own account and the owner's
  NoAddr,                \* address(0)
  NodeIds, NoId,         \* node identities and bytes32(0)
  Reasons,               \* SlashReason other than None
  StakeAmounts, UnstakeAmounts, SlashAmounts, RewardAmounts,  \* inputs
  Settings,              \* what the owner may set each parameter to
  InitialConfig,         \* the parameters the constructor sets
  MAX_QUEUE,             \* 50 in the code
  BENEFICIARY_TIMELOCK,  \* 24 hours in the code
  REWARD_SCALE,          \* 1e18 in the code
  InitialBalance,        \* tokens a provider holds at the start
  OwnerBalance,          \* tokens the owner can spend on rewards
  MaxProposals,          \* bound on slashProposalCount
  MaxHours,              \* bound on the reported compute hours
  MaxTime                \* bound on the clock, which ticks in minutes

BPS_DENOMINATOR == 10000
MAX_EMISSION_MULTIPLIER == 50000
MAX_MULTIPLIER_CAP == 20000
DAY == 24 * 60
Providers == 1..NumProviders
Accounts == Providers \cup Treasuries \cup {Staking, Owner}

(* Tier None is 0; Starter, Bronze, Silver, Gold, Platinum are 1..5. *)
Tiers == 1..5
Starter == 1

VARIABLES
  info,                  \* providers
  queue,                 \* unstakeQueues
  totalStaked, totalUnbonding,
  pendingBeneficiaries,
  nodeIdToProvider,
  proposals,             \* slashProposals, the first slashProposalCount of them
  cfg,                   \* parameters the owner can set
  rw,                    \* rewardRate, periodFinish, lastUpdateTime, rewardPerTokenStored
  rewards,
  paid,                  \* userRewardPerTokenPaid
  vested,                \* vestedRewards; no two entries start at the same time
  computeHours,          \* totalComputeHoursReported
  token, burned,         \* balances of the ERC-20 token, tokens burned
  now                    \* block.timestamp

stakeVars == <<info, queue, totalStaked, totalUnbonding>>
rewardVars == <<rw, rewards, paid, vested>>
vars == <<stakeVars, pendingBeneficiaries, nodeIdToProvider, proposals, cfg,
          rewardVars, computeHours, token, burned, now>>

ProviderInfo ==
  [staked: Nat, unbonding: Nat, beneficiary: Providers \cup {NoAddr},
   active: BOOLEAN, nodeId: NodeIds \cup {NoId}, frozen: BOOLEAN]
UnstakeRequest == [amount: Nat, unlockTime: Nat, completed: BOOLEAN]
BasisPoints == 0..BPS_DENOMINATOR
SlashProposal ==
  [provider: Providers, amount: Nat, proposedAt: Nat, executed: BOOLEAN,
   appealed: BOOLEAN, resolved: BOOLEAN, window: Nat, burnBps: BasisPoints]
VestedReward == [total: Nat, released: Nat, start: Nat]
PerTier == [Tiers -> Nat]
PerReason == [Reasons -> BasisPoints]
Config ==
  [unbondingPeriod: Nat, appealWindow: Nat, slashBurnBps: BasisPoints,
   slashPercentageBps: PerReason, slashingEnabled: BOOLEAN,
   paused: BOOLEAN, treasury: Treasuries,
   tierMin: PerTier, tierMultiplier: PerTier, maxTierMultiplierBps: Nat,
   rewardsDuration: Nat, vestingPeriod: Nat, immediateReleaseBps: BasisPoints,
   emissionMultiplier: Nat, maxEmissionRate: Nat]

TypeOK ==
  /\ info \in [Providers -> ProviderInfo]
  /\ queue \in [Providers -> Seq(UnstakeRequest)]
  /\ totalStaked \in Nat /\ totalUnbonding \in Nat
  /\ pendingBeneficiaries \in [Providers -> [to: Providers \cup {NoAddr}, effective: Nat]]
  /\ nodeIdToProvider \in [NodeIds -> Providers \cup {NoAddr}]
  /\ proposals \in Seq(SlashProposal)
  /\ cfg \in Config
  /\ rw \in [rate: Nat, finish: Nat, last: Nat, perToken: Nat]
  /\ rewards \in [Providers -> Nat] /\ paid \in [Providers -> Nat]
  /\ vested \in [Providers -> SUBSET VestedReward]
  /\ computeHours \in Nat
  /\ token \in [Accounts -> Nat] /\ burned \in Nat
  /\ now \in Nat

Init ==
  /\ info = [p \in Providers |->
       [staked |-> 0, unbonding |-> 0, beneficiary |-> NoAddr, active |-> FALSE,
        nodeId |-> NoId, frozen |-> FALSE]]
  /\ queue = [p \in Providers |-> <<>>]
  /\ totalStaked = 0 /\ totalUnbonding = 0
  /\ pendingBeneficiaries = [p \in Providers |-> [to |-> NoAddr, effective |-> 0]]
  /\ nodeIdToProvider = [n \in NodeIds |-> NoAddr]
  /\ proposals = <<>>
  /\ cfg = InitialConfig
  /\ rw = [rate |-> 0, finish |-> 0, last |-> 0, perToken |-> 0]
  /\ rewards = [p \in Providers |-> 0] /\ paid = [p \in Providers |-> 0]
  /\ vested = [p \in Providers |-> {}]
  /\ computeHours = 0
  /\ token = [a \in Accounts |-> IF a \in Providers THEN InitialBalance
                                 ELSE IF a = Owner THEN OwnerBalance ELSE 0]
  /\ burned = 0
  /\ now = 1
-----------------------------------------------------------------------------
(* Helpers *)
Least(a, b) == IF a < b THEN a ELSE b

(* getSlashableBalance *)
Slashable(p) == info[p].staked + info[p].unbonding

MinimumStake == cfg.tierMin[Starter]

(* _getTier: the highest tier whose minimum the stake reaches. *)
TierOf(amount) == Max({0} \cup {t \in Tiers : amount >= cfg.tierMin[t]})

Transfer(from, to, amount) ==
  /\ token[from] >= amount
  /\ token' = [token EXCEPT ![from] = @ - amount, ![to] = @ + amount]
  /\ UNCHANGED burned

(* What a slash of rest takes from each request of queue q: the newest     *)
(* requests first, those completed not at all.                             *)
Pending(q) == [i \in 1..Len(q) |-> IF q[i].completed THEN 0 ELSE q[i].amount]
Newer(q, i) == SumOver(Pending(q), 1..Len(q)) - SumOver(Pending(q), 1..i)

(* Mutant: what is unbonding is not slashed. *)
TakenNone(q, rest) == [i \in 1..Len(q) |-> 0]

Taken(q, rest) ==
  [i \in 1..Len(q) |-> Least(Pending(q)[i], Max({0, rest - Newer(q, i)}))]

(* Mutant: the queue does not learn what was taken from it. *)
DrainedNot(q, rest) == q

Drained(q, rest) ==
  [i \in 1..Len(q) |->
     IF Taken(q, rest)[i] = 0 THEN q[i]
     ELSE [q[i] EXCEPT !.amount = @ - Taken(q, rest)[i],
                       !.completed = Taken(q, rest)[i] = q[i].amount]]

lastTimeRewardApplicable == Least(now, rw.finish)

rewardPerToken ==
  IF totalStaked = 0 THEN rw.perToken
  ELSE rw.perToken + ((lastTimeRewardApplicable - rw.last) * rw.rate * REWARD_SCALE)
                        \div totalStaked

(* The multiplier of the tier applies to the new delta only. *)
Earned(p) ==
  LET delta == (info[p].staked * (rewardPerToken - paid[p])) \div REWARD_SCALE
      tier == TierOf(info[p].staked)
  IN  rewards[p] + (IF tier = 0 THEN delta
                    ELSE (delta * cfg.tierMultiplier[tier]) \div BPS_DENOMINATOR)

(* Mutant: the clock of the accumulator runs on after the epoch's end. *)
CheckpointAtNow == rw' = [rw EXCEPT !.perToken = rewardPerToken, !.last = now]

(* The checkpoint of the accumulator that updateReward and _doUpdateReward *)
(* take before the state changes.                                          *)
Checkpoint == rw' = [rw EXCEPT !.perToken = rewardPerToken, !.last = lastTimeRewardApplicable]

UpdateReward(p) ==
  /\ Checkpoint
  /\ rewards' = [rewards EXCEPT ![p] = Earned(p)]
  /\ paid' = [paid EXCEPT ![p] = rewardPerToken]

(* _vestedAmount *)
VestedAmount(e) ==
  IF cfg.vestingPeriod = 0 \/ now - e.start >= cfg.vestingPeriod THEN e.total
  ELSE (e.total * (now - e.start)) \div cfg.vestingPeriod

Unvested(e) == e.total - VestedAmount(e)
RewardBalance == IF token[Staking] > totalStaked + totalUnbonding
                 THEN token[Staking] - totalStaked - totalUnbonding ELSE 0
-----------------------------------------------------------------------------
(* Staking and unbonding *)

(* Mutant: the identity of an inactive provider is free. *)
UnclaimedByActive(id) == nodeIdToProvider[id] \notin {p \in Providers : info[p].active}

Unclaimed(id) == nodeIdToProvider[id] = NoAddr

(* stake (without an identity) and stakeWithIdentity. *)
Deposit(p, amount, id) ==
  LET i == info[p]
  IN  /\ ~cfg.paused /\ amount > 0 /\ ~i.frozen
      /\ i.active \/ i.staked + amount >= MinimumStake
      /\ id # NoId => ~i.active /\ Unclaimed(id)
      /\ UpdateReward(p)
      /\ info' = [info EXCEPT ![p] =
           [i EXCEPT !.staked = @ + amount, !.active = TRUE,
                     !.beneficiary = IF i.active THEN @ ELSE p,
                     !.nodeId = IF id # NoId THEN id ELSE @]]
      /\ nodeIdToProvider' = [n \in NodeIds |-> IF n = id THEN p ELSE nodeIdToProvider[n]]
      /\ totalStaked' = totalStaked + amount
      /\ Transfer(p, Staking, amount)
      /\ UNCHANGED <<queue, totalUnbonding, pendingBeneficiaries, proposals, cfg, vested,
                     computeHours, now>>

Stake(p, amount) == Deposit(p, amount, NoId)
StakeWithIdentity(p, amount, id) == id # NoId /\ Deposit(p, amount, id)

ReverseLookup(p, id) ==
  [n \in NodeIds |-> IF n = id THEN p
                     ELSE IF n = info[p].nodeId THEN NoAddr ELSE nodeIdToProvider[n]]

UpdateIdentity(p, id) ==
  /\ info[p].active /\ ~info[p].frozen
  /\ id # info[p].nodeId /\ id # NoId => Unclaimed(id)
  /\ info' = [info EXCEPT ![p].nodeId = id]
  /\ nodeIdToProvider' = ReverseLookup(p, id)
  /\ UNCHANGED <<queue, totalStaked, totalUnbonding, pendingBeneficiaries, proposals, cfg,
                 rewardVars, computeHours, token, burned, now>>

StillActive(p, stake) == info[p].active /\ stake >= MinimumStake

(* The length check counts the completed requests too. *)
RequestUnstake(p, amount) ==
  /\ ~cfg.paused /\ amount > 0
  /\ info[p].active /\ ~info[p].frozen
  /\ amount <= info[p].staked
  /\ Len(queue[p]) <= MAX_QUEUE
  /\ UpdateReward(p)
  /\ info' = [info EXCEPT ![p] =
       [info[p] EXCEPT !.staked = info[p].staked - amount,
                       !.unbonding = info[p].unbonding + amount,
                       !.active = StillActive(p, info[p].staked - amount)]]
  /\ totalStaked' = totalStaked - amount
  /\ totalUnbonding' = totalUnbonding + amount
  /\ queue' = [queue EXCEPT ![p] = Append(@,
       [amount |-> amount, unlockTime |-> now + cfg.unbondingPeriod, completed |-> FALSE])]
  /\ UNCHANGED <<pendingBeneficiaries, nodeIdToProvider, proposals, cfg, vested,
                 computeHours, token, burned, now>>

(* Mutant: the request is not marked as completed. *)
MarkCompletedNot(q, i) == q

MarkCompleted(q, i) == [q EXCEPT ![i].completed = TRUE]

(* Mutant: a freeze does not hold back what is unbonding. *)
PayableWhenFrozen(p, i) == ~queue[p][i].completed /\ now >= queue[p][i].unlockTime

Payable(p, i) == ~info[p].frozen /\ ~queue[p][i].completed /\ now >= queue[p][i].unlockTime

(* What completeUnstake requires, its checked subtractions and the token's *)
(* balance check included.                                                 *)
Completable(p, i) ==
  /\ Payable(p, i)
  /\ info[p].unbonding >= queue[p][i].amount
  /\ totalUnbonding >= queue[p][i].amount
  /\ token[Staking] >= queue[p][i].amount

(* Also while the contract is paused, and after deactivation. *)
CompleteUnstake(p, i) ==
  LET req == queue[p][i]
  IN  /\ Completable(p, i)
      /\ queue' = [queue EXCEPT ![p] = MarkCompleted(@, i)]
      /\ info' = [info EXCEPT ![p].unbonding = @ - req.amount]
      /\ totalUnbonding' = totalUnbonding - req.amount
      /\ Transfer(Staking, p, req.amount)
      /\ UNCHANGED <<totalStaked, pendingBeneficiaries, nodeIdToProvider, proposals, cfg,
                     rewardVars, computeHours, now>>

InitiateBeneficiaryChange(p, to) ==
  /\ info[p].active
  /\ pendingBeneficiaries' = [pendingBeneficiaries EXCEPT ![p] =
       [to |-> to, effective |-> now + BENEFICIARY_TIMELOCK]]
  /\ UNCHANGED <<stakeVars, nodeIdToProvider, proposals, cfg, rewardVars, computeHours,
                 token, burned, now>>

TimelockElapsed(p) == now >= pendingBeneficiaries[p].effective

ExecuteBeneficiaryChange(p) ==
  /\ pendingBeneficiaries[p].to # NoAddr
  /\ TimelockElapsed(p)
  /\ info' = [info EXCEPT ![p].beneficiary = pendingBeneficiaries[p].to]
  /\ pendingBeneficiaries' = [pendingBeneficiaries EXCEPT ![p] = [to |-> NoAddr, effective |-> 0]]
  /\ UNCHANGED <<queue, totalStaked, totalUnbonding, nodeIdToProvider, proposals, cfg,
                 rewardVars, computeHours, token, burned, now>>

FreezeProvider(p) ==
  /\ info[p].active
  /\ info' = [info EXCEPT ![p].frozen = TRUE]
  /\ UNCHANGED <<queue, totalStaked, totalUnbonding, pendingBeneficiaries, nodeIdToProvider,
                 proposals, cfg, rewardVars, computeHours, token, burned, now>>

UnfreezeProvider(p) ==
  /\ info[p].frozen
  /\ info' = [info EXCEPT ![p].frozen = FALSE]
  /\ UNCHANGED <<queue, totalStaked, totalUnbonding, pendingBeneficiaries, nodeIdToProvider,
                 proposals, cfg, rewardVars, computeHours, token, burned, now>>
-----------------------------------------------------------------------------
(* Slashing *)

(* _forfeitUnvestedRewards counts what is not yet vested of every entry,   *)
(* an entry forfeited by an earlier slash included.                        *)
Forfeited(p) == SumOver([e \in vested[p] |-> Unvested(e)], vested[p])

FromActive(p, amount) == Least(amount, info[p].staked)

BurnShare(total, burnBps) == (total * burnBps) \div BPS_DENOMINATOR
TreasuryShare(total, burnBps) == total - BurnShare(total, burnBps)

(* _executeSlash, after the reward checkpoint that every caller takes.     *)
(* The tokens a slash takes out are still in the balance when it is capped *)
(* against the balance.                                                    *)
Slash(p, amount, burnBps) ==
  LET fromActive == FromActive(p, amount)
      rest == amount - fromActive
      fromQueue == SumOver(Taken(queue[p], rest), 1..Len(queue[p]))
      locked == (totalStaked - fromActive) + (totalUnbonding - fromQueue)
      total == amount + Least(Forfeited(p), token[Staking] - locked)
  IN  /\ amount > 0 /\ amount <= Slashable(p)
      /\ token[Staking] >= locked /\ token[Staking] >= total
      /\ UpdateReward(p)
      /\ info' = [info EXCEPT ![p] =
           [info[p] EXCEPT !.staked = info[p].staked - fromActive,
                           !.unbonding = info[p].unbonding - fromQueue,
                           !.active = StillActive(p, info[p].staked - fromActive)]]
      /\ queue' = [queue EXCEPT ![p] = Drained(@, rest)]
      /\ totalStaked' = totalStaked - fromActive
      /\ totalUnbonding' = totalUnbonding - fromQueue
      /\ vested' = [vested EXCEPT ![p] =
           {IF Unvested(e) > 0 THEN [e EXCEPT !.released = e.total] ELSE e : e \in @}]
      /\ token' = [token EXCEPT ![Staking] = @ - total,
                                ![cfg.treasury] = @ + TreasuryShare(total, burnBps)]
      /\ burned' = burned + BurnShare(total, burnBps)

(* slashImmediate, and slash, which does the same. *)
SlashImmediate(p, amount) ==
  /\ cfg.slashingEnabled
  /\ Slash(p, amount, cfg.slashBurnBps)
  /\ UNCHANGED <<pendingBeneficiaries, nodeIdToProvider, proposals, cfg, computeHours, now>>

Propose(p, amount) ==
  /\ amount > 0 /\ amount <= Slashable(p)
  /\ Len(proposals) < MaxProposals
  /\ proposals' = Append(proposals,
       [provider |-> p, amount |-> amount, proposedAt |-> now, executed |-> FALSE,
        appealed |-> FALSE, resolved |-> FALSE, window |-> cfg.appealWindow,
        burnBps |-> cfg.slashBurnBps])
  /\ UNCHANGED <<stakeVars, pendingBeneficiaries, nodeIdToProvider, cfg, rewardVars,
                 computeHours, token, burned, now>>

ProposeSlash(p, amount) == Propose(p, amount)
ProposeSlashByReason(p, reason) ==
  Propose(p, (info[p].staked * cfg.slashPercentageBps[reason]) \div BPS_DENOMINATOR)

(* Carry out proposal k for what is still slashable, which may be nothing: *)
(* then only the reward checkpoint is taken.                               *)
CarryOut(k) ==
  LET q == proposals[k]
      actualAmount == Least(q.amount, Slashable(q.provider))
  IN  \/ actualAmount > 0 /\ Slash(q.provider, actualAmount, q.burnBps)
      \/ /\ actualAmount = 0
         /\ UpdateReward(q.provider)
         /\ UNCHANGED <<stakeVars, vested, token, burned>>

WindowEnd(k) == proposals[k].proposedAt + proposals[k].window

(* Mutant: an appeal does not stop the execution. *)
ExecutableDespiteAppeal(k) == ~proposals[k].executed /\ now >= WindowEnd(k)

Executable(k) == ~proposals[k].executed /\ ~proposals[k].appealed /\ now >= WindowEnd(k)

ExecuteSlash(k) ==
  /\ cfg.slashingEnabled
  /\ Executable(k)
  /\ proposals' = [proposals EXCEPT ![k].executed = TRUE]
  /\ CarryOut(k)
  /\ UNCHANGED <<pendingBeneficiaries, nodeIdToProvider, cfg, computeHours, now>>

AppealSlash(k) ==
  /\ ~proposals[k].executed /\ ~proposals[k].appealed
  /\ now < WindowEnd(k)
  /\ proposals' = [proposals EXCEPT ![k].appealed = TRUE]
  /\ UNCHANGED <<stakeVars, pendingBeneficiaries, nodeIdToProvider, cfg, rewardVars,
                 computeHours, token, burned, now>>

ResolveAppeal(k, uphold) ==
  /\ proposals[k].appealed /\ ~proposals[k].resolved /\ ~proposals[k].executed
  /\ proposals' = [proposals EXCEPT ![k].resolved = TRUE, ![k].executed = uphold]
  /\ \/ uphold /\ cfg.slashingEnabled /\ CarryOut(k)
     \/ ~uphold /\ UNCHANGED <<stakeVars, rewardVars, token, burned>>
  /\ UNCHANGED <<pendingBeneficiaries, nodeIdToProvider, cfg, computeHours, now>>
-----------------------------------------------------------------------------
(* Rewards *)

ClaimRewards(p) ==
  LET reward == Earned(p)
      immediateAmount == (reward * cfg.immediateReleaseBps) \div BPS_DENOMINATOR
      vestedAmount == reward - immediateAmount
  IN  /\ ~info[p].frozen
      /\ reward > 0
      /\ Checkpoint
      /\ rewards' = [rewards EXCEPT ![p] = 0]
      /\ paid' = [paid EXCEPT ![p] = rewardPerToken]
      /\ Transfer(Staking, p, immediateAmount)
      /\ vested' = [vested EXCEPT ![p] = @ \cup
           (IF vestedAmount > 0
            THEN {[total |-> vestedAmount, released |-> 0, start |-> now]} ELSE {})]
      /\ UNCHANGED <<stakeVars, pendingBeneficiaries, nodeIdToProvider, proposals, cfg,
                     computeHours, now>>

(* The subtraction of what an entry has released reverts the whole call    *)
(* when it is more than has vested; entries released in full are removed.  *)
ClaimVestedRewards(p) ==
  LET claimable == SumOver([e \in vested[p] |-> VestedAmount(e) - e.released], vested[p])
  IN  /\ ~info[p].frozen
      /\ \A e \in vested[p] : VestedAmount(e) >= e.released
      /\ claimable > 0
      /\ vested' = [vested EXCEPT ![p] =
           {[e EXCEPT !.released = VestedAmount(e)] : e \in {d \in @ : VestedAmount(d) < d.total}}]
      /\ Transfer(Staking, p, claimable)
      /\ UNCHANGED <<stakeVars, pendingBeneficiaries, nodeIdToProvider, proposals, cfg,
                     rw, rewards, paid, computeHours, now>>

(* The owner's transfer that notifyRewardAmount expects to come first. *)
FundRewards(amount) ==
  /\ Transfer(Owner, Staking, amount)
  /\ UNCHANGED <<stakeVars, pendingBeneficiaries, nodeIdToProvider, proposals, cfg,
                 rewardVars, computeHours, now>>

MaxLiability(rate, multiplier) ==
  (rate * cfg.rewardsDuration * multiplier) \div BPS_DENOMINATOR

Covered(rate) == MaxLiability(rate, cfg.maxTierMultiplierBps) <= RewardBalance

NotifyRewardAmount(reward) ==
  LET adjusted == (reward * cfg.emissionMultiplier) \div BPS_DENOMINATOR
      leftover == IF now >= rw.finish THEN 0 ELSE (rw.finish - now) * rw.rate
      uncapped == (adjusted + leftover) \div cfg.rewardsDuration
      rate == IF cfg.maxEmissionRate > 0 /\ uncapped > cfg.maxEmissionRate
              THEN cfg.maxEmissionRate ELSE uncapped
  IN  /\ Covered(rate)
      /\ rw' = [rate |-> rate, finish |-> now + cfg.rewardsDuration, last |-> now,
                perToken |-> rewardPerToken]
      /\ UNCHANGED <<stakeVars, pendingBeneficiaries, nodeIdToProvider, proposals, cfg,
                     rewards, paid, vested, computeHours, token, burned, now>>

ReportComputeHours(h) ==
  /\ computeHours + h <= MaxHours
  /\ computeHours' = computeHours + h
  /\ UNCHANGED <<stakeVars, pendingBeneficiaries, nodeIdToProvider, proposals, cfg,
                 rewardVars, token, burned, now>>
-----------------------------------------------------------------------------
(* What the owner sets *)

SetTierMinStake(t, minStake) ==
  /\ t > Starter => minStake > cfg.tierMin[t - 1]
  /\ t + 1 \in Tiers => minStake < cfg.tierMin[t + 1]
  /\ cfg' = [cfg EXCEPT !.tierMin[t] = minStake]

SetTierRewardMultiplier(t, bps) ==
  /\ bps >= BPS_DENOMINATOR /\ bps <= cfg.maxTierMultiplierBps
  /\ cfg' = [cfg EXCEPT !.tierMultiplier[t] = bps]

SetMaxTierMultiplierBps(bps) ==
  /\ bps >= BPS_DENOMINATOR /\ bps <= MAX_MULTIPLIER_CAP
  /\ now < rw.finish /\ rw.rate > 0 => MaxLiability(rw.rate, bps) <= RewardBalance
  /\ cfg' = [cfg EXCEPT !.maxTierMultiplierBps = bps]

SetUnbondingPeriod(d) == d >= 1 /\ d <= 90 * DAY /\ cfg' = [cfg EXCEPT !.unbondingPeriod = d]
SetAppealWindow(d) == d >= 1 /\ d <= 14 * DAY /\ cfg' = [cfg EXCEPT !.appealWindow = d]
SetSlashFeeSplit(bps) == bps <= BPS_DENOMINATOR /\ cfg' = [cfg EXCEPT !.slashBurnBps = bps]
SetSlashPercentage(r, bps) ==
  bps <= BPS_DENOMINATOR /\ cfg' = [cfg EXCEPT !.slashPercentageBps[r] = bps]
SetSlashingEnabled(b) == cfg' = [cfg EXCEPT !.slashingEnabled = b]
SetPaused(b) == cfg.paused # b /\ cfg' = [cfg EXCEPT !.paused = b]
SetTreasury(t) == t # NoAddr /\ cfg' = [cfg EXCEPT !.treasury = t]
SetRewardsDuration(d) == d > 0 /\ now >= rw.finish /\ cfg' = [cfg EXCEPT !.rewardsDuration = d]
SetVestingParams(d, bps) ==
  bps <= BPS_DENOMINATOR /\ cfg' = [cfg EXCEPT !.vestingPeriod = d, !.immediateReleaseBps = bps]
SetEmissionMultiplier(bps) ==
  bps > 0 /\ bps <= MAX_EMISSION_MULTIPLIER /\ cfg' = [cfg EXCEPT !.emissionMultiplier = bps]
SetMaxEmissionRate(r) == cfg' = [cfg EXCEPT !.maxEmissionRate = r]

OwnerStep ==
  /\ \/ \E t \in Settings.tiers, m \in Settings.tierMin : SetTierMinStake(t, m)
     \/ \E t \in Settings.tiers, m \in Settings.tierMultiplier : SetTierRewardMultiplier(t, m)
     \/ \E m \in Settings.maxTierMultiplierBps : SetMaxTierMultiplierBps(m)
     \/ \E d \in Settings.unbondingPeriod : SetUnbondingPeriod(d)
     \/ \E d \in Settings.appealWindow : SetAppealWindow(d)
     \/ \E bps \in Settings.slashBurnBps : SetSlashFeeSplit(bps)
     \/ \E r \in Reasons, bps \in Settings.slashPercentageBps : SetSlashPercentage(r, bps)
     \/ \E b \in Settings.slashingEnabled : SetSlashingEnabled(b)
     \/ \E b \in Settings.paused : SetPaused(b)
     \/ \E t \in Settings.treasury : SetTreasury(t)
     \/ \E d \in Settings.rewardsDuration : SetRewardsDuration(d)
     \/ \E d \in Settings.vestingPeriod, bps \in Settings.immediateReleaseBps :
          SetVestingParams(d, bps)
     \/ \E bps \in Settings.emissionMultiplier : SetEmissionMultiplier(bps)
     \/ \E r \in Settings.maxEmissionRate : SetMaxEmissionRate(r)
  /\ UNCHANGED <<stakeVars, pendingBeneficiaries, nodeIdToProvider, proposals, rewardVars,
                 computeHours, token, burned, now>>

Tick ==
  /\ now < MaxTime
  /\ now' = now + 1
  /\ UNCHANGED <<stakeVars, pendingBeneficiaries, nodeIdToProvider, proposals, cfg,
                 rewardVars, computeHours, token, burned>>

ProviderStep(p) ==
  \/ \E a \in StakeAmounts : Stake(p, a) \/ \E n \in NodeIds : StakeWithIdentity(p, a, n)
  \/ \E n \in NodeIds \cup {NoId} : UpdateIdentity(p, n)
  \/ \E a \in UnstakeAmounts : RequestUnstake(p, a)
  \/ \E i \in 1..Len(queue[p]) : CompleteUnstake(p, i)
  \/ \E q \in Settings.beneficiary : InitiateBeneficiaryChange(p, q)
  \/ ExecuteBeneficiaryChange(p)
  \/ ClaimRewards(p)
  \/ ClaimVestedRewards(p)

SlasherStep(p) ==
  \/ p \in Settings.freezable /\ FreezeProvider(p)
  \/ \E a \in SlashAmounts : SlashImmediate(p, a) \/ ProposeSlash(p, a)
  \/ \E r \in Reasons : ProposeSlashByReason(p, r)

Next ==
  \/ \E p \in Providers : ProviderStep(p) \/ SlasherStep(p) \/ UnfreezeProvider(p)
  \/ \E k \in 1..Len(proposals) :
       ExecuteSlash(k) \/ AppealSlash(k) \/ \E b \in BOOLEAN : ResolveAppeal(k, b)
  \/ \E a \in RewardAmounts : FundRewards(a) \/ NotifyRewardAmount(a)
  \/ \E h \in Settings.hours : ReportComputeHours(h)
  \/ OwnerStep
  \/ Tick

Spec == Init /\ [][Next]_vars
-----------------------------------------------------------------------------
(* The global counters agree with the providers' records and these with    *)
(* their queues: what stake, requestUnstake, completeUnstake and slashing  *)
(* (active stake first, then the newest requests) move between them adds   *)
(* up, so that no checked subtraction in completeUnstake or _executeSlash  *)
(* can trap.                                                               *)
Accounting ==
  /\ totalStaked = SumOver([p \in Providers |-> info[p].staked], Providers)
  /\ totalUnbonding = SumOver([p \in Providers |-> info[p].unbonding], Providers)
  /\ \A p \in Providers :
       info[p].unbonding = SumOver(Pending(queue[p]), 1..Len(queue[p]))

(* notifyRewardAmount has not started an epoch of rewards yet. *)
NoEpoch == rw.finish = 0

(* The contract's token balance backs the tracked stake and unbonding. *)
Backed == token[Staking] >= totalStaked + totalUnbonding

(* No operation creates or loses tokens. *)
TokensConserved ==
  SumOver(token, Accounts) + burned = InitialBalance * NumProviders + OwnerBalance

(* The subtractions of rewardPerToken and earned never go below zero; they *)
(* are part of stake, requestUnstake and every slash, which would          *)
(* otherwise revert for good.                                              *)
RewardClockSound ==
  /\ rw.last <= lastTimeRewardApplicable
  /\ \A p \in Providers : paid[p] <= rw.perToken

(* A matured request of a provider that is not frozen can be completed,    *)
(* whatever was slashed meanwhile and even when the contract is paused:    *)
(* nothing completeUnstake requires is missing.                            *)
MaturedRequestsPay ==
  NoEpoch => \A p \in Providers : \A i \in 1..Len(queue[p]) :
    ~info[p].frozen /\ ~queue[p][i].completed /\ now >= queue[p][i].unlockTime =>
      Completable(p, i)

(* The reverse lookup of a provider's node finds the provider. *)
NodeIdsResolve ==
  \A p \in Providers : info[p].nodeId # NoId => nodeIdToProvider[info[p].nodeId] = p

(* Two providers never claim the same node. *)
NodesApart ==
  \A p, q \in Providers :
    p # q /\ info[p].nodeId # NoId => info[p].nodeId # info[q].nodeId

(* An appealed proposal is carried out only by the owner's ruling: an      *)
(* executed one was never appealed, or its appeal was resolved.            *)
AppealsRespected ==
  \A k \in 1..Len(proposals) :
    proposals[k].executed => \/ proposals[k].appealed /\ proposals[k].resolved
                             \/ ~proposals[k].appealed /\ now >= WindowEnd(k)

(* Only an appeal is ruled upon: a proposal nobody appealed against is not *)
(* resolved behind the provider's back.                                    *)
RulingsOnAppeal ==
  \A k \in 1..Len(proposals) : proposals[k].resolved => proposals[k].appealed

(* A proposal slashes at most once: when it was executed, or its appeal    *)
(* was resolved either way, no step of executeSlash or resolveAppeal takes *)
(* it up again.                                                            *)
DecidedOnce ==
  \A k \in 1..Len(proposals) :
    proposals[k].executed \/ proposals[k].resolved =>
      ~(ExecuteSlash(k) \/ \E b \in BOOLEAN : ResolveAppeal(k, b))

(* A slash reduces a request only when every newer request of that         *)
(* provider is used up.                                                    *)
NewestFirst ==
  \A p \in Providers : \A i, j \in 1..Len(queue[p]) :
    i < j /\ queue'[p][i].amount < queue[p][i].amount => queue'[p][j].completed

(* While a provider is frozen its slashable balance leaves only by a slash: *)
(* its wallet receives nothing, unless it is the treasury as well.          *)
FrozenFundsStay ==
  \A p \in Providers : info[p].frozen /\ p # cfg.treasury => token'[p] <= token[p]

(* A beneficiary is replaced no earlier than the timelock after some       *)
(* request, unless the provider registers anew.                            *)
BeneficiaryDelayed ==
  \A p \in Providers :
    info'[p].beneficiary # info[p].beneficiary /\ info[p].active
      => pendingBeneficiaries[p].to = info'[p].beneficiary
         /\ pendingBeneficiaries[p].effective <= now

(* The minima of the tiers stay strictly ascending through any sequence of *)
(* changes, so that _getTier finds the highest tier reached.               *)
TiersAscending == \A t \in Tiers : t > Starter => cfg.tierMin[t - 1] < cfg.tierMin[t]
-----------------------------------------------------------------------------
(* stake, requestUnstake, completeUnstake and _executeSlash keep the global *)
(* counters, the providers' records and their queues in agreement; no       *)
(* operation creates or loses tokens; and until notifyRewardAmount starts   *)
(* an epoch the balance backs stake and unbonding. The variables have their *)
(* types.                                                                   *)
BooksBalanced == TypeOK /\ Accounting /\ TokensConserved /\ (NoEpoch => Backed)

(* completeUnstake pays every matured request of a provider not frozen, and *)
(* a frozen provider's wallet receives nothing until it is unfrozen.        *)
FundsReachable == []MaturedRequestsPay /\ [][FrozenFundsStay]_vars

(* executeSlash carries out an appealed proposal only after the ruling and  *)
(* resolveAppeal rules on appeals only; a proposal executed or ruled upon   *)
(* is never taken up again, and _executeSlash takes from the newest         *)
(* requests first.                                                          *)
SlashesDecidedFairly ==
  /\ [](AppealsRespected /\ RulingsOnAppeal)
  /\ [][DecidedOnce /\ NewestFirst]_vars

(* stakeWithIdentity and updateIdentity keep a provider's node resolvable   *)
(* to that provider and to no other, and executeBeneficiaryChange waits for *)
(* the timelock of the last request.                                        *)
IdentitiesHeld ==
  /\ [](NodeIdsResolve /\ NodesApart)
  /\ [][BeneficiaryDelayed]_vars

(* The subtractions in rewardPerToken and earned never underflow, and       *)
(* setTierMinStake keeps the minima of the tiers strictly ascending.        *)
RewardsSound == RewardClockSound /\ TiersAscending
-----------------------------------------------------------------------------
(* The constants: what the setters accept, amounts that are numbers, and   *)
(* accounts that are told apart.                                           *)
Constants ==
  /\ NumProviders \in Nat /\ IsFiniteSet(Treasuries)
  /\ Staking \notin Providers /\ Owner \notin Providers /\ Staking # Owner
  /\ NoAddr \notin Providers /\ NoId \notin NodeIds
  /\ StakeAmounts \subseteq Nat /\ UnstakeAmounts \subseteq Nat
  /\ SlashAmounts \subseteq Nat /\ RewardAmounts \subseteq Nat
  /\ InitialConfig \in Config /\ InitialConfig.rewardsDuration > 0
  /\ \A t \in Tiers : t > Starter => InitialConfig.tierMin[t - 1] < InitialConfig.tierMin[t]
  /\ BENEFICIARY_TIMELOCK \in Nat /\ REWARD_SCALE \in Nat \ {0}
  /\ InitialBalance \in Nat /\ OwnerBalance \in Nat

SettingTypes ==
  /\ Settings.tiers \subseteq Tiers /\ Settings.tierMin \subseteq Nat
  /\ Settings.tierMultiplier \subseteq Nat /\ Settings.maxTierMultiplierBps \subseteq Nat
  /\ Settings.unbondingPeriod \subseteq Nat /\ Settings.appealWindow \subseteq Nat
  /\ Settings.slashBurnBps \subseteq Nat /\ Settings.slashPercentageBps \subseteq Nat
  /\ Settings.slashingEnabled \subseteq BOOLEAN /\ Settings.paused \subseteq BOOLEAN
  /\ Settings.treasury \subseteq Treasuries /\ Settings.rewardsDuration \subseteq Nat
  /\ Settings.vestingPeriod \subseteq Nat /\ Settings.immediateReleaseBps \subseteq Nat
  /\ Settings.emissionMultiplier \subseteq Nat /\ Settings.maxEmissionRate \subseteq Nat
  /\ Settings.beneficiary \subseteq Providers /\ Settings.hours \subseteq Nat
=============================================================================
