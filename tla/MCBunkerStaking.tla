--------------------------- MODULE MCBunkerStaking ---------------------------
(****************************************************************************)
(* BunkerStaking on a small instance, and under BunkerEdgeRegistry. A       *)
(* behaviour follows one scenario, a group of operations that share state,  *)
(* so that TLC explores their sum and not their product: the next-state     *)
(* relation of every scenario is a part of BunkerStaking's own.             *)
(****************************************************************************)
EXTENDS BunkerStaking

CONSTANTS Scenarios,      \* the scenarios this run explores
          EdgeNodeIds, Endpoints, NoEndpoint

VARIABLES edge, nodeIdToEdge, edgeProposals, edgeCfg, scenario

(* Parameters: those of the constructor scaled down, and what the owner    *)
(* may change.                                                             *)
MCConfig ==
  [unbondingPeriod |-> 1, appealWindow |-> 1, slashBurnBps |-> 8000,
   slashPercentageBps |-> [r \in Reasons |-> 5000], slashingEnabled |-> TRUE,
   paused |-> FALSE, treasury |-> CHOOSE t \in Treasuries : TRUE,
   tierMin |-> <<10, 20, 40, 80, 160>>,
   tierMultiplier |-> <<10000, 10000, 10500, 11000, 12000>>, maxTierMultiplierBps |-> 12000,
   rewardsDuration |-> 2, vestingPeriod |-> 2, immediateReleaseBps |-> 2500,
   emissionMultiplier |-> 10000, maxEmissionRate |-> 0]

MCSettings ==
  [tiers |-> Tiers, tierMin |-> {15, 30, 50}, tierMultiplier |-> {12000},
   maxTierMultiplierBps |-> {15000}, unbondingPeriod |-> {2}, appealWindow |-> {2},
   slashBurnBps |-> {0}, slashPercentageBps |-> {10000}, slashingEnabled |-> BOOLEAN,
   paused |-> BOOLEAN, treasury |-> Treasuries, rewardsDuration |-> {1},
   vestingPeriod |-> {0}, immediateReleaseBps |-> {0}, emissionMultiplier |-> {20000},
   maxEmissionRate |-> {2}, beneficiary |-> Providers, freezable |-> {1}, hours |-> {1}]

(* The proofs about BunkerStaking suppose this of its constants. *)
ASSUME StakingConstants == Constants /\ SettingTypes

(* The edge registry, with what it sees of the staking contract: it holds  *)
(* the slasher role, reads a provider's stake with getProviderInfo and     *)
(* sends its slashes to BunkerStaking.slash, in the same transaction.      *)
Edge == INSTANCE BunkerEdgeRegistry WITH
  NodeIds <- EdgeNodeIds, SlashAmounts <- {7}, MinStakes <- {10}, AppealWindows <- {1},
  StakeLevels <- Nat, MaxProposals <- 1, MaxTime <- 2,
  staked <- [p \in Providers |-> info[p].staked],
  unbonding <- [p \in Providers |-> info[p].unbonding],
  stakingSlashes <- cfg.slashingEnabled

edgeVars == <<edge, nodeIdToEdge, edgeProposals, edgeCfg>>
mcVars == <<vars, edgeVars, scenario>>
-----------------------------------------------------------------------------
Clock(end) == now < end /\ Tick
StakeOnce(p) == Slashable(p) = 0 /\ Stake(p, 10)
UnstakeOnce(p, amount) == queue[p] = <<>> /\ RequestUnstake(p, amount)
Complete(p) == \E i \in 1 .. Len(queue[p]) : CompleteUnstake(p, i)
OwnerSets(setter) ==
  /\ setter
  /\ UNCHANGED <<stakeVars, pendingBeneficiaries, nodeIdToProvider, proposals, rewardVars,
                 computeHours, token, burned, now>>

(* Two providers stake, unbond, are frozen and slashed. *)
FundsNext ==
  \/ \E p \in Providers :
       \/ Stake(p, 10)
       \/ \E a \in {5, 10} : RequestUnstake(p, a)
       \/ Complete(p)
       \/ \E a \in {5, 12} : SlashImmediate(p, a)
       \/ UnfreezeProvider(p)
  \/ FreezeProvider(1)
  \/ OwnerSets(SetSlashingEnabled(TRUE))
  \/ Clock(2)

(* Two proposals to slash one provider, appealed or not, under rules that  *)
(* change meanwhile.                                                       *)
AppealsNext ==
  \/ Stake(1, 20)
  \/ SlashImmediate(1, 4)
  \/ ProposeSlash(1, 4)
  \/ \E r \in Reasons : ProposeSlashByReason(1, r)
  \/ \E k \in 1 .. Len(proposals) :
       ExecuteSlash(k) \/ AppealSlash(k) \/ \E b \in BOOLEAN : ResolveAppeal(k, b)
  \/ OwnerSets(SetAppealWindow(2) \/ \E b \in BOOLEAN : SetSlashingEnabled(b))
  \/ Clock(3)

(* Two providers, two node identities and the beneficiaries. *)
IdentityNext ==
  \/ \E p \in Providers :
       \/ StakeOnce(p)
       \/ Slashable(p) = 0 /\ \E n \in NodeIds : StakeWithIdentity(p, 10, n)
       \/ \E n \in NodeIds \cup {NoId} : UpdateIdentity(p, n)
       \/ UnstakeOnce(p, 10)
       \/ Complete(p)
       \/ \E q \in Providers : InitiateBeneficiaryChange(p, q)
       \/ ExecuteBeneficiaryChange(p)
  \/ OwnerSets(SetSlashingEnabled(TRUE))
  \/ Clock(3)

(* Two epochs of rewards for one provider, who is slashed meanwhile;       *)
(* durations, multipliers and vesting change between them.                 *)
EpochsNext ==
  \/ StakeOnce(1) \/ UnstakeOnce(1, 10) \/ Complete(1) \/ SlashImmediate(1, 5)
  \/ ClaimRewards(1) \/ ClaimVestedRewards(1)
  \/ FundRewards(6) \/ NotifyRewardAmount(6)
  \/ OwnerSets(\/ SetTierRewardMultiplier(1, 12000) \/ SetRewardsDuration(1)
               \/ SetVestingParams(0, 0) \/ SetMaxEmissionRate(2))
  \/ Clock(3)

(* The owner's table of tiers, and what else the owner may set. *)
TableNext ==
  \/ StakeOnce(1)
  \/ ReportComputeHours(1)
  \/ OwnerSets(\/ \E t \in Tiers, m \in Settings.tierMin : SetTierMinStake(t, m)
               \/ \E t \in Treasuries : SetTreasury(t)
               \/ \E r \in Reasons : SetSlashPercentage(r, 10000)
               \/ SetMaxTierMultiplierBps(15000) \/ SetSlashFeeSplit(0)
               \/ SetEmissionMultiplier(20000) \/ SetUnbondingPeriod(2)
               \/ \E b \in BOOLEAN : SetPaused(b))
  \/ Clock(2)

(* Two providers whose rewards are still vesting when one is slashed. *)
VestingNext ==
  \/ \E p \in Providers :
       StakeOnce(p) \/ SlashImmediate(p, 1) \/ ClaimRewards(p) \/ ClaimVestedRewards(p)
  \/ \E a \in {10, 12} : FundRewards(a) \/ NotifyRewardAmount(a)
  \/ Clock(4)

(* The staking contract under the edge registry: slashing is switched on   *)
(* and off under the registry's proposals.                                 *)
UnderEdgeNext ==
  \/ \E p \in Providers : StakeOnce(p) \/ UnstakeOnce(p, 5) \/ Complete(p)
  \/ OwnerSets(\E b \in BOOLEAN : SetSlashingEnabled(b))
  \/ Clock(2)

(* One transaction: the registry decides about the proposal, and calls     *)
(* slash, which reverts with everything when it refuses.                   *)
EdgeSlash(k) ==
  /\ SlashImmediate(edgeProposals[k].provider, edgeProposals[k].amount)
  /\ Edge!MarkExecuted(k) \/ Edge!MarkUpheld(k)

EdgeNext ==
  \/ UnderEdgeNext /\ UNCHANGED edgeVars
  \/ UNCHANGED vars /\ Edge!LocalStep
  \/ \E k \in 1 .. Len(edgeProposals) : EdgeSlash(k)

(* The scenarios without the registry. *)
NoEdge == edge = NoAddr /\ nodeIdToEdge = NoAddr /\ edgeProposals = NoAddr /\ edgeCfg = NoAddr

MCInit ==
  /\ scenario \in Scenarios
  /\ Init
  /\ IF scenario = "edge" THEN Edge!EdgeInit ELSE NoEdge

StakingNext ==
  /\ \/ scenario = "funds" /\ FundsNext
     \/ scenario = "appeals" /\ AppealsNext
     \/ scenario = "identity" /\ IdentityNext
     \/ scenario = "epochs" /\ EpochsNext
     \/ scenario = "table" /\ TableNext
     \/ scenario = "vesting" /\ VestingNext
  /\ UNCHANGED edgeVars

MCNext ==
  /\ \/ StakingNext
     \/ scenario = "edge" /\ EdgeNext
  /\ UNCHANGED scenario

MCSpec == MCInit /\ [][MCNext]_mcVars
-----------------------------------------------------------------------------
(* The balance backs stake and unbonding, with rewards vesting. *)
BackedWithRewards == Backed

(* With the real staking contract underneath, the registry behaves as its   *)
(* own specification says: what slash takes is what the registry expects,   *)
(* and every other staking operation leaves the registry's state alone.     *)
EdgeImplemented ==
  /\ scenario = "edge" => Edge!Init
  /\ [][scenario = "edge" => Edge!Next \/ UNCHANGED Edge!vars]_mcVars

(* The lookup of node IDs is the inverse of the registrations, through any  *)
(* sequence of registering, leaving and coming back. A slash reaches        *)
(* BunkerStaking at most once per proposal, and only after the window it    *)
(* was proposed with, unless the owner upheld it on appeal.                 *)
RegistryAgrees ==
  /\ Edge!LookupIsInverse
  /\ \A k \in 1 .. Len(edgeProposals) :
       LET q == edgeProposals[k]
       IN  /\ q.executed => \/ q.appealed /\ q.resolved
                            \/ ~q.appealed /\ now >= q.proposedAt + q.window
           /\ q.executed \/ q.resolved => ~ENABLED EdgeSlash(k)

(* A proposal of the registry costs the provider exactly its amount, and    *)
(* nobody else anything: the registry and the staking contract agree on     *)
(* what was slashed even if both slash the same provider.                   *)
EdgeSlashExact ==
  \A k \in 1 .. Len(edgeProposals) :
       ~edgeProposals[k].executed /\ edgeProposals'[k].executed =>
         LET p == edgeProposals[k].provider
         IN  /\ Slashable(p)' = Slashable(p) - edgeProposals[k].amount
             /\ token'[Staking] = token[Staking] - edgeProposals[k].amount
             /\ \A q \in Providers \ {p} : info'[q] = info[q]

=============================================================================
