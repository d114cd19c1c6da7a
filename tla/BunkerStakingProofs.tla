------------------------- MODULE BunkerStakingProofs ------------------------
(***************************************************************************)
(* The staking contract for any number of providers, any amounts and any   *)
(* parameters the setters accept: IInv is inductive, so the books agree,   *)
(* no subtraction of the reward clock goes below zero, slashes are decided *)
(* as proposed and appealed, and node identities resolve.                  *)
(***************************************************************************)
EXTENDS BunkerStakingBooks

(* The provers a leaf is given to, in this order, when it names none. *)
USE SMTT(20), ZenonT(30), Z3T(30)

(* Proposals: one that was carried out was ruled upon when it was appealed *)
(* and had waited for its window when it was not; only what was appealed   *)
(* is ruled upon.                                                          *)
Decisions ==
  /\ proposals \in Seq(SlashProposal)
  /\ AppealsRespected
  /\ \A k \in 1 .. Len(proposals) : proposals[k].resolved => proposals[k].appealed

(* Another state of proposal k. *)
LEMMA DecisionMoved ==
  ASSUME Decisions, NEW k \in 1 .. Len(proposals), NEW r \in SlashProposal,
         proposals' = [proposals EXCEPT ![k] = r], now' = now,
         r.executed => \/ r.appealed /\ r.resolved
                       \/ ~r.appealed /\ now >= r.proposedAt + r.window,
         r.resolved => r.appealed
  PROVE  Decisions'
<1>1. /\ proposals' \in Seq(SlashProposal) /\ Len(proposals') = Len(proposals)
      /\ \A j \in 1 .. Len(proposals) : proposals'[j] = IF j = k THEN r ELSE proposals[j]
  BY DEF Decisions
<1> QED BY <1>1 DEF Decisions, AppealsRespected, WindowEnd

LEMMA DecisionsKept ==
  ASSUME Constants, ConfigSound, Stakes, Rewards, Decisions, Next
  PROVE  Decisions'
<1>1. ASSUME UNCHANGED <<proposals, now>> PROVE Decisions'
  BY <1>1 DEF Decisions, AppealsRespected, WindowEnd
<1>2. ASSUME NEW p \in Providers, NEW a \in Nat, Propose(p, a) PROVE Decisions'
  <2> DEFINE r == [provider |-> p, amount |-> a, proposedAt |-> now, executed |-> FALSE,
                   appealed |-> FALSE, resolved |-> FALSE, window |-> cfg.appealWindow,
                   burnBps |-> cfg.slashBurnBps]
  <2>1. now \in Nat /\ cfg.appealWindow \in Nat /\ cfg.slashBurnBps \in BasisPoints
    BY DEF Rewards, ConfigSound, Config
  <2>2. r \in SlashProposal /\ ~r.executed /\ ~r.resolved
    BY <2>1 DEF SlashProposal
  <2>3. proposals' = Append(proposals, r) /\ now' = now
    BY <1>2 DEF Propose
  <2> HIDE DEF r
  <2>4. /\ proposals' \in Seq(SlashProposal) /\ Len(proposals') = Len(proposals) + 1
        /\ \A j \in 1 .. Len(proposals) : proposals'[j] = proposals[j]
        /\ proposals'[Len(proposals) + 1] = r
        /\ \A j \in 1 .. Len(proposals') : j \in 1 .. Len(proposals) \/ j = Len(proposals) + 1
    BY <2>2, <2>3 DEF Decisions
  <2> QED BY <2>2, <2>3, <2>4 DEF Decisions, AppealsRespected, WindowEnd
<1>3. ASSUME NEW k \in 1 .. Len(proposals), NEW b \in BOOLEAN,
             ExecuteSlash(k) \/ AppealSlash(k) \/ ResolveAppeal(k, b)
      PROVE  Decisions'
  <2> DEFINE q == proposals[k]
  <2>0. q.resolved => q.appealed
    BY DEF Decisions
  <2>1. q \in SlashProposal
    BY DEF Decisions
  <2>2. CASE ExecuteSlash(k)
    <3> DEFINE r == [q EXCEPT !.executed = TRUE]
    <3>1. /\ proposals' = [proposals EXCEPT ![k] = r] /\ now' = now /\ ~q.appealed
          /\ now >= q.proposedAt + q.window
      BY <2>2 DEF ExecuteSlash, Executable, WindowEnd
    <3>2. /\ r \in SlashProposal /\ r.appealed = q.appealed /\ r.proposedAt = q.proposedAt
          /\ r.window = q.window /\ r.resolved = q.resolved
      BY <2>1, Zenon DEF SlashProposal
    <3> HIDE DEF r
    <3> QED BY <2>0, <3>1, <3>2, DecisionMoved, Zenon
  <2>3. CASE AppealSlash(k)
    <3> DEFINE r == [q EXCEPT !.appealed = TRUE]
    <3>1. proposals' = [proposals EXCEPT ![k] = r] /\ now' = now /\ ~q.executed
      BY <2>3 DEF AppealSlash
    <3>2. r \in SlashProposal /\ r.executed = q.executed /\ r.appealed
      BY <2>1, Zenon DEF SlashProposal
    <3> HIDE DEF r
    <3> QED BY <3>1, <3>2, DecisionMoved, Zenon
  <2>4. CASE ResolveAppeal(k, b)
    <3> DEFINE r == [q EXCEPT !.resolved = TRUE, !.executed = b]
    <3>1. proposals' = [proposals EXCEPT ![k] = r] /\ now' = now /\ q.appealed
      BY <2>4, Zenon DEF ResolveAppeal
    <3>2. r \in SlashProposal /\ r.resolved /\ r.appealed = q.appealed
      BY <2>1, Zenon DEF SlashProposal
    <3> HIDE DEF r
    <3> QED BY <3>1, <3>2, DecisionMoved, Zenon
  <2> QED BY <1>3, <2>2, <2>3, <2>4
<1>4. ASSUME NEW p \in Providers, ProviderStep(p) \/ SlasherStep(p) \/ UnfreezeProvider(p)
      PROVE  Decisions'
  <2>1. CASE ProviderStep(p)
    BY <1>1, <2>1, Zenon
    DEF ProviderStep, Stake, StakeWithIdentity, Deposit, UpdateIdentity, RequestUnstake,
         CompleteUnstake, InitiateBeneficiaryChange, ExecuteBeneficiaryChange, ClaimRewards,
         ClaimVestedRewards
  <2>2. ASSUME NEW r \in Reasons, ProposeSlashByReason(p, r) PROVE Decisions'
    <3> DEFINE a == (info[p].staked * cfg.slashPercentageBps[r]) \div BPS_DENOMINATOR
    <3>1. info[p].staked \in Nat /\ cfg.slashPercentageBps[r] \in BasisPoints
      BY StakeOf DEF ConfigSound, Config, PerReason
    <3>2. a \in Nat
      BY <3>1, BpsShare
    <3>3. Propose(p, a)
      BY <2>2 DEF ProposeSlashByReason
    <3> HIDE DEF a
    <3> QED BY <1>2, <3>2, <3>3
  <2>3. ASSUME NEW a \in Nat, SlashImmediate(p, a) \/ ProposeSlash(p, a) PROVE Decisions'
    BY <1>1, <1>2, <2>3 DEF SlashImmediate, ProposeSlash
  <2>4. CASE FreezeProvider(p) \/ UnfreezeProvider(p)
    BY <1>1, <2>4 DEF FreezeProvider, UnfreezeProvider
  <2> QED BY <1>4, <2>1, <2>2, <2>3, <2>4 DEF SlasherStep, Constants
<1>5. ASSUME NEW a, FundRewards(a) \/ NotifyRewardAmount(a) \/ ReportComputeHours(a)
      PROVE  Decisions'
  BY <1>1, <1>5 DEF FundRewards, NotifyRewardAmount, ReportComputeHours
<1>6. CASE OwnerStep
  BY <1>1, <1>6 DEF OwnerStep
<1>7. CASE Tick
  <2>1. now' = now + 1 /\ now \in Nat /\ proposals' = proposals
    BY <1>7 DEF Tick, Rewards
  <2>2. \A k \in 1 .. Len(proposals) : WindowEnd(k) \in Nat /\ WindowEnd(k)' = WindowEnd(k)
    <3>1. \A k \in 1 .. Len(proposals) : proposals[k] \in SlashProposal
      BY DEF Decisions
    <3> QED BY <2>1, <3>1 DEF WindowEnd, SlashProposal
  <2> QED BY <2>1, <2>2 DEF Decisions, AppealsRespected
<1> QED BY <1>3, <1>4, <1>5, <1>6, <1>7, Zenon DEF Next
-----------------------------------------------------------------------------
(* The identities and the beneficiaries. *)
Beneficiaries == [to: Providers \cup {NoAddr}, effective: Nat]
Identities ==
  /\ pendingBeneficiaries \in [Providers -> Beneficiaries]
  /\ nodeIdToProvider \in [NodeIds -> Providers \cup {NoAddr}]
  /\ NodeIdsResolve

(* The steps that leave the identities alone: a provider's record may      *)
(* change in its other fields.                                             *)
SameIdentities ==
  /\ pendingBeneficiaries' = pendingBeneficiaries /\ nodeIdToProvider' = nodeIdToProvider
  /\ \A p \in Providers : info'[p].nodeId = info[p].nodeId /\ info'[p].beneficiary = info[p].beneficiary

LEMMA SameIdentitiesHold ==
  ASSUME Identities, SameIdentities
  PROVE  Identities' /\ BeneficiaryDelayed
BY DEF Identities, SameIdentities, NodeIdsResolve, BeneficiaryDelayed

(* A record that keeps its identity and its beneficiary. *)
LEMMA RecordIdentity ==
  ASSUME info \in [Providers -> ProviderInfo], NEW p \in Providers, NEW r,
         r.nodeId = info[p].nodeId, r.beneficiary = info[p].beneficiary,
         info' = [info EXCEPT ![p] = r],
         pendingBeneficiaries' = pendingBeneficiaries, nodeIdToProvider' = nodeIdToProvider
  PROVE  SameIdentities
BY DEF SameIdentities

LEMMA DepositIdentity ==
  ASSUME Constants, Stakes, Identities, NEW p \in Providers, NEW a,
         NEW id \in NodeIds \cup {NoId}, Deposit(p, a, id)
  PROVE  Identities' /\ BeneficiaryDelayed
<1> DEFINE i == info[p]
           st == i.staked + a
           be == IF i.active THEN i.beneficiary ELSE p
           no == IF id # NoId THEN id ELSE i.nodeId
           r == [i EXCEPT !.staked = st, !.active = TRUE, !.beneficiary = be, !.nodeId = no]
<1>1. i \in ProviderInfo
  BY StakeOf
<1>2. /\ info' = [info EXCEPT ![p] = r] /\ pendingBeneficiaries' = pendingBeneficiaries
      /\ nodeIdToProvider' = [n \in NodeIds |-> IF n = id THEN p ELSE nodeIdToProvider[n]]
      /\ id # NoId => nodeIdToProvider[id] = NoAddr
  BY DEF Deposit, Unclaimed
<1>3. i.active => be = i.beneficiary
  OBVIOUS
<1>4. no = IF id # NoId THEN id ELSE i.nodeId
  OBVIOUS
<1> HIDE DEF st, be, no
<1>5. r.nodeId = no /\ r.beneficiary = be
  BY <1>1 DEF ProviderInfo
<1> HIDE DEF r
<1>6. \A q \in Providers : info'[q] = IF q = p THEN r ELSE info[q]
  BY <1>2 DEF Stakes
<1>7. nodeIdToProvider' \in [NodeIds -> Providers \cup {NoAddr}]
  BY <1>2 DEF Identities
<1>8. \A q \in Providers : info[q].nodeId \in NodeIds \cup {NoId}
  BY DEF Stakes, ProviderInfo
<1>9. NodeIdsResolve'
  BY <1>2, <1>4, <1>5, <1>6, <1>8 DEF NodeIdsResolve, Identities, Constants
<1>10. BeneficiaryDelayed
  BY <1>3, <1>5, <1>6 DEF BeneficiaryDelayed
<1> QED BY <1>2, <1>7, <1>9, <1>10 DEF Identities

LEMMA UpdateIdentities ==
  ASSUME Constants, Stakes, Identities, NEW p \in Providers,
         NEW id \in NodeIds \cup {NoId}, UpdateIdentity(p, id)
  PROVE  Identities' /\ BeneficiaryDelayed
<1> DEFINE i == info[p]
           r == [i EXCEPT !.nodeId = id]
<1>1. i \in ProviderInfo
  BY StakeOf
<1>2. /\ info' = [info EXCEPT ![p] = r] /\ pendingBeneficiaries' = pendingBeneficiaries
      /\ nodeIdToProvider' = ReverseLookup(p, id)
      /\ id # i.nodeId /\ id # NoId => nodeIdToProvider[id] = NoAddr
  BY DEF UpdateIdentity, Unclaimed
<1>3. r.nodeId = id /\ r.beneficiary = i.beneficiary
  BY <1>1 DEF ProviderInfo
<1> HIDE DEF r
<1>4. \A q \in Providers : info'[q] = IF q = p THEN r ELSE info[q]
  BY <1>2 DEF Stakes
<1>5. nodeIdToProvider' \in [NodeIds -> Providers \cup {NoAddr}]
  BY <1>2 DEF Identities, ReverseLookup
<1>6. \A n \in NodeIds : nodeIdToProvider'[n] = IF n = id THEN p
                           ELSE IF n = i.nodeId THEN NoAddr ELSE nodeIdToProvider[n]
  BY <1>2 DEF ReverseLookup
<1>7. \A q \in Providers : info[q].nodeId \in NodeIds \cup {NoId}
  BY DEF Stakes, ProviderInfo
<1>8. NodeIdsResolve'
  BY <1>2, <1>3, <1>4, <1>6, <1>7 DEF NodeIdsResolve, Identities, Constants
<1>9. BeneficiaryDelayed
  BY <1>3, <1>4 DEF BeneficiaryDelayed
<1> QED BY <1>2, <1>5, <1>8, <1>9 DEF Identities

LEMMA BeneficiaryIdentities ==
  ASSUME Constants, Stakes, Identities, now \in Nat, NEW p \in Providers, NEW to \in Providers,
         InitiateBeneficiaryChange(p, to) \/ ExecuteBeneficiaryChange(p)
  PROVE  Identities' /\ BeneficiaryDelayed
<1>1. CASE InitiateBeneficiaryChange(p, to)
  <2> DEFINE at == now + BENEFICIARY_TIMELOCK
             r == [to |-> to, effective |-> at]
  <2>1. /\ pendingBeneficiaries' = [pendingBeneficiaries EXCEPT ![p] = r]
        /\ info' = info /\ nodeIdToProvider' = nodeIdToProvider
    BY <1>1 DEF InitiateBeneficiaryChange, stakeVars
  <2>2. at \in Nat
    BY DEF Constants
  <2> HIDE DEF at
  <2>3. r \in Beneficiaries
    BY <2>2 DEF Beneficiaries
  <2> HIDE DEF r
  <2> QED BY <2>1, <2>3 DEF Identities, NodeIdsResolve, BeneficiaryDelayed
<1>2. CASE ExecuteBeneficiaryChange(p)
  <2> DEFINE z == [to |-> NoAddr, effective |-> 0]
             r == [info[p] EXCEPT !.beneficiary = pendingBeneficiaries[p].to]
  <2>1. /\ pendingBeneficiaries' = [pendingBeneficiaries EXCEPT ![p] = z]
        /\ info' = [info EXCEPT ![p] = r] /\ nodeIdToProvider' = nodeIdToProvider
        /\ now >= pendingBeneficiaries[p].effective
    BY <1>2 DEF ExecuteBeneficiaryChange, TimelockElapsed
  <2>2. z \in Beneficiaries
    BY DEF Beneficiaries
  <2>3. info[p] \in ProviderInfo /\ pendingBeneficiaries[p].effective \in Nat
    BY StakeOf DEF Identities, Beneficiaries
  <2>4. r.nodeId = info[p].nodeId /\ r.beneficiary = pendingBeneficiaries[p].to
    BY <2>3 DEF ProviderInfo
  <2> HIDE DEF r, z
  <2>5. \A q \in Providers : info'[q] = IF q = p THEN r ELSE info[q]
    BY <2>1 DEF Stakes
  <2>6. BeneficiaryDelayed
    BY <2>1, <2>3, <2>4, <2>5 DEF BeneficiaryDelayed
  <2> QED BY <2>1, <2>2, <2>4, <2>5, <2>6 DEF Identities, NodeIdsResolve
<1> QED BY <1>1, <1>2

LEMMA SlashIdentity ==
  ASSUME Constants, Stakes, NEW p \in Providers, NEW a, NEW b, Slash(p, a, b),
         pendingBeneficiaries' = pendingBeneficiaries, nodeIdToProvider' = nodeIdToProvider
  PROVE  SameIdentities
<1> DEFINE fa == FromActive(p, a)
           fq == SumOver(Taken(queue[p], a - fa), 1 .. Len(queue[p]))
           st == info[p].staked - fa
           un == info[p].unbonding - fq
           ac == StillActive(p, st)
           r == [info[p] EXCEPT !.staked = st, !.unbonding = un, !.active = ac]
<1>1. info' = [info EXCEPT ![p] = r]
  BY DEF Slash
<1>2. info[p] \in ProviderInfo
  BY StakeOf
<1> HIDE DEF st, un, ac
<1>3. r.nodeId = info[p].nodeId /\ r.beneficiary = info[p].beneficiary
  BY <1>2 DEF ProviderInfo
<1> HIDE DEF r
<1> QED BY <1>1, <1>3, RecordIdentity, Zenon DEF Stakes

LEMMA IdentitiesKept ==
  ASSUME Constants, SettingTypes, Stakes, now \in Nat, proposals \in Seq(SlashProposal), Identities,
         Next
  PROVE  Identities' /\ BeneficiaryDelayed
<1> DEFINE Goal == Identities' /\ BeneficiaryDelayed
<1>1. ASSUME UNCHANGED <<info, pendingBeneficiaries, nodeIdToProvider>> PROVE Goal
  BY <1>1, SameIdentitiesHold DEF SameIdentities
<1>2. ASSUME NEW p \in Providers, ProviderStep(p) PROVE Goal
  <2>0. info[p] \in ProviderInfo /\ info \in [Providers -> ProviderInfo]
    BY StakeOf DEF Stakes
  <2>1. ASSUME NEW a, NEW n \in NodeIds \cup {NoId}, Deposit(p, a, n) PROVE Goal
    BY <2>1, DepositIdentity
  <2>2. ASSUME NEW n \in NodeIds \cup {NoId}, UpdateIdentity(p, n) PROVE Goal
    BY <2>2, UpdateIdentities
  <2>3. ASSUME NEW a, RequestUnstake(p, a) PROVE Goal
    <3> DEFINE st == info[p].staked - a
               un == info[p].unbonding + a
               ac == StillActive(p, st)
               r == [info[p] EXCEPT !.staked = st, !.unbonding = un, !.active = ac]
    <3>1. /\ info' = [info EXCEPT ![p] = r] /\ pendingBeneficiaries' = pendingBeneficiaries
          /\ nodeIdToProvider' = nodeIdToProvider
      BY <2>3 DEF RequestUnstake
    <3> HIDE DEF st, un, ac
    <3>2. r.nodeId = info[p].nodeId /\ r.beneficiary = info[p].beneficiary
      BY <2>0 DEF ProviderInfo
    <3> HIDE DEF r
    <3>3. SameIdentities
      BY <2>0, <3>1, <3>2, RecordIdentity, Zenon
    <3> QED BY <3>3, SameIdentitiesHold
  <2>4. ASSUME NEW i, CompleteUnstake(p, i) PROVE Goal
    <3> DEFINE un == info[p].unbonding - queue[p][i].amount
               r == [info[p] EXCEPT !.unbonding = un]
    <3>1. /\ info' = [info EXCEPT ![p] = r] /\ pendingBeneficiaries' = pendingBeneficiaries
          /\ nodeIdToProvider' = nodeIdToProvider
      BY <2>4 DEF CompleteUnstake
    <3> HIDE DEF un
    <3>2. r.nodeId = info[p].nodeId /\ r.beneficiary = info[p].beneficiary
      BY <2>0, Zenon DEF ProviderInfo
    <3> HIDE DEF r
    <3>3. SameIdentities
      BY <2>0, <3>1, <3>2, RecordIdentity, Zenon
    <3> QED BY <3>3, SameIdentitiesHold
  <2>5. ASSUME NEW n \in Providers, InitiateBeneficiaryChange(p, n) PROVE Goal
    BY <2>5, BeneficiaryIdentities
  <2>6. CASE ExecuteBeneficiaryChange(p)
    BY <2>6, BeneficiaryIdentities
  <2>7. CASE ClaimRewards(p) \/ ClaimVestedRewards(p)
    BY <1>1, <2>7 DEF ClaimRewards, ClaimVestedRewards, stakeVars
  <2> HIDE DEF Goal
  <2> QED BY <1>2, <2>1, <2>2, <2>3, <2>4, <2>5, <2>6, <2>7, ZenonT(30)
          DEF ProviderStep, Stake, StakeWithIdentity, SettingTypes
<1>3. ASSUME NEW p \in Providers, SlasherStep(p) \/ UnfreezeProvider(p) PROVE Goal
  <2>1. ASSUME NEW a, SlashImmediate(p, a) PROVE Goal
    BY <2>1, SlashIdentity, SameIdentitiesHold DEF SlashImmediate
  <2>2. ASSUME NEW a, Propose(p, a) PROVE Goal
    BY <1>1, <2>2 DEF Propose, stakeVars
  <2>3. ASSUME FreezeProvider(p) \/ UnfreezeProvider(p) PROVE Goal
    <3>1. PICK b \in BOOLEAN : /\ info' = [info EXCEPT ![p] = [info[p] EXCEPT !.frozen = b]]
                               /\ pendingBeneficiaries' = pendingBeneficiaries
                               /\ nodeIdToProvider' = nodeIdToProvider
      BY <2>3, Zenon DEF FreezeProvider, UnfreezeProvider
    <3> DEFINE r == [info[p] EXCEPT !.frozen = b]
    <3>2. info[p] \in ProviderInfo /\ info \in [Providers -> ProviderInfo]
      BY StakeOf DEF Stakes
    <3>3. r.nodeId = info[p].nodeId /\ r.beneficiary = info[p].beneficiary
      BY <3>2 DEF ProviderInfo
    <3>4. info' = [info EXCEPT ![p] = r]
      BY <3>1
    <3> HIDE DEF r
    <3>5. SameIdentities
      BY <3>1, <3>2, <3>3, <3>4, RecordIdentity, Zenon
    <3> QED BY <3>5, SameIdentitiesHold
  <2> HIDE DEF Goal
  <2> QED BY <1>3, <2>1, <2>2, <2>3 DEF SlasherStep, ProposeSlash, ProposeSlashByReason
<1>4. ASSUME NEW k \in 1 .. Len(proposals), CarryOut(k),
             UNCHANGED <<pendingBeneficiaries, nodeIdToProvider>>
      PROVE  Goal
  <2>1. proposals[k].provider \in Providers
    BY ProposalOf
  <2>2. CASE info' = info
    BY <1>1, <1>4, <2>2
  <2>3. CASE \E a : Slash(proposals[k].provider, a, proposals[k].burnBps)
    BY <1>4, <2>1, <2>3, SlashIdentity, SameIdentitiesHold, Zenon
  <2> QED BY <1>4, <2>2, <2>3 DEF CarryOut, stakeVars
<1>5. ASSUME NEW k \in 1 .. Len(proposals), NEW b \in BOOLEAN,
             ExecuteSlash(k) \/ AppealSlash(k) \/ ResolveAppeal(k, b)
      PROVE  Goal
  <2> HIDE DEF Goal
  <2> QED BY <1>1, <1>4, <1>5, Zenon DEF ExecuteSlash, AppealSlash, ResolveAppeal, stakeVars
<1>6. ASSUME NEW a, FundRewards(a) \/ NotifyRewardAmount(a) \/ ReportComputeHours(a) PROVE Goal
  BY <1>1, <1>6, Zenon DEF FundRewards, NotifyRewardAmount, ReportComputeHours, stakeVars
<1>7. ASSUME OwnerStep \/ Tick PROVE Goal
  BY <1>1, <1>7 DEF OwnerStep, Tick, stakeVars
<1> HIDE DEF Goal
<1>8. Goal
  BY <1>2, <1>3, <1>5, <1>6, <1>7, Zenon DEF Next
<1> QED BY <1>8 DEF Goal
-----------------------------------------------------------------------------
(* What every reachable state satisfies. *)
IInv ==
  ConfigSound /\ Stakes /\ Rewards /\ Vestings /\ Tokens /\ Decisions /\ Identities /\ computeHours \in Nat

LEMMA InitTokens ==
  ASSUME Constants, Init
  PROVE  Tokens
<1> DEFINE Others == Accounts \ Providers
<1>1. /\ Accounts = Providers \cup Others /\ Providers \cap Others = {}
      /\ IsFiniteSet(Providers) /\ IsFiniteSet(Others) /\ Owner \in Others
  BY AccountsFinite, ProvidersFinite, FS_Subset DEF Constants
<1>2. /\ InitialBalance \in Nat /\ OwnerBalance \in Nat /\ NumProviders \in Nat
  BY DEF Constants
<1>3. /\ token \in [Accounts -> Nat] /\ burned = 0
      /\ \A a \in Providers : token[a] = InitialBalance
      /\ \A a \in Others : token[a] = IF a = Owner THEN OwnerBalance ELSE 0
  BY <1>1, <1>2, AccountsFinite DEF Init
<1> HIDE DEF Others
<1>4. \A a \in Providers \cup Others : token[a] \in Int
  BY <1>1, <1>3
<1>5. SumOver(token, Accounts) = SumOver(token, Providers) + SumOver(token, Others)
  BY <1>1, <1>4, SumOverUnion
<1>6. Cardinality(Providers) = NumProviders
  BY <1>2, FS_Interval DEF Providers
<1>7. SumOver(token, Providers) = InitialBalance * NumProviders
  BY <1>1, <1>2, <1>3, <1>6, SumOverConst
<1>8. SumOver(token, Others) = OwnerBalance
  BY <1>1, <1>2, <1>3, SumOverSingle
<1>9. InitialBalance * NumProviders \in Nat
  BY <1>2, MulNat
<1> QED BY <1>2, <1>3, <1>5, <1>7, <1>8, <1>9 DEF Tokens, TokensConserved

LEMMA InitStakes ==
  ASSUME Constants, Init
  PROVE  Stakes
<1> DEFINE s == [p \in Providers |-> info[p].staked]
           u == [p \in Providers |-> info[p].unbonding]
           r == [staked |-> 0, unbonding |-> 0, beneficiary |-> NoAddr, active |-> FALSE,
                 nodeId |-> NoId, frozen |-> FALSE]
<1>1. /\ info = [p \in Providers |-> r] /\ queue = [p \in Providers |-> <<>>]
      /\ totalStaked = 0 /\ totalUnbonding = 0
  BY DEF Init
<1>2. r \in ProviderInfo /\ r.staked = 0 /\ r.unbonding = 0
  BY DEF ProviderInfo
<1> HIDE DEF r
<1>3. \A p \in Providers : /\ info[p] \in ProviderInfo /\ info[p].staked = 0 /\ info[p].unbonding = 0
                           /\ queue[p] = <<>>
  BY <1>1, <1>2
<1>4. <<>> \in Seq(UnstakeRequest) /\ Len(<<>>) = 0 /\ 1 .. 0 = {}
  OBVIOUS
<1>5. SumOver(s, Providers) = 0 /\ SumOver(u, Providers) = 0
  <2>1. \A p \in Providers : s[p] = 0 /\ u[p] = 0
    BY <1>3
  <2> HIDE DEF s, u
  <2> QED BY <2>1, ProvidersFinite, SumOverZero
<1>6. \A p \in Providers : NoneEmpty(queue[p]) /\ SumOver(Pending(queue[p]), 1 .. Len(queue[p])) = 0
  <2>1. IsFiniteSet({}) /\ SumOver(Pending(<<>>), {}) = 0
    BY FS_EmptySet, SumOverZero
  <2>2. SumOver(Pending(<<>>), 1 .. Len(<<>>)) = 0 /\ NoneEmpty(<<>>)
    BY <1>4, <2>1 DEF NoneEmpty
  <2> QED BY <1>3, <2>2
<1>7. info \in [Providers -> ProviderInfo] /\ queue \in [Providers -> Seq(UnstakeRequest)]
  BY <1>1, <1>2, <1>4
<1> QED BY <1>1, <1>3, <1>5, <1>6, <1>7, Zenon DEF Stakes, Accounting

LEMMA InitIInv ==
  ASSUME Constants, Init
  PROVE  IInv
<1>1. ConfigSound
  BY DEF Init, ConfigSound, Constants, TiersAscending
<1>2. Rewards
  <2>1. rw \in RewardClock /\ rw.last = 0 /\ rw.finish = 0 /\ rw.perToken = 0 /\ now = 1
    BY DEF Init, RewardClock
  <2> QED BY <2>1 DEF Init, Rewards, RewardClockSound, lastTimeRewardApplicable, Least
<1>3. Vestings
  BY FS_EmptySet DEF Init, Vestings
<1>4. Decisions
  BY DEF Init, Decisions, AppealsRespected
<1>5. Identities
  <2> DEFINE z == [to |-> NoAddr, effective |-> 0]
  <2>1. z \in Beneficiaries
    BY DEF Beneficiaries
  <2>2. pendingBeneficiaries = [p \in Providers |-> z] /\ nodeIdToProvider = [n \in NodeIds |-> NoAddr]
    BY DEF Init
  <2>3. \A p \in Providers : info[p].nodeId = NoId
    BY DEF Init
  <2> HIDE DEF z
  <2> QED BY <2>1, <2>2, <2>3 DEF Identities, NodeIdsResolve
<1>6. computeHours \in Nat
  BY DEF Init
<1> QED BY <1>1, <1>2, <1>3, <1>4, <1>5, <1>6, InitStakes, InitTokens, ZenonT(30) DEF IInv

(* The providers' and the slasher's steps leave the parameters alone. *)
LEMMA ProvidersSetNothing ==
  ASSUME NEW p \in Providers, ProviderStep(p) \/ SlasherStep(p) \/ UnfreezeProvider(p)
  PROVE  UNCHANGED <<cfg, computeHours>>
<1>1. CASE ProviderStep(p)
  BY <1>1, Zenon
  DEF ProviderStep, Stake, StakeWithIdentity, Deposit, UpdateIdentity, RequestUnstake,
       CompleteUnstake, InitiateBeneficiaryChange, ExecuteBeneficiaryChange, ClaimRewards,
       ClaimVestedRewards
<1>2. CASE SlasherStep(p)
  BY <1>2, Zenon
  DEF SlasherStep, FreezeProvider, SlashImmediate, ProposeSlash, ProposeSlashByReason, Propose
<1>3. CASE UnfreezeProvider(p)
  BY <1>3 DEF UnfreezeProvider
<1> QED BY <1>1, <1>2, <1>3

LEMMA StepIInv ==
  ASSUME Constants, SettingTypes, IInv, [Next]_vars
  PROVE  IInv'
<1>1. CASE Next
  <2>1. ConfigSound'
    <3>1. CASE OwnerStep
      BY <3>1, OwnerSound DEF IInv
    <3>2. ASSUME cfg' = cfg PROVE ConfigSound'
      BY <3>2 DEF IInv, ConfigSound, TiersAscending
    <3>3. CASE \E p \in Providers : ProviderStep(p) \/ SlasherStep(p) \/ UnfreezeProvider(p)
      BY <3>2, <3>3, ProvidersSetNothing
    <3>4. CASE \E k \in 1 .. Len(proposals) :
                 ExecuteSlash(k) \/ AppealSlash(k) \/ \E b \in BOOLEAN : ResolveAppeal(k, b)
      BY <3>2, <3>4 DEF ExecuteSlash, AppealSlash, ResolveAppeal
    <3>5. ASSUME NEW a, FundRewards(a) \/ NotifyRewardAmount(a) \/ ReportComputeHours(a) \/ Tick
          PROVE  ConfigSound'
      BY <3>2, <3>5 DEF FundRewards, NotifyRewardAmount, ReportComputeHours, Tick
    <3> QED BY <1>1, <3>1, <3>3, <3>4, <3>5 DEF Next
  <2>2. Stakes'
    BY <1>1, StakesKept DEF IInv, Rewards, Decisions, Identities, Beneficiaries
  <2>3. Rewards'
    BY <1>1, RewardsKept DEF IInv, Decisions
  <2>4. Vestings'
    BY <1>1, VestingsKept DEF IInv, Decisions
  <2>5. Tokens'
    BY <1>1, TokensKept DEF IInv, Decisions
  <2>6. Decisions'
    BY <1>1, DecisionsKept DEF IInv
  <2>7. Identities'
    BY <1>1, IdentitiesKept DEF IInv, Rewards, Decisions
  <2>8. computeHours' \in Nat
    <3>1. ASSUME NEW h \in Nat, ReportComputeHours(h) PROVE computeHours' \in Nat
      BY <3>1 DEF IInv, ReportComputeHours
    <3>2. CASE computeHours' = computeHours
      BY <3>2 DEF IInv
    <3>3. CASE \E p \in Providers : ProviderStep(p) \/ SlasherStep(p) \/ UnfreezeProvider(p)
      BY <3>2, <3>3, ProvidersSetNothing
    <3>4. CASE \E k \in 1 .. Len(proposals) :
                 ExecuteSlash(k) \/ AppealSlash(k) \/ \E b \in BOOLEAN : ResolveAppeal(k, b)
      BY <3>2, <3>4 DEF ExecuteSlash, AppealSlash, ResolveAppeal
    <3>5. ASSUME NEW a, FundRewards(a) \/ NotifyRewardAmount(a) \/ OwnerStep \/ Tick
          PROVE  computeHours' \in Nat
      BY <3>2, <3>5 DEF FundRewards, NotifyRewardAmount, OwnerStep, Tick
    <3> QED BY <1>1, <3>1, <3>3, <3>4, <3>5 DEF Next, SettingTypes
  <2> QED BY <2>1, <2>2, <2>3, <2>4, <2>5, <2>6, <2>7, <2>8, ZenonT(30) DEF IInv
<1>2. CASE UNCHANGED vars
  <2>1. ConfigSound'
    <3>1. UNCHANGED cfg
      BY <1>2 DEF vars
    <3> QED BY <3>1 DEF IInv, ConfigSound, TiersAscending
  <2>2. Stakes'
    <3>1. UNCHANGED <<info, queue, totalStaked, totalUnbonding>>
      BY <1>2 DEF vars, stakeVars
    <3> QED BY <3>1 DEF IInv, Stakes, Accounting
  <2>3. Rewards'
    <3>1. UNCHANGED <<now, rw, rewards, paid>>
      BY <1>2, Zenon DEF vars, rewardVars
    <3> QED BY <3>1 DEF IInv, Rewards, RewardClockSound, lastTimeRewardApplicable
  <2>4. Vestings' /\ Tokens' /\ Decisions' /\ Identities' /\ computeHours' \in Nat
    BY <1>2 DEF IInv, vars, stakeVars, rewardVars, Vestings, Tokens, TokensConserved, Decisions,
         AppealsRespected, WindowEnd, Identities, NodeIdsResolve
  <2> QED BY <2>1, <2>2, <2>3, <2>4, Zenon DEF IInv
<1> QED BY <1>1, <1>2
-----------------------------------------------------------------------------
(* Before the first epoch of rewards nobody earns and nothing vests, and   *)
(* the balance backs what is staked and unbonding.                         *)
Unrewarded ==
  /\ rw.rate = 0 /\ rw.perToken = 0
  /\ \A p \in Providers : rewards[p] = 0 /\ paid[p] = 0 /\ vested[p] = {}

LEMMA NothingEarned ==
  ASSUME Constants, IInv, Unrewarded
  PROVE  rewardPerToken = 0 /\ \A p \in Providers : Earned(p) = 0
<1>1. rewardPerToken = 0
  <2> DEFINE d == lastTimeRewardApplicable - rw.last
  <2>1. d \in Int /\ REWARD_SCALE \in Nat /\ totalStaked \in Nat
    BY ClockFields DEF Constants, IInv, Stakes
  <2>2. rewardPerToken = IF totalStaked = 0 THEN 0 ELSE 0 + (d * 0 * REWARD_SCALE) \div totalStaked
    BY DEF rewardPerToken, Unrewarded
  <2> HIDE DEF d
  <2>3. d * 0 * REWARD_SCALE = 0
    BY <2>1
  <2>4. totalStaked # 0 => 0 \div totalStaked = 0
    BY <2>1
  <2> QED BY <2>2, <2>3, <2>4
<1>2. ASSUME NEW p \in Providers PROVE Earned(p) = 0
  <2> DEFINE tier == TierOf(info[p].staked)
             m == cfg.tierMultiplier[tier]
  <2>1. info[p].staked \in Nat /\ REWARD_SCALE \in Nat \ {0} /\ tier \in 0 .. 5
    BY StakeOf, TierRange DEF Constants, IInv
  <2>2. (info[p].staked * (0 - 0)) \div REWARD_SCALE = 0
    BY <2>1
  <2>3. Earned(p) = 0 + (IF tier = 0 THEN 0 ELSE (0 * m) \div BPS_DENOMINATOR)
    BY <1>1, <2>2, Zenon DEF Earned, Unrewarded
  <2>4. tier # 0 => m \in Nat
    BY <2>1 DEF IInv, ConfigSound, Config, PerTier, Tiers
  <2> HIDE DEF tier, m
  <2>5. tier # 0 => (0 * m) \div 10000 = 0
    BY <2>4
  <2> QED BY <2>3, <2>5 DEF BPS_DENOMINATOR
<1> QED BY <1>1, <1>2

(* A checkpoint changes nothing then. *)
LEMMA IdleCheckpoint ==
  ASSUME Constants, IInv, Unrewarded, NEW p \in Providers, UpdateReward(p), vested' = vested
  PROVE  Unrewarded'
<1>1. rewardPerToken = 0 /\ Earned(p) = 0
  BY NothingEarned
<1>2. rw'.rate = 0 /\ rw'.perToken = 0
  BY <1>1 DEF UpdateReward, Checkpoint, Unrewarded, IInv, Rewards, RewardClock
<1>3. \A q \in Providers : rewards'[q] = 0 /\ paid'[q] = 0
  BY <1>1 DEF UpdateReward, Unrewarded, IInv, Rewards
<1> QED BY <1>2, <1>3 DEF Unrewarded

LEMMA IdleSlash ==
  ASSUME Constants, IInv, Unrewarded, Backed,
         NEW p \in Providers, NEW amount \in Nat, NEW bps \in BasisPoints, Slash(p, amount, bps)
  PROVE  Unrewarded' /\ Backed'
<1> DEFINE fa == FromActive(p, amount)
           rest == amount - fa
           fq == SumOver(Taken(queue[p], rest), 1 .. Len(queue[p]))
           locked == (totalStaked - fa) + (totalUnbonding - fq)
           total == SlashTotal(p, amount)
           share == TreasuryShare(total, bps)
<1>1. vested' = vested
  <2> DEFINE f(e) == IF Unvested(e) > 0 THEN [e EXCEPT !.released = e.total] ELSE e
  <2>1. vested[p] = {} /\ vested' = [vested EXCEPT ![p] = {f(e) : e \in vested[p]}]
    BY DEF Unrewarded, Slash
  <2>2. {f(e) : e \in vested[p]} = {}
    BY <2>1
  <2> QED BY <2>1, <2>2 DEF IInv, Vestings
<1>2. Unrewarded'
  BY <1>1, IdleCheckpoint, Zenon DEF Slash
<1>3. Forfeited(p) = 0
  BY FS_EmptySet, SumOverZero DEF Forfeited, Unrewarded
<1>4. /\ fa \in Nat /\ fa <= amount /\ fq = rest
      /\ totalStaked' = totalStaked - fa /\ totalUnbonding' = totalUnbonding - fq
      /\ token[Staking] >= locked
  <2>1. amount <= Slashable(p) /\ info[p].staked \in Nat
    BY StakeOf, Zenon DEF Slash, IInv
  <2>2. fa \in 0 .. info[p].staked /\ fa <= amount /\ fq = rest
    BY <2>1, SlashTakes DEF IInv
  <2>3. totalStaked' = totalStaked - fa /\ totalUnbonding' = totalUnbonding - fq /\ token[Staking] >= locked
    BY DEF Slash
  <2> HIDE DEF fa, fq, rest, locked
  <2> QED BY <2>1, <2>2, <2>3
<1>5. token[Staking] \in Nat /\ totalStaked \in Nat /\ totalUnbonding \in Nat
  BY AccountsFinite DEF IInv, Tokens, Stakes
<1>6. total = amount + Least(0, token[Staking] - locked)
  BY <1>3 DEF SlashTotal
<1>7. /\ Staking \in Accounts /\ cfg.treasury \in Accounts
      /\ token' = [token EXCEPT ![Staking] = @ - total, ![cfg.treasury] = @ + share]
  BY AccountsFinite DEF Slash, SlashTotal, IInv, ConfigSound, Config, Accounts
<1>8. total \in Nat
  BY SlashTotalType DEF IInv, Rewards
<1>9. share \in Nat
  <2> HIDE DEF total
  <2>1. BurnShare(total, bps) \in 0 .. total
    BY <1>8, BpsShare DEF BurnShare
  <2> QED BY <1>8, <2>1 DEF TreasuryShare
<1> HIDE DEF fa, fq, share, total
<1>10. locked \in Int /\ locked = totalStaked + totalUnbonding - amount
  BY <1>4, <1>5
<1> HIDE DEF locked, rest
<1>11. total = amount
  BY <1>4, <1>5, <1>6, <1>10 DEF Least
<1>12. token'[Staking] >= token[Staking] - amount
  BY <1>5, <1>7, <1>9, <1>11 DEF IInv, Tokens
<1>13. token'[Staking] \in Int /\ rest \in Int
  <2>1. token'[Staking] \in Nat
    BY <1>5, <1>7, <1>9, <1>11, SlashTokens, AccountsFinite, ZenonT(30) DEF IInv, Tokens, Rewards
  <2> QED BY <1>4, <2>1 DEF rest
<1>14. totalStaked' + totalUnbonding' = totalStaked + totalUnbonding - amount
  BY <1>4, <1>5 DEF rest
<1> QED BY <1>2, <1>5, <1>12, <1>13, <1>14 DEF Backed

(* An epoch that was started leaves its end behind. *)
LEMMA NoNotify == ASSUME IInv, NoEpoch', NEW a PROVE ~NotifyRewardAmount(a)
<1> SUFFICES ASSUME NotifyRewardAmount(a) PROVE FALSE
  OBVIOUS
<1>1. rw'.finish = now + cfg.rewardsDuration
  BY DEF NotifyRewardAmount
<1>2. now \in Nat /\ cfg.rewardsDuration \in Nat /\ cfg.rewardsDuration > 0
  BY DEF IInv, Rewards, ConfigSound, Config
<1> QED BY <1>1, <1>2 DEF NoEpoch

LEMMA EpochStays ==
  ASSUME Constants, IInv, Next, NoEpoch'
  PROVE  NoEpoch
<1>1. ASSUME rw' = rw PROVE NoEpoch
  BY <1>1 DEF NoEpoch
<1>2. ASSUME Checkpoint PROVE NoEpoch
  BY <1>2 DEF Checkpoint, IInv, Rewards, RewardClock, NoEpoch
<1>3. ASSUME NEW p, UpdateReward(p) PROVE NoEpoch
  BY <1>2, <1>3 DEF UpdateReward
<1>4. ASSUME NEW p, ProviderStep(p) PROVE NoEpoch
  <2>1. ASSUME NEW a, NEW n, Deposit(p, a, n) \/ RequestUnstake(p, a) PROVE NoEpoch
    BY <1>3, <2>1 DEF Deposit, RequestUnstake
  <2>2. ASSUME NEW n, \/ UpdateIdentity(p, n) \/ CompleteUnstake(p, n)
                      \/ InitiateBeneficiaryChange(p, n) \/ ExecuteBeneficiaryChange(p)
        PROVE  NoEpoch
    BY <1>1, <2>2 DEF UpdateIdentity, CompleteUnstake, InitiateBeneficiaryChange,
                      ExecuteBeneficiaryChange, rewardVars
  <2>3. ASSUME ClaimRewards(p) \/ ClaimVestedRewards(p) PROVE NoEpoch
    BY <1>1, <1>2, <2>3 DEF ClaimRewards, ClaimVestedRewards
  <2> QED BY <1>4, <2>1, <2>2, <2>3, Zenon DEF ProviderStep, Stake, StakeWithIdentity
<1>5. ASSUME NEW p, SlasherStep(p) \/ UnfreezeProvider(p) PROVE NoEpoch
  <2>1. ASSUME NEW a, SlashImmediate(p, a) PROVE NoEpoch
    BY <1>3, <2>1 DEF SlashImmediate, Slash
  <2>2. ASSUME NEW a, Propose(p, a) \/ FreezeProvider(p) \/ UnfreezeProvider(p) PROVE NoEpoch
    BY <1>1, <2>2, ZenonT(30) DEF Propose, FreezeProvider, UnfreezeProvider, rewardVars
  <2> QED BY <1>5, <2>1, <2>2, Zenon DEF SlasherStep, ProposeSlash, ProposeSlashByReason
<1>6. ASSUME NEW k, CarryOut(k) PROVE NoEpoch
  BY <1>3, <1>6 DEF CarryOut, Slash
<1>7. ASSUME NEW k, NEW b, ExecuteSlash(k) \/ AppealSlash(k) \/ ResolveAppeal(k, b) PROVE NoEpoch
  BY <1>1, <1>6, <1>7, Zenon DEF ExecuteSlash, AppealSlash, ResolveAppeal, rewardVars
<1>8. ASSUME NEW a PROVE ~NotifyRewardAmount(a)
  BY NoNotify
<1>9. ASSUME NEW a, FundRewards(a) \/ ReportComputeHours(a) \/ OwnerStep \/ Tick PROVE NoEpoch
  BY <1>1, <1>9, Zenon DEF FundRewards, ReportComputeHours, OwnerStep, Tick, rewardVars
<1> QED BY <1>4, <1>5, <1>7, <1>8, <1>9, Zenon DEF Next

LEMMA BackedKept ==
  ASSUME Constants, SettingTypes, IInv, Unrewarded, Backed, [Next]_vars, NoEpoch'
  PROVE  Unrewarded' /\ Backed'
<1> DEFINE Goal == Unrewarded' /\ Backed'
<1>1. /\ token \in [Accounts -> Nat] /\ token[Staking] \in Nat /\ totalStaked \in Nat
      /\ totalUnbonding \in Nat /\ Staking \in Accounts /\ Owner \in Accounts /\ Providers \subseteq Accounts
      /\ Staking \notin Providers /\ Staking # Owner
  BY AccountsFinite DEF IInv, Tokens, Stakes, Constants
<1>2. ASSUME UNCHANGED <<rw, rewards, paid, vested, token, totalStaked, totalUnbonding>> PROVE Goal
  BY <1>2, Zenon DEF Unrewarded, Backed
<1>3. ASSUME NEW p \in Providers, ProviderStep(p) PROVE Goal
  <2>0. p \in Accounts /\ p # Staking /\ Earned(p) = 0
    BY <1>1, NothingEarned
  <2>1. ASSUME NEW a \in Nat, NEW n, Deposit(p, a, n) PROVE Goal
    <3>1. Unrewarded'
      BY <2>1, IdleCheckpoint DEF Deposit
    <3>2. /\ token' = [token EXCEPT ![p] = @ - a, ![Staking] = @ + a]
          /\ totalStaked' = totalStaked + a /\ totalUnbonding' = totalUnbonding
      BY <2>1 DEF Deposit, Transfer
    <3>3. token'[Staking] = token[Staking] + a
      BY <1>1, <2>0, <3>2
    <3> QED BY <1>1, <3>1, <3>2, <3>3 DEF Backed
  <2>2. ASSUME NEW a \in Nat, RequestUnstake(p, a) PROVE Goal
    <3>1. Unrewarded'
      BY <2>2, IdleCheckpoint DEF RequestUnstake
    <3>2. /\ token' = token
          /\ totalStaked' = totalStaked - a /\ totalUnbonding' = totalUnbonding + a
      BY <2>2 DEF RequestUnstake
    <3> QED BY <1>1, <3>1, <3>2 DEF Backed
  <2>3. ASSUME NEW i \in 1 .. Len(queue[p]), CompleteUnstake(p, i) PROVE Goal
    <3> DEFINE a == queue[p][i].amount
    <3>1. a \in Nat
      BY StakeOf, QueueTypes DEF IInv
    <3>2. /\ UNCHANGED <<rw, rewards, paid, vested>> /\ totalUnbonding >= a
          /\ token' = [token EXCEPT ![Staking] = @ - a, ![p] = @ + a]
          /\ totalStaked' = totalStaked /\ totalUnbonding' = totalUnbonding - a
      BY <2>3 DEF CompleteUnstake, Completable, Transfer, rewardVars
    <3> HIDE DEF a
    <3>3. token'[Staking] = token[Staking] - a
      BY <1>1, <2>0, <3>1, <3>2, Zenon
    <3> QED BY <1>1, <3>1, <3>2, <3>3 DEF Backed, Unrewarded
  <2>4. ASSUME NEW n, \/ UpdateIdentity(p, n) \/ InitiateBeneficiaryChange(p, n)
                      \/ ExecuteBeneficiaryChange(p)
        PROVE  Goal
    BY <1>2, <2>4, ZenonT(30)
    DEF UpdateIdentity, InitiateBeneficiaryChange, ExecuteBeneficiaryChange,
                      rewardVars, stakeVars
  <2>5. ~ClaimRewards(p)
    BY <2>0 DEF ClaimRewards
  <2>6. ~ClaimVestedRewards(p)
    <3>1. SumOver([e \in vested[p] |-> VestedAmount(e) - e.released], vested[p]) = 0
      BY FS_EmptySet, SumOverZero DEF Unrewarded
    <3> QED BY <3>1 DEF ClaimVestedRewards
  <2> HIDE DEF Goal
  <2> QED BY <1>3, <2>1, <2>2, <2>3, <2>4, <2>5, <2>6, ZenonT(30)
          DEF ProviderStep, Stake, StakeWithIdentity, Constants
<1>4. ASSUME NEW p \in Providers, SlasherStep(p) \/ UnfreezeProvider(p) PROVE Goal
  <2>1. ASSUME NEW a \in Nat, SlashImmediate(p, a) PROVE Goal
    <3>1. cfg.slashBurnBps \in BasisPoints
      BY DEF IInv, ConfigSound, Config
    <3> QED BY <2>1, <3>1, IdleSlash DEF SlashImmediate
  <2>2. ASSUME NEW a, Propose(p, a) PROVE Goal
    BY <1>2, <2>2 DEF Propose, rewardVars, stakeVars
  <2>3. ASSUME FreezeProvider(p) \/ UnfreezeProvider(p) PROVE Goal
    BY <1>2, <2>3 DEF FreezeProvider, UnfreezeProvider, rewardVars
  <2> HIDE DEF Goal
  <2> QED BY <1>4, <2>1, <2>2, <2>3, Zenon
          DEF SlasherStep, ProposeSlash, ProposeSlashByReason, Constants
<1>5. ASSUME NEW k \in 1 .. Len(proposals), CarryOut(k) PROVE Goal
  <2>1. /\ proposals[k].provider \in Providers /\ proposals[k].burnBps \in BasisPoints
        /\ Least(proposals[k].amount, Slashable(proposals[k].provider)) \in Nat
    BY ProposalOf DEF IInv, Decisions
  <2>2. ASSUME UpdateReward(proposals[k].provider),
               UNCHANGED <<info, queue, totalStaked, totalUnbonding, vested, token, burned>>
        PROVE  Goal
    BY <2>1, <2>2, IdleCheckpoint DEF Backed
  <2>3. ASSUME Slash(proposals[k].provider, Least(proposals[k].amount, Slashable(proposals[k].provider)),
                     proposals[k].burnBps)
        PROVE  Goal
    BY <2>1, <2>3, IdleSlash
  <2> HIDE DEF Goal
  <2> QED BY <1>5, <2>2, <2>3, Zenon DEF CarryOut, stakeVars
<1>6. ASSUME NEW k \in 1 .. Len(proposals), NEW b \in BOOLEAN,
             ExecuteSlash(k) \/ AppealSlash(k) \/ ResolveAppeal(k, b)
      PROVE  Goal
  <2> HIDE DEF Goal
  <2> QED BY <1>2, <1>5, <1>6, Zenon DEF ExecuteSlash, AppealSlash, ResolveAppeal, rewardVars,
             stakeVars
<1>7. ASSUME NEW a \in Nat, FundRewards(a) PROVE Goal
  <2>1. /\ token' = [token EXCEPT ![Owner] = @ - a, ![Staking] = @ + a]
        /\ UNCHANGED <<rw, rewards, paid, vested, totalStaked, totalUnbonding>>
    BY <1>7 DEF FundRewards, Transfer, rewardVars, stakeVars
  <2>2. token'[Staking] = token[Staking] + a
    BY <1>1, <2>1, Zenon
  <2> QED BY <1>1, <2>1, <2>2 DEF Backed, Unrewarded
<1>8. ASSUME NEW a PROVE ~NotifyRewardAmount(a)
  BY NoNotify
<1>9. ASSUME NEW a, ReportComputeHours(a) \/ OwnerStep \/ Tick PROVE Goal
  BY <1>2, <1>9, Zenon DEF ReportComputeHours, OwnerStep, Tick, rewardVars, stakeVars
<1>10. ASSUME UNCHANGED vars PROVE Goal
  BY <1>2, <1>10 DEF vars, rewardVars, stakeVars
<1> HIDE DEF Goal
<1>11. Goal
  BY <1>3, <1>4, <1>6, <1>7, <1>8, <1>9, <1>10, Zenon DEF Next, Constants
<1> QED BY <1>11, ZenonT(30) DEF Goal
-----------------------------------------------------------------------------
(* Tokens that leave account from and arrive at account to. *)
LEMMA PaidElsewhere ==
  ASSUME token \in [Accounts -> Nat], NEW from \in Accounts, NEW to \in Accounts,
         NEW out \in Nat, NEW in,
         token' = [token EXCEPT ![from] = @ - out, ![to] = @ + in], NEW q \in Accounts, q # to
  PROVE  token'[q] <= token[q]
<1>1. token[q] \in Nat /\ token'[q] = IF q = from THEN token[q] - out ELSE token[q]
  OBVIOUS
<1> QED BY <1>1

LEMMA FrozenStep ==
  ASSUME Constants, IInv, [Next]_vars
  PROVE  FrozenFundsStay
<1>1. /\ token \in [Accounts -> Nat] /\ Staking \in Accounts /\ Owner \in Accounts
      /\ Providers \subseteq Accounts /\ \A q \in Providers : token[q] \in Nat /\ q # Staking
  BY AccountsFinite DEF IInv, Tokens, Constants
<1>2. ASSUME token' = token PROVE FrozenFundsStay
  BY <1>1, <1>2 DEF FrozenFundsStay
<1>3. ASSUME NEW p \in Providers, NEW a \in Nat, NEW b \in BasisPoints, Slash(p, a, b)
      PROVE  FrozenFundsStay
  <2> DEFINE total == SlashTotal(p, a)
             share == TreasuryShare(total, b)
  <2>1. token' = [token EXCEPT ![Staking] = @ - total, ![cfg.treasury] = @ + share]
    BY <1>3 DEF Slash, SlashTotal
  <2>2. total \in Nat
    BY <1>3, SlashTotalType DEF IInv, Rewards
  <2>3. cfg.treasury \in Accounts
    BY DEF IInv, ConfigSound, Config, Accounts
  <2> HIDE DEF total, share
  <2>4. \A q \in Providers : q # cfg.treasury => token'[q] <= token[q]
    BY <1>1, <2>1, <2>2, <2>3, PaidElsewhere, Zenon
  <2> QED BY <2>4 DEF FrozenFundsStay
<1>4. ASSUME NEW p \in Providers, NEW a \in Nat, Transfer(Staking, p, a), ~info[p].frozen
      PROVE  FrozenFundsStay
  <2>1. token' = [token EXCEPT ![Staking] = @ - a, ![p] = @ + a] /\ p \in Accounts
    BY <1>1, <1>4 DEF Transfer
  <2>2. \A q \in Providers : q # p => token'[q] <= token[q]
    BY <1>1, <2>1, PaidElsewhere
  <2> QED BY <1>4, <2>2 DEF FrozenFundsStay
<1>5. ASSUME NEW from \in Accounts, NEW a \in Nat, Transfer(from, Staking, a) PROVE FrozenFundsStay
  <2>1. token' = [token EXCEPT ![from] = @ - a, ![Staking] = @ + a]
    BY <1>5 DEF Transfer
  <2>2. \A q \in Providers : token'[q] <= token[q]
    BY <1>1, <2>1, PaidElsewhere, Zenon
  <2> QED BY <2>2 DEF FrozenFundsStay
<1>6. ASSUME NEW p \in Providers, ProviderStep(p) PROVE FrozenFundsStay
  <2>1. ASSUME NEW a \in Nat, NEW n, Deposit(p, a, n) PROVE FrozenFundsStay
    BY <1>1, <1>5, <2>1 DEF Deposit
  <2>2. ASSUME NEW i \in 1 .. Len(queue[p]), CompleteUnstake(p, i) PROVE FrozenFundsStay
    <3>1. queue[p][i].amount \in Nat
      BY StakeOf, QueueTypes DEF IInv
    <3> QED BY <1>4, <2>2, <3>1, Zenon DEF CompleteUnstake, Completable, Payable
  <2>3. ASSUME NEW a, NEW n, \/ UpdateIdentity(p, n) \/ RequestUnstake(p, a)
                             \/ InitiateBeneficiaryChange(p, n) \/ ExecuteBeneficiaryChange(p)
        PROVE  FrozenFundsStay
    BY <1>2, <2>3 DEF UpdateIdentity, RequestUnstake, InitiateBeneficiaryChange,
                      ExecuteBeneficiaryChange
  <2>4. CASE ClaimRewards(p)
    <3> DEFINE imm == (Earned(p) * cfg.immediateReleaseBps) \div BPS_DENOMINATOR
    <3>1. Earned(p) \in Nat /\ cfg.immediateReleaseBps \in BasisPoints
      BY EarnedType DEF IInv, ConfigSound, Config
    <3>2. imm \in 0 .. Earned(p)
      BY <3>1, BpsShare
    <3>3. Transfer(Staking, p, imm) /\ ~info[p].frozen
      BY <2>4 DEF ClaimRewards
    <3> HIDE DEF imm
    <3>4. imm \in Nat
      BY <3>1, <3>2
    <3> QED BY <1>4, <3>3, <3>4
  <2>5. CASE ClaimVestedRewards(p)
    <3> DEFINE f == [e \in vested[p] |-> VestedAmount(e) - e.released]
               claimable == SumOver(f, vested[p])
    <3>1. IsFiniteSet(vested[p]) /\ \A e \in vested[p] : e \in VestedReward /\ e.start <= now
      BY DEF IInv, Vestings
    <3>2. \A e \in vested[p] : f[e] \in Int
      BY <3>1, VestedRange DEF IInv, Rewards
    <3>3. claimable > 0 /\ Transfer(Staking, p, claimable) /\ ~info[p].frozen
      BY <2>5 DEF ClaimVestedRewards
    <3> HIDE DEF f
    <3>4. claimable \in Int
      BY <3>1, <3>2, SumOverType
    <3> HIDE DEF claimable
    <3>5. claimable \in Nat
      BY <3>3, <3>4
    <3> QED BY <1>4, <3>3, <3>5
  <2> QED BY <1>6, <2>1, <2>2, <2>3, <2>4, <2>5, Zenon DEF ProviderStep, Stake,
             StakeWithIdentity, Constants
<1>7. ASSUME NEW p \in Providers, SlasherStep(p) \/ UnfreezeProvider(p) PROVE FrozenFundsStay
  <2>1. ASSUME NEW a \in Nat, SlashImmediate(p, a) PROVE FrozenFundsStay
    <3>1. cfg.slashBurnBps \in BasisPoints
      BY DEF IInv, ConfigSound, Config
    <3> QED BY <1>3, <2>1, <3>1 DEF SlashImmediate
  <2>2. ASSUME NEW a, Propose(p, a) PROVE FrozenFundsStay
    BY <1>2, <2>2 DEF Propose
  <2>3. CASE FreezeProvider(p) \/ UnfreezeProvider(p)
    BY <1>2, <2>3 DEF FreezeProvider, UnfreezeProvider
  <2> QED BY <1>7, <2>1, <2>2, <2>3, Zenon DEF SlasherStep, ProposeSlash,
             ProposeSlashByReason, Constants
<1>8. ASSUME NEW k \in 1 .. Len(proposals), CarryOut(k) PROVE FrozenFundsStay
  BY <1>2, <1>3, <1>8, ProposalOf DEF CarryOut, IInv, Decisions
<1>9. ASSUME NEW k \in 1 .. Len(proposals), NEW b \in BOOLEAN,
             ExecuteSlash(k) \/ AppealSlash(k) \/ ResolveAppeal(k, b)
      PROVE  FrozenFundsStay
  BY <1>2, <1>8, <1>9 DEF ExecuteSlash, AppealSlash, ResolveAppeal
<1>10. ASSUME NEW a \in Nat, FundRewards(a) PROVE FrozenFundsStay
  BY <1>1, <1>5, <1>10, Zenon DEF FundRewards
<1>11. ASSUME NEW a, NotifyRewardAmount(a) \/ ReportComputeHours(a) \/ OwnerStep \/ Tick
       PROVE  FrozenFundsStay
  BY <1>2, <1>11, Zenon DEF NotifyRewardAmount, ReportComputeHours, OwnerStep, Tick
<1>12. CASE UNCHANGED vars
  BY <1>2, <1>12 DEF vars
<1> QED BY <1>6, <1>7, <1>9, <1>10, <1>11, <1>12, Zenon DEF Next, Constants
-----------------------------------------------------------------------------
(* Only a slash reduces a request, and the newest first. *)
LEMMA NewestStep ==
  ASSUME Constants, IInv, Next
  PROVE  NewestFirst
<1> DEFINE OneQueue(p, q) == queue' = [queue EXCEPT ![p] = q]
           Fair(q, r) == \A i, j \in 1 .. Len(q) : i < j /\ r[i].amount < q[i].amount => r[j].completed
<1>1. \A p \in Providers : queue[p] \in Seq(UnstakeRequest) /\ NoneEmpty(queue[p])
  BY StakeOf DEF IInv
<1>2. ASSUME NEW q \in Seq(UnstakeRequest), NEW r, \A i \in 1 .. Len(q) : r[i].amount = q[i].amount
      PROVE  Fair(q, r)
  <2>1. \A i \in 1 .. Len(q) : q[i].amount \in Nat
    BY QueueTypes
  <2> QED BY <1>2, <2>1
<1>3. ASSUME NEW p \in Providers, NEW r, OneQueue(p, r), Fair(queue[p], r) PROVE NewestFirst
  <2>1. \A x \in Providers : queue'[x] = IF x = p THEN r ELSE queue[x]
    BY <1>3 DEF IInv, Stakes
  <2>2. \A x \in Providers : Fair(queue[x], queue[x])
    BY <1>1, <1>2
  <2> QED BY <1>3, <2>1, <2>2 DEF NewestFirst
<1>4. ASSUME queue' = queue PROVE NewestFirst
  BY <1>1, <1>2, <1>4 DEF NewestFirst
<1>5. ASSUME NEW p \in Providers, NEW a \in Nat, NEW b, Slash(p, a, b) PROVE NewestFirst
  <2> DEFINE rest == a - FromActive(p, a)
  <2>1. a <= Slashable(p) /\ OneQueue(p, Drained(queue[p], rest))
    BY <1>5 DEF Slash
  <2>2. FromActive(p, a) \in 0 .. info[p].staked /\ FromActive(p, a) <= a /\ info[p].staked \in Nat
    BY <2>1, SlashTakes, StakeOf, Zenon DEF IInv
  <2>3. rest \in Nat
    BY <2>2
  <2> HIDE DEF rest
  <2>4. Fair(queue[p], Drained(queue[p], rest))
    BY <1>1, <2>3, QueueNewestFirst, Zenon
  <2> QED BY <1>3, <2>1, <2>4, Zenon
<1>6. ASSUME NEW p \in Providers, ProviderStep(p) PROVE NewestFirst
  <2>1. ASSUME NEW a, NEW n, \/ Deposit(p, a, n) \/ UpdateIdentity(p, n)
                             \/ InitiateBeneficiaryChange(p, n) \/ ExecuteBeneficiaryChange(p)
                             \/ ClaimRewards(p) \/ ClaimVestedRewards(p)
        PROVE  NewestFirst
    BY <1>4, <2>1, ZenonT(30)
    DEF Deposit, UpdateIdentity, InitiateBeneficiaryChange, ExecuteBeneficiaryChange,
                      ClaimRewards, ClaimVestedRewards, stakeVars
  <2>2. ASSUME NEW a, RequestUnstake(p, a) PROVE NewestFirst
    <3>1. PICK e : OneQueue(p, Append(queue[p], e))
      BY <2>2 DEF RequestUnstake
    <3>2. \A i \in 1 .. Len(queue[p]) : Append(queue[p], e)[i] = queue[p][i]
      BY <1>1
    <3>3. Fair(queue[p], Append(queue[p], e))
      BY <1>1, <1>2, <3>2
    <3> QED BY <1>3, <3>1, <3>3, Zenon
  <2>3. ASSUME NEW k, CompleteUnstake(p, k) PROVE NewestFirst
    <3>1. OneQueue(p, MarkCompleted(queue[p], k))
      BY <2>3 DEF CompleteUnstake
    <3>2. \A i \in 1 .. Len(queue[p]) : MarkCompleted(queue[p], k)[i].amount = queue[p][i].amount
      <4> TAKE i \in 1 .. Len(queue[p])
      <4>1. queue[p][i] \in UnstakeRequest
        BY <1>1
      <4> QED BY <1>1, <4>1 DEF MarkCompleted, UnstakeRequest
    <3>3. Fair(queue[p], MarkCompleted(queue[p], k))
      BY <1>1, <1>2, <3>2
    <3> QED BY <1>3, <3>1, <3>3
  <2> HIDE DEF OneQueue, Fair
  <2> QED BY <1>6, <2>1, <2>2, <2>3, Zenon DEF ProviderStep, Stake, StakeWithIdentity
<1> HIDE DEF OneQueue, Fair
<1>7. ASSUME NEW p \in Providers, SlasherStep(p) \/ UnfreezeProvider(p) PROVE NewestFirst
  <2>1. ASSUME NEW a \in Nat, SlashImmediate(p, a) PROVE NewestFirst
    BY <1>5, <2>1 DEF SlashImmediate
  <2>2. ASSUME NEW a, Propose(p, a) \/ FreezeProvider(p) \/ UnfreezeProvider(p) PROVE NewestFirst
    BY <1>4, <2>2, ZenonT(30) DEF Propose, FreezeProvider, UnfreezeProvider, stakeVars
  <2> QED BY <1>7, <2>1, <2>2, Zenon DEF SlasherStep, ProposeSlash, ProposeSlashByReason, Constants
<1>8. ASSUME NEW k \in 1 .. Len(proposals), CarryOut(k) PROVE NewestFirst
  BY <1>4, <1>5, <1>8, ProposalOf DEF CarryOut, IInv, Decisions, stakeVars
<1>9. ASSUME NEW k \in 1 .. Len(proposals), NEW b \in BOOLEAN,
             ExecuteSlash(k) \/ AppealSlash(k) \/ ResolveAppeal(k, b)
      PROVE  NewestFirst
  BY <1>4, <1>8, <1>9 DEF ExecuteSlash, AppealSlash, ResolveAppeal, stakeVars
<1>10. ASSUME NEW a, \/ FundRewards(a) \/ NotifyRewardAmount(a) \/ ReportComputeHours(a)
                     \/ OwnerStep \/ Tick
       PROVE  NewestFirst
  BY <1>4, <1>10, ZenonT(30)
  DEF FundRewards, NotifyRewardAmount, ReportComputeHours, OwnerStep, Tick, stakeVars
<1> QED BY <1>6, <1>7, <1>9, <1>10, Zenon DEF Next
-----------------------------------------------------------------------------
LEMMA IInvTypes == ASSUME IInv PROVE TypeOK
BY DEF IInv, TypeOK, ConfigSound, Stakes, Rewards, RewardClock, Vestings, Tokens, Decisions,
   Identities,
       Beneficiaries

(* The invariant holds initially and every external function of            *)
(* BunkerStaking.sol keeps it.                                             *)
THEOREM AlwaysIInv == ASSUME Constants, SettingTypes PROVE Spec => []IInv
<1>1. Init => IInv
  BY InitIInv
<1>2. IInv /\ [Next]_vars => IInv'
  BY StepIInv
<1> QED BY <1>1, <1>2, PTL DEF Spec

(* The same with what holds until notifyRewardAmount is first called. *)
Books == IInv /\ (NoEpoch => Unrewarded /\ Backed)

(* Every step keeps it: an epoch that was started is never forgotten, and  *)
(* before it only stakes, completed requests, slashes and the owner's      *)
(* funding move tokens.                                                    *)
THEOREM AlwaysBooks == ASSUME Constants, SettingTypes PROVE Spec => []Books
<1>1. Init => Books
  <2> SUFFICES ASSUME Init PROVE Books
    OBVIOUS
  <2>1. IInv
    BY InitIInv, ZenonT(30)
  <2>2. Unrewarded
    BY DEF Init, Unrewarded
  <2>3. Backed
    <3>1. token[Staking] \in Nat /\ totalStaked = 0 /\ totalUnbonding = 0
      BY <2>1, AccountsFinite DEF Init, IInv, Tokens
    <3> QED BY <3>1 DEF Backed
  <2> QED BY <2>1, <2>2, <2>3 DEF Books
<1>2. Books /\ [Next]_vars => Books'
  <2> SUFFICES ASSUME Books, [Next]_vars PROVE Books'
    OBVIOUS
  <2>1. IInv'
    BY StepIInv DEF Books
  <2>2. ASSUME NoEpoch' PROVE Unrewarded' /\ Backed'
    <3>1. NoEpoch
      BY <2>2, EpochStays DEF Books, NoEpoch, vars, rewardVars
    <3> QED BY <2>2, <3>1, BackedKept DEF Books
  <2> QED BY <2>1, <2>2 DEF Books
<1> QED BY <1>1, <1>2, PTL DEF Spec

(* Whatever is staked, unbonded, slashed, claimed and funded: the counters *)
(* are the sums of the records, a record's unbonding is what its queue     *)
(* still holds, and no token is created or lost, so that the checked       *)
(* subtractions of completeUnstake and _executeSlash never trap. Until an  *)
(* epoch of rewards is started, the balance of the contract also backs     *)
(* what is staked and unbonding. (With rewards vesting it does not:        *)
(* _executeSlash caps the forfeited rewards against a balance that still   *)
(* holds the tokens it is about to take out.)                              *)
THEOREM BooksAlwaysBalanced ==
  ASSUME Constants, SettingTypes
  PROVE  Spec => []BooksBalanced
<1>1. Books => BooksBalanced
  BY IInvTypes DEF Books, BooksBalanced, IInv, Stakes, Tokens
<1> QED BY <1>1, AlwaysBooks, PTL

(* Every request still pending is covered three times over: by its         *)
(* provider's record, by the counter and by the tokens of the contract. So *)
(* once it has matured, and its provider is not frozen, nothing in         *)
(* completeUnstake can revert.                                             *)
LEMMA PendingCovered ==
  ASSUME Constants, Books, NoEpoch, NEW p \in Providers, NEW i \in 1 .. Len(queue[p]),
         ~queue[p][i].completed
  PROVE  /\ info[p].unbonding >= queue[p][i].amount
         /\ totalUnbonding >= queue[p][i].amount
         /\ token[Staking] >= queue[p][i].amount
<1> DEFINE amount == queue[p][i].amount
<1>1. /\ queue[p] \in Seq(UnstakeRequest) /\ info[p].unbonding = Held(queue[p])
      /\ info[p].unbonding \in Nat /\ info[p].unbonding <= totalUnbonding
  BY StakeOf, Zenon DEF Books, IInv
<1>2. amount \in Nat /\ Pending(queue[p])[i] = amount
  BY <1>1, QueueTypes, Zenon
<1>3. amount <= info[p].unbonding
  BY <1>1, <1>2, HeldType, Zenon
<1>4. /\ token[Staking] \in Nat /\ totalStaked \in Nat /\ totalUnbonding \in Nat
      /\ token[Staking] >= totalStaked + totalUnbonding
  BY AccountsFinite, Zenon DEF Books, IInv, Tokens, Stakes, Backed
<1> HIDE DEF amount
<1>5. info[p].unbonding >= amount /\ totalUnbonding >= amount /\ token[Staking] >= amount
  BY <1>1, <1>2, <1>3, <1>4
<1> QED BY <1>5 DEF amount

(* A provider that is not frozen gets what it asked for: whatever was      *)
(* slashed meanwhile and whether the contract is paused or not, nothing    *)
(* that completeUnstake requires is missing once the request has matured.  *)
(* While a provider is frozen its wallet receives nothing: no unstake is   *)
(* completed for it and no reward claimed, whatever else is going on.      *)
THEOREM FundsAlwaysReachable ==
  ASSUME Constants, SettingTypes
  PROVE  Spec => FundsReachable
<1>1. Books => MaturedRequestsPay
  BY PendingCovered DEF MaturedRequestsPay, Completable, Payable
<1>2. IInv /\ [Next]_vars => [FrozenFundsStay]_vars
  BY FrozenStep
<1> QED BY <1>1, <1>2, AlwaysBooks, AlwaysIInv, PTL DEF FundsReachable, Spec

(* The subtractions of rewardPerToken and earned, which are part of stake, *)
(* requestUnstake and every slash, never go below zero, through any        *)
(* sequence of epochs and of changes of their length; and no sequence of   *)
(* calls of setTierMinStake brings the minima of the tiers out of order.   *)
THEOREM RewardsAlwaysSound ==
  ASSUME Constants, SettingTypes
  PROVE  Spec => []RewardsSound
<1>1. IInv => RewardsSound
  BY DEF IInv, Rewards, ConfigSound, RewardsSound
<1> QED BY <1>1, AlwaysIInv, PTL

(* A proposal that was appealed is carried out only by a ruling, one that  *)
(* was not only after the window it was proposed with; once it was carried *)
(* out or ruled upon, executeSlash and resolveAppeal leave it; and a slash *)
(* takes from a request only when the newer ones are used up.              *)
THEOREM SlashesAlwaysFair ==
  ASSUME Constants, SettingTypes
  PROVE  Spec => SlashesDecidedFairly
<1>1. IInv => AppealsRespected /\ RulingsOnAppeal
  BY DEF IInv, Decisions, RulingsOnAppeal
<1>2. IInv => DecidedOnce
  <2> SUFFICES ASSUME IInv, NEW k \in 1 .. Len(proposals),
                      proposals[k].executed \/ proposals[k].resolved
               PROVE  ~(ExecuteSlash(k) \/ \E b \in BOOLEAN : ResolveAppeal(k, b))
    BY DEF DecidedOnce
  <2>1. proposals[k].resolved => proposals[k].appealed
    BY DEF IInv, Decisions
  <2>2. ~ExecuteSlash(k)
    BY <2>1 DEF ExecuteSlash, Executable
  <2>3. ASSUME NEW b \in BOOLEAN PROVE ~ResolveAppeal(k, b)
    BY DEF ResolveAppeal
  <2> QED BY <2>2, <2>3
<1>3. IInv /\ [Next]_vars => [DecidedOnce /\ NewestFirst]_vars
  BY <1>2, NewestStep
<1> QED BY <1>1, <1>3, AlwaysIInv, PTL DEF SlashesDecidedFairly, Spec

(* The reverse lookup of a provider's node finds the provider, so that no  *)
(* two providers claim one node; and the beneficiary of an active provider *)
(* changes only to the one requested, when the timelock has run out.       *)
THEOREM IdentitiesAlwaysHeld ==
  ASSUME Constants, SettingTypes
  PROVE  Spec => IdentitiesHeld
<1>1. IInv => NodeIdsResolve /\ NodesApart
  BY DEF IInv, Identities, NodeIdsResolve, NodesApart
<1>2. IInv /\ [Next]_vars => [BeneficiaryDelayed]_vars
  <2> SUFFICES ASSUME IInv, Next PROVE BeneficiaryDelayed
    OBVIOUS
  <2> QED BY IdentitiesKept DEF IInv, Rewards, Decisions
<1> QED BY <1>1, <1>2, AlwaysIInv, PTL DEF IdentitiesHeld, Spec
=============================================================================
