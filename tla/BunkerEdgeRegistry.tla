------------------------- MODULE BunkerEdgeRegistry -------------------------
(***************************************************************************)
(* contracts/src/BunkerEdgeRegistry.sol: edge providers register with a    *)
(* node ID when their stake suffices, can be frozen, and are slashed       *)
(* through proposals with an appeal window.  The stake is kept by          *)
(* BunkerStaking, which this module sees through getProviderInfo and       *)
(* slash: its variables staked, unbonding and stakingSlashes.              *)
(***************************************************************************)
EXTENDS Integers, Sequences

CONSTANTS Providers, NoAddr,
          NodeIds, NoId,
          Endpoints, NoEndpoint,
          SlashAmounts,     \* amounts slashers propose
          MinStakes,        \* values of minStakeForEdge, within the floor and the ceiling
          AppealWindows,    \* values of appealWindow, likewise
          StakeLevels,      \* amounts BunkerStaking may hold for a provider
          MaxProposals,     \* bound on the number of proposals
          MaxTime           \* bound on the clock

VARIABLES edge,             \* edgeProviders
          nodeIdToEdge,     \* nodeIdToEdgeProvider
          edgeProposals,    \* slashProposals
          edgeCfg,          \* minStakeForEdge, appealWindow, slashingEnabled, paused
          staked, unbonding,  \* stakedAmount and totalUnbonding of getProviderInfo
          stakingSlashes,   \* BunkerStaking.slashingEnabled
          now

edgeVars == <<edge, nodeIdToEdge, edgeProposals, edgeCfg>>
stakeView == <<staked, unbonding, stakingSlashes>>
vars == <<edgeVars, stakeView, now>>

EdgeProviderInfo == [nodeId : NodeIds \cup {NoId}, endpoint : Endpoints \cup {NoEndpoint},
                     active : BOOLEAN, frozen : BOOLEAN]
EdgeSlashProposal == [provider : Providers, amount : Nat, proposedAt : Nat, window : Nat,
                      executed : BOOLEAN, appealed : BOOLEAN, resolved : BOOLEAN]
EdgeConfig == [minStakeForEdge : Nat, appealWindow : Nat, slashingEnabled : BOOLEAN,
               paused : BOOLEAN]

EdgeInit ==
  /\ edge = [p \in Providers |-> [nodeId |-> NoId, endpoint |-> NoEndpoint,
                                  active |-> FALSE, frozen |-> FALSE]]
  /\ nodeIdToEdge = [n \in NodeIds |-> NoAddr]
  /\ edgeProposals = <<>>
  /\ edgeCfg \in [minStakeForEdge : MinStakes, appealWindow : AppealWindows,
                  slashingEnabled : {FALSE}, paused : {FALSE}]

Init ==
  /\ EdgeInit
  /\ staked \in [Providers -> StakeLevels]
  /\ unbonding \in [Providers -> StakeLevels]
  /\ stakingSlashes \in BOOLEAN
  /\ now = 1

-----------------------------------------------------------------------------
(* Edge providers. *)

RegisterEdgeProvider(p, id, endpoint) ==
  /\ ~edgeCfg.paused
  /\ ~edge[p].active /\ ~edge[p].frozen
  /\ id # NoId => nodeIdToEdge[id] = NoAddr
  /\ staked[p] >= edgeCfg.minStakeForEdge
  /\ edge' = [edge EXCEPT ![p] = [nodeId |-> id, endpoint |-> endpoint,
                                  active |-> TRUE, frozen |-> FALSE]]
  /\ nodeIdToEdge' = [n \in NodeIds |-> IF n = id THEN p ELSE nodeIdToEdge[n]]
  /\ UNCHANGED <<edgeProposals, edgeCfg, stakeView, now>>

(* Mutant: the whole entry is cleared. *)
ClearedWhole(e) == [e EXCEPT !.active = FALSE, !.frozen = FALSE, !.nodeId = NoId,
                             !.endpoint = NoEndpoint]

(* Everything but the freeze is cleared. *)
Cleared(e) == [e EXCEPT !.active = FALSE, !.nodeId = NoId, !.endpoint = NoEndpoint]

Freed(p) == [n \in NodeIds |-> IF n = edge[p].nodeId THEN NoAddr ELSE nodeIdToEdge[n]]

(* Also while paused or frozen. *)
DeregisterEdgeProvider(p) ==
  /\ edge[p].active
  /\ edge' = [edge EXCEPT ![p] = Cleared(@)]
  /\ nodeIdToEdge' = Freed(p)
  /\ UNCHANGED <<edgeProposals, edgeCfg, stakeView, now>>

UpdateEndpoint(p, endpoint) ==
  /\ edge[p].active /\ ~edge[p].frozen
  /\ edge' = [edge EXCEPT ![p].endpoint = endpoint]
  /\ UNCHANGED <<nodeIdToEdge, edgeProposals, edgeCfg, stakeView, now>>

FreezeEdgeProvider(p) ==
  /\ edge[p].active
  /\ edge' = [edge EXCEPT ![p].frozen = TRUE]
  /\ UNCHANGED <<nodeIdToEdge, edgeProposals, edgeCfg, stakeView, now>>

UnfreezeEdgeProvider(p) ==
  /\ edge' = [edge EXCEPT ![p].frozen = FALSE]
  /\ UNCHANGED <<nodeIdToEdge, edgeProposals, edgeCfg, stakeView, now>>

isActiveEdgeProvider(p) == edge[p].active /\ ~edge[p].frozen

-----------------------------------------------------------------------------
(* Slashing. *)

Slashable(p) == staked[p] + unbonding[p]

ProposeEdgeSlash(p, amount) ==
  /\ amount > 0
  /\ edge[p].active
  /\ amount <= Slashable(p)
  /\ Len(edgeProposals) < MaxProposals
  /\ edgeProposals' = Append(edgeProposals,
       [provider |-> p, amount |-> amount, proposedAt |-> now,
        window |-> edgeCfg.appealWindow,
        executed |-> FALSE, appealed |-> FALSE, resolved |-> FALSE])
  /\ UNCHANGED <<edge, nodeIdToEdge, edgeCfg, stakeView, now>>

(* BunkerStaking.slash: it refuses more than is slashable, and takes the   *)
(* active stake before what is unbonding.                                  *)
StakingSlash(p, amount) ==
  LET fromActive == IF amount < staked[p] THEN amount ELSE staked[p]
  IN  /\ stakingSlashes
      /\ amount <= Slashable(p)
      /\ staked' = [staked EXCEPT ![p] = @ - fromActive]
      /\ unbonding' = [unbonding EXCEPT ![p] = @ - (amount - fromActive)]
      /\ UNCHANGED stakingSlashes

WindowEnd(k) == edgeProposals[k].proposedAt + edgeProposals[k].window

(* Mutant: the flag of an appeal is not looked at. *)
ExecutableDespiteAppeal(k) == ~edgeProposals[k].executed /\ now >= WindowEnd(k)

Executable(k) ==
  ~edgeProposals[k].executed /\ ~edgeProposals[k].appealed /\ now >= WindowEnd(k)

(* executeEdgeSlash up to the call of slash. *)
MarkExecuted(k) ==
  /\ edgeCfg.slashingEnabled
  /\ Executable(k)
  /\ edgeProposals' = [edgeProposals EXCEPT ![k].executed = TRUE]
  /\ UNCHANGED <<edge, nodeIdToEdge, edgeCfg, now>>

ExecuteEdgeSlash(k) ==
  MarkExecuted(k) /\ StakingSlash(edgeProposals[k].provider, edgeProposals[k].amount)

AppealEdgeSlash(k) ==
  /\ ~edgeProposals[k].executed /\ ~edgeProposals[k].appealed
  /\ now < WindowEnd(k)
  /\ edgeProposals' = [edgeProposals EXCEPT ![k].appealed = TRUE]
  /\ UNCHANGED <<edge, nodeIdToEdge, edgeCfg, stakeView, now>>

(* resolveEdgeSlashAppeal with uphold, up to the call of slash. *)
MarkUpheld(k) ==
  /\ edgeProposals[k].appealed /\ ~edgeProposals[k].resolved /\ ~edgeProposals[k].executed
  /\ edgeCfg.slashingEnabled
  /\ edgeProposals' = [edgeProposals EXCEPT ![k].resolved = TRUE, ![k].executed = TRUE]
  /\ UNCHANGED <<edge, nodeIdToEdge, edgeCfg, now>>

UpheldAppeal(k) ==
  MarkUpheld(k) /\ StakingSlash(edgeProposals[k].provider, edgeProposals[k].amount)

RejectedSlash(k) ==
  /\ edgeProposals[k].appealed /\ ~edgeProposals[k].resolved /\ ~edgeProposals[k].executed
  /\ edgeProposals' = [edgeProposals EXCEPT ![k].resolved = TRUE]
  /\ UNCHANGED <<edge, nodeIdToEdge, edgeCfg, stakeView, now>>

-----------------------------------------------------------------------------
(* The owner, the staking contract and the clock. *)

SetMinStakeForEdge(m) == edgeCfg' = [edgeCfg EXCEPT !.minStakeForEdge = m]
SetAppealWindow(w) == edgeCfg' = [edgeCfg EXCEPT !.appealWindow = w]
SetSlashingEnabled(b) == edgeCfg' = [edgeCfg EXCEPT !.slashingEnabled = b]
SetPaused(b) == edgeCfg.paused # b /\ edgeCfg' = [edgeCfg EXCEPT !.paused = b]

OwnerStep ==
  /\ \/ \E m \in MinStakes : SetMinStakeForEdge(m)
     \/ \E w \in AppealWindows : SetAppealWindow(w)
     \/ \E b \in BOOLEAN : SetSlashingEnabled(b) \/ SetPaused(b)
  /\ UNCHANGED <<edge, nodeIdToEdge, edgeProposals, stakeView, now>>

(* Whatever else happens in BunkerStaking. *)
StakingStep ==
  /\ staked' \in [Providers -> StakeLevels]
  /\ unbonding' \in [Providers -> StakeLevels]
  /\ stakingSlashes' \in BOOLEAN
  /\ UNCHANGED <<edgeVars, now>>

Tick == now < MaxTime /\ now' = now + 1 /\ UNCHANGED <<edgeVars, stakeView>>

(* The operations that leave BunkerStaking alone. *)
LocalStep ==
  \/ \E p \in Providers :
       \/ \E n \in NodeIds \cup {NoId}, e \in Endpoints : RegisterEdgeProvider(p, n, e)
       \/ DeregisterEdgeProvider(p)
       \/ \E e \in Endpoints : UpdateEndpoint(p, e)
       \/ FreezeEdgeProvider(p)
       \/ UnfreezeEdgeProvider(p)
       \/ \E a \in SlashAmounts : ProposeEdgeSlash(p, a)
  \/ \E k \in 1 .. Len(edgeProposals) : AppealEdgeSlash(k) \/ RejectedSlash(k)
  \/ OwnerStep

SlashStep == \E k \in 1 .. Len(edgeProposals) : ExecuteEdgeSlash(k) \/ UpheldAppeal(k)

Next == LocalStep \/ SlashStep \/ StakingStep \/ Tick

Spec == Init /\ [][Next]_vars

-----------------------------------------------------------------------------
(* Properties. *)

(* The state keeps its shape. *)
TypeOK ==
  /\ edge \in [Providers -> EdgeProviderInfo]
  /\ nodeIdToEdge \in [NodeIds -> Providers \cup {NoAddr}]
  /\ edgeProposals \in Seq(EdgeSlashProposal)
  /\ edgeCfg \in EdgeConfig
  /\ staked \in [Providers -> Nat] /\ unbonding \in [Providers -> Nat]
  /\ stakingSlashes \in BOOLEAN
  /\ now \in Nat

(* The lookup of node IDs and the registrations are each other's inverse,   *)
(* through any sequence of registering, leaving and coming back: a node ID  *)
(* that was given up can be claimed by another provider, and only then.     *)
LookupIsInverse ==
  \A n \in NodeIds, p \in Providers :
    nodeIdToEdge[n] = p <=> edge[p].active /\ edge[p].nodeId = n

(* "a frozen provider cannot escape the freeze by deregistering and         *)
(* re-registering": a frozen provider serves again only after the owner's   *)
(* unfreezeEdgeProvider.                                                    *)
FreezeInescapable ==
  \A p \in Providers : edge[p].frozen /\ ~edge'[p].frozen => UnfreezeEdgeProvider(p)
=============================================================================
