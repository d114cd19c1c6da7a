--------------------------- MODULE MCBunkerEscrow ---------------------------
(* Two reservations side by side as long as the owner and the staking      *)
(* contract leave the parameters alone, one while they change them.        *)
EXTENDS BunkerEscrow, TLC

AsDeployed ==
  /\ protocolFeeBps = 500 /\ feeBurnBps = 8000 /\ lowBalanceThresholdBps = 2000
  /\ activeProviders = {}
  /\ \A t \in Treasuries \ {treasury} : token[t] = 0

Bounded == AsDeployed \/ (nextReservationId <= 2 /\ now <= 2)

MCNext == Next /\ Bounded'

MCSpec == Init /\ [][MCNext]_vars

(* The accounts of each kind are interchangeable. *)
Symmetry == Permutations(Providers \ Restaking) \cup Permutations(Treasuries)
=============================================================================
