--------------------------- MODULE MCNodeProgress --------------------------
(* Small instances of the parts whose promises are about what finally        *)
(* happens: inbound connections, the circuit breaker, gossip, cloning,       *)
(* reverse tunnels, and the container manager over its payment client. A     *)
(* behaviour runs one scenario, chosen in its initial state, under the       *)
(* fairness of the part it is about; the other parts are absent in it.       *)
EXTENDS Integers, FiniteSets

CONSTANTS Scenarios,               \* the scenarios this model runs
          None, Absent, Nil,
          c1, c2, c3,              \* connections
          p1, p2,                  \* peers
          s1, s2,                  \* subnets
          Exempt, Temp,
          n1, n2, n3,              \* nodes that gossip
          k1, k2,                  \* keys of the gossiped state
          j1, NoDep, NoLook        \* a deployment, or none

VARIABLES scenario,
          conn, counts, peerSubnet, slots, announced, known, accepts,
          state, failures, successes, halfOpenReqs, cooled, flying, since,
          map, up, net, published,
          step, status, activeClones, cloneHistory, lineage, places, stopped, gone,
          pendingDeploys, answer, target, acks, cancelled,
          active, shown, cl, cn, sessions, limiters, dead, blocked, stopping,
          chain, pool, stuck, gap, res, sent, leaked, fault,
          dep, inMap, disk, saver, ctr, pending, call, orphan, look, alive, restarts

handlerVars == <<conn, counts, peerSubnet, slots, announced, known, accepts>>
breakerVars == <<state, failures, successes, halfOpenReqs, cooled, flying, since>>
gossipVars == <<map, up, net, published>>
cloneVars == <<step, status, activeClones, cloneHistory, lineage, places, stopped, gone,
               pendingDeploys, answer, target, acks, cancelled>>
tunnelVars == <<active, shown, cl, cn, sessions, limiters, dead, blocked, stopping>>
payVars == <<chain, pool, stuck, gap, res, sent, leaked, fault>>
cmVars == <<dep, inMap, disk, saver, ctr, pending, call, orphan, look, alive, restarts>>
managerVars == <<payVars, cmVars>>
vars == <<scenario, handlerVars, breakerVars, gossipVars, cloneVars, tunnelVars, managerVars>>

NoHandler ==
  /\ conn = Absent /\ counts = Absent /\ peerSubnet = Absent /\ slots = Absent
  /\ announced = Absent /\ known = Absent /\ accepts = Absent

NoBreaker ==
  /\ state = Absent /\ failures = Absent /\ successes = Absent /\ halfOpenReqs = Absent
  /\ cooled = Absent /\ flying = Absent /\ since = Absent

NoGossip == map = Absent /\ up = Absent /\ net = Absent /\ published = Absent

NoClones ==
  /\ step = Absent /\ status = Absent /\ activeClones = Absent /\ cloneHistory = Absent
  /\ lineage = Absent /\ places = Absent /\ stopped = Absent /\ gone = Absent
  /\ pendingDeploys = Absent /\ answer = Absent /\ target = Absent /\ acks = Absent
  /\ cancelled = Absent

NoTunnels ==
  /\ active = Absent /\ shown = Absent /\ cl = Absent /\ cn = Absent /\ sessions = Absent
  /\ limiters = Absent /\ dead = Absent /\ blocked = Absent /\ stopping = Absent

NoManager ==
  /\ chain = Absent /\ pool = Absent /\ stuck = Absent /\ gap = Absent /\ res = Absent
  /\ sent = Absent /\ leaked = Absent /\ fault = Absent /\ dep = Absent /\ inMap = Absent
  /\ disk = Absent /\ saver = Absent /\ ctr = Absent /\ pending = Absent /\ call = Absent
  /\ orphan = Absent /\ look = Absent /\ alive = Absent /\ restarts = Absent

-----------------------------------------------------------------------------
(* ConnectionHandler: three connections of two peers, two slots, and one    *)
(* connection per subnet where the code allows three.                       *)
Inbound ==
  INSTANCE ConnectionHandler WITH Conns <- {c1, c2, c3}, Peers <- {p1, p2},
    Subnets <- {s1, s2}, MaxPerSubnet <- 1, MaxConns <- 2, MaxAccepts <- 4

(* CircuitBreaker: more requests than either threshold, so that late        *)
(* answers meet every state.                                                *)
Breaker ==
  INSTANCE CircuitBreaker WITH Requests <- 1 .. 4, FailureThreshold <- 3,
    SuccessThreshold <- 2, HalfOpenMaxRequests <- 2

(* Gossip: a provider, a relay and a reader in a line, the last two         *)
(* gossiping to each other; and two keys that compete for one entry.        *)
Line == [n \in {n1, n2, n3} |-> IF n = n2 THEN {n3} ELSE {n2}]

Relayed ==
  INSTANCE Gossip WITH Nodes <- {n1, n2, n3}, Keys <- {k1}, Hosts <- [k \in {k1} |-> {n1}],
    Versions <- {1}, StaleAfter <- 1, MaxEntries <- 1, PeersOf <- Line,
    MaxMessages <- 2, state <- map

Crowded ==
  INSTANCE Gossip WITH Nodes <- {n1, n2}, Keys <- {k1, k2},
    Hosts <- [k \in {k1, k2} |-> IF k = k1 THEN {n1} ELSE {}],
    Versions <- {1}, StaleAfter <- 1, MaxEntries <- 1,
    PeersOf <- [n \in {n1, n2} |-> {n1, n2} \ {n}], MaxMessages <- 1, state <- map

(* CloningManager: two clones for one slot, where the code has three.       *)
Cloning ==
  INSTANCE CloningManager WITH Clones <- {k1, k2}, MaxConcurrentClones <- 1, Nothing <- None,
    slots <- places

(* ReverseTunnel: a client whose old connection lingers while it dials      *)
(* again; the same with a stake, asking for its old name (what it may reach *)
(* only: no fairness, no promise of an end); two clients of one port, in    *)
(* turn; and an ingress that blocks a name and stops.                       *)
Exposed ==
  INSTANCE ReverseTunnel WITH NClients <- 1, NConns <- 2, Staked <- {}, Subdomains <- {k1},
    Nothing <- None, Blockable <- {}, MayStop <- FALSE, MaxSubdomains <- 2,
    MaxReconnectAttempts <- 0, MaxMissedHeartbeats <- 1

Returning ==
  INSTANCE ReverseTunnel WITH NClients <- 1, NConns <- 2, Staked <- {1}, Subdomains <- {k1},
    Nothing <- None, Blockable <- {}, MayStop <- FALSE, MaxSubdomains <- 1,
    MaxReconnectAttempts <- 0, MaxMissedHeartbeats <- 1

Replaced ==
  INSTANCE ReverseTunnel WITH NClients <- 2, NConns <- 1, Staked <- {}, Subdomains <- {k1},
    Nothing <- None, Blockable <- {}, MayStop <- FALSE, MaxSubdomains <- 1,
    MaxReconnectAttempts <- 0, MaxMissedHeartbeats <- 2

Takedown ==
  INSTANCE ReverseTunnel WITH NClients <- 1, NConns <- 1, Staked <- {}, Subdomains <- {k1},
    Nothing <- None, Blockable <- {k1}, MayStop <- TRUE, MaxSubdomains <- 1,
    MaxReconnectAttempts <- 1, MaxMissedHeartbeats <- 2

(* ContainerManager: one deployment, one call at a time, one restart, an    *)
(* endpoint that answers, and another operator who may select providers;    *)
(* and the daemon alone, as deployed: nobody else selects providers.        *)
Orderly ==
  INSTANCE ContainerManager WITH Jobs <- {j1}, RPCFaults <- FALSE, OtherOperators <- TRUE,
    Calls <- {c1}, Savers <- {s1}, Peers <- {p1, p2}, MaxRestarts <- 1, up <- alive

Alone ==
  INSTANCE ContainerManager WITH Jobs <- {j1}, RPCFaults <- FALSE, OtherOperators <- FALSE,
    Calls <- {c1}, Savers <- {s1}, Peers <- {p1, p2}, MaxRestarts <- 0, up <- alive

-----------------------------------------------------------------------------
Init ==
  /\ scenario \in Scenarios
  /\ IF scenario = "inbound" THEN Inbound!Init ELSE NoHandler
  /\ IF scenario = "breaker" THEN Breaker!Init ELSE NoBreaker
  /\ IF scenario = "relayed" THEN Relayed!Init
     ELSE IF scenario = "crowded" THEN Crowded!Init ELSE NoGossip
  /\ IF scenario = "cloning" THEN Cloning!Init ELSE NoClones
  /\ CASE scenario = "exposed" -> Exposed!Init
       [] scenario = "returning" -> Returning!Init
       [] scenario = "replaced" -> Replaced!Init
       [] scenario = "takedown" -> Takedown!Init
       [] OTHER -> NoTunnels
  /\ IF scenario = "orderly" THEN Orderly!Init
     ELSE IF scenario = "alone" THEN Alone!Init ELSE NoManager

HandlerStep ==
  /\ scenario = "inbound" /\ Inbound!Next
  /\ UNCHANGED <<scenario, managerVars, breakerVars, gossipVars, cloneVars, tunnelVars>>

BreakerStep ==
  /\ scenario = "breaker" /\ Breaker!Next
  /\ UNCHANGED <<scenario, managerVars, handlerVars, gossipVars, cloneVars, tunnelVars>>

GossipStep ==
  /\ \/ scenario = "relayed" /\ Relayed!Next
     \/ scenario = "crowded" /\ Crowded!Next
  /\ UNCHANGED <<scenario, managerVars, handlerVars, breakerVars, cloneVars, tunnelVars>>

CloneStep ==
  /\ scenario = "cloning" /\ Cloning!Next
  /\ UNCHANGED <<scenario, managerVars, handlerVars, breakerVars, gossipVars, tunnelVars>>

TunnelStep ==
  /\ \/ scenario = "exposed" /\ Exposed!Next
     \/ scenario = "returning" /\ Returning!Next
     \/ scenario = "replaced" /\ Replaced!Next
     \/ scenario = "takedown" /\ Takedown!Next
  /\ UNCHANGED <<scenario, managerVars, handlerVars, breakerVars, gossipVars, cloneVars>>

ManagerStep ==
  /\ \/ scenario = "orderly" /\ Orderly!Next
     \/ scenario = "alone" /\ Alone!Next
  /\ UNCHANGED <<scenario, handlerVars, breakerVars, gossipVars, cloneVars, tunnelVars>>

Next == HandlerStep \/ BreakerStep \/ GossipStep \/ CloneStep \/ TunnelStep \/ ManagerStep

(* The fairness each part's own specification states. *)
HandlerFairness ==
  \A c \in {c1, c2, c3} :
    WF_vars(scenario = "inbound" /\ Inbound!GraceExpired(c)
              /\ UNCHANGED <<scenario, managerVars, breakerVars, gossipVars, cloneVars, tunnelVars>>)

BreakerFairness ==
  /\ \A r \in 1 .. 4 :
       /\ WF_vars(scenario = "breaker" /\ Breaker!Allow(r)
                    /\ UNCHANGED <<scenario, managerVars, handlerVars, gossipVars, cloneVars, tunnelVars>>)
       /\ WF_vars(scenario = "breaker" /\ (Breaker!RecordSuccess(r) \/ Breaker!RecordFailure(r))
                    /\ UNCHANGED <<scenario, managerVars, handlerVars, gossipVars, cloneVars, tunnelVars>>)
  /\ WF_vars(scenario = "breaker" /\ Breaker!Cool
               /\ UNCHANGED <<scenario, managerVars, handlerVars, gossipVars, cloneVars, tunnelVars>>)

GossipFairness ==
  /\ \A n \in {n1, n2, n3} :
       WF_vars(scenario = "relayed" /\ Relayed!CleanStaleState(n)
                 /\ UNCHANGED <<scenario, managerVars, handlerVars, breakerVars, cloneVars, tunnelVars>>)
  /\ WF_vars(scenario = "relayed" /\ (\E m \in net : Relayed!Receive(m) \/ Relayed!Lose(m))
               /\ UNCHANGED <<scenario, managerVars, handlerVars, breakerVars, cloneVars, tunnelVars>>)

CloneFairness ==
  \A c \in {k1, k2} :
    WF_vars(scenario = "cloning" /\ Cloning!Goroutine(c)
              /\ UNCHANGED <<scenario, managerVars, handlerVars, breakerVars, gossipVars, tunnelVars>>)

TunnelFairness ==
  /\ \A c \in {1, 2} :
       WF_vars(/\ \/ scenario = "exposed" /\ c = 1 /\ Exposed!Connect(c)
                  \/ scenario = "replaced" /\ Replaced!Connect(c)
                  \/ scenario = "takedown" /\ c = 1 /\ Takedown!Connect(c)
               /\ UNCHANGED <<scenario, managerVars, handlerVars, breakerVars, gossipVars, cloneVars>>)
  /\ \A k \in {1, 2} :
       WF_vars(/\ \/ scenario = "exposed" /\ Exposed!Handler(k)
                  \/ scenario = "replaced" /\ k = 1 /\ Replaced!Handler(k)
                  \/ scenario = "takedown" /\ k = 1 /\ Takedown!Handler(k)
               /\ UNCHANGED <<scenario, managerVars, handlerVars, breakerVars, gossipVars, cloneVars>>)

Still == UNCHANGED <<scenario, handlerVars, breakerVars, gossipVars, cloneVars, tunnelVars>>

ManagerFairness ==
  /\ WF_vars(scenario = "orderly" /\ Orderly!CopyState(s1) /\ Still)
  /\ WF_vars(scenario = "orderly" /\ Orderly!PutDeployment(s1, j1) /\ Still)
  /\ SF_vars(scenario = "orderly" /\ Orderly!CallStep(c1) /\ Still)
  /\ SF_vars(scenario = "orderly" /\ Orderly!ReadStatus(j1) /\ Still)
  /\ SF_vars(scenario = "orderly" /\ Orderly!FinalizeOrphan(j1) /\ Still)
  /\ SF_vars(scenario = "orderly" /\ Orderly!ReconcileContainerStatus /\ Still)
  /\ WF_vars(scenario = "orderly" /\ Orderly!Restart /\ Still)
  /\ \A tx \in Orderly!Settling :
       WF_vars(scenario = "orderly" /\ Orderly!Mine(j1, tx) /\ Still /\ UNCHANGED cmVars)

Fairness == HandlerFairness /\ BreakerFairness /\ GossipFairness /\ CloneFairness /\ TunnelFairness

SafeSpec == Init /\ [][Next]_vars
Spec == SafeSpec /\ Fairness
ManagerSpec == SafeSpec /\ ManagerFairness

-----------------------------------------------------------------------------
(* handleConnection: a slot comes back exactly once whatever way the        *)
(* connection ends, the subnet counts stay within the limit, and a peer     *)
(* that stays silent does not keep its connection.                          *)
ConnectionsSound ==
  /\ [](scenario = "inbound" => Inbound!ConnectionsSound)
  /\ \A c \in {c1, c2, c3} :
       (scenario = "inbound" /\ Inbound!Waiting(c))
         ~> (scenario = "inbound" /\ Inbound!Settled(c))


(* Gossip: an exposure held anywhere is one its provider published, and     *)
(* when the provider is gone it fades everywhere.                           *)
GossipSound ==
  /\ [](scenario = "relayed" => Relayed!ExposuresAuthentic)
  /\ [](scenario = "crowded" => Crowded!ExposuresAuthentic)
  /\ \A n \in {n1, n2, n3} :
       (scenario = "relayed" /\ Relayed!Gone(n)) ~> (scenario = "relayed" /\ Relayed!Forgotten(n))

(* CloningManager: every clone can be found and ends, and gives its slot    *)
(* back; one reported complete runs on its target; a clone is in the        *)
(* history once, or twice when it was cancelled.                            *)
CloningSound ==
  /\ [](scenario = "cloning" => Cloning!ClonesAccounted)
  /\ <>[](scenario = "cloning" => Cloning!RequestedEnded)

(* ReverseTunnel: the registry leads only to connections whose handler      *)
(* will remove them; a tunnel both ends serve is found and limited; and     *)
(* after Unexpose, whatever the client was doing, its goroutine ends and    *)
(* its name leaves the registry.                                            *)
TunnelsSound ==
  /\ [](scenario = "exposed" => Exposed!RegistryTended /\ Exposed!ServedIsRouted)
  /\ [](scenario = "returning" => Returning!RegistryTended)
  /\ [](scenario = "replaced" => Replaced!RegistryTended /\ Replaced!ServedIsRouted)
  /\ [](scenario = "takedown" => Takedown!RegistryTended /\ Takedown!ServedIsRouted)
  /\ <>[](/\ scenario = "exposed" => Exposed!CancelledGone
          /\ scenario = "replaced" => Replaced!CancelledGone
          /\ scenario = "takedown" => Takedown!CancelledGone)

(* "/24 subnet limiter: max 3 peers per subnet": the peers with an open     *)
(* connection from one subnet stay within the limit.                        *)
SubnetLimited == scenario = "inbound" => Inbound!SubnetLimited

(* reconcileEscrowsOnStartup: the active escrow of a deployment that        *)
(* stopped around a crash is settled after the restart, unless the endpoint *)
(* failed or a nonce was lost.                                              *)
OrphansSettled ==
  (scenario = "orderly" /\ Orderly!Abandoned(j1)) ~> (scenario = "orderly" /\ Orderly!SettledOrExcused(j1))

(* reconcileContainerStatus: a deployment recorded as running whose         *)
(* container does not run is noticed.                                       *)
DriftNoticed ==
  (scenario = "orderly" /\ Orderly!Drifted(j1)) ~> (scenario = "orderly" /\ ~Orderly!Drifted(j1))

(* "Activate escrow once on first successful ack (transition Created ->     *)
(* Active)": after that call the reservation is no longer merely created.   *)
FirstAckActivates == scenario = "alone" => Alone!FirstAckActivates
=============================================================================
