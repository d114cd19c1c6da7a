-------------------------- MODULE ContainerNetworks --------------------------
(***************************************************************************)
(* The networks of the containers of one host: the host ports and the      *)
(* intra-host addresses a deployment is given, the store of the network    *)
(* policies, and the nftables enforcer that turns a policy into two chains *)
(* of its own and the jumps to them in the one forward chain.              *)
(*                                                                         *)
(* A primary is set up while the container manager's lock keeps its        *)
(* teardown out; a replica is set up by a goroutine that a Stop may meet.  *)
(* nft runs a script as a whole or not at all.                             *)
(***************************************************************************)
EXTENDS Naturals, Sequences, FiniteSets, SequencesExt

CONSTANTS
  Ids,          \* deployments
  Replicas,     \* those this host runs as a replica
  Wanted,       \* deployment -> how many ports it exposes
  Policies,     \* deployment -> the network policies it may ask for
  Addrs,        \* outside addresses, for the egress rules
  MaxPort, MaxIP,   \* ends of the port range and of the address pool
  Nothing,
  MaxFaults     \* bound on failing nft runs and on restarts

VARIABLES
  net,          \* deployment -> [ip, ports] or Nothing    (nm.networks)
  ports,        \* allocated host ports                     (portAlloc)
  freed, next,  \* the address pool                         (defaultIPPool)
  store,        \* deployment -> [ip, pol] or Nothing       (PolicyStore)
  applied,      \* deployments with rules installed         (e.applied)
  appliedIP,    \* deployment -> address or Nothing         (e.appliedIP)
  chain,        \* kernel: deployment -> its two chains or Nothing
  forward,      \* kernel: the jumps, pairs of address and deployment
  up, down,     \* deployment -> where its setup / its teardown is
  plan,         \* deployment -> the rules its Apply has computed, or Nothing
  rejected,     \* has nft refused a script for what is in the kernel?
  blurred,      \* deployments whose rules a fault or a race put in doubt
  faults

vars == <<net, ports, freed, next, store, applied, appliedIP, chain, forward, up, down,
          plan, rejected, blurred, faults>>
pool == <<ports, freed, next>>
kernel == <<chain, forward, rejected>>
rules == <<store, applied, appliedIP, chain, forward, rejected>>

Init ==
  /\ net = [d \in Ids |-> Nothing]
  /\ ports = {} /\ freed = <<>> /\ next = 2
  /\ store = [d \in Ids |-> Nothing]
  /\ applied = {} /\ appliedIP = [d \in Ids |-> Nothing]
  /\ chain = [d \in Ids |-> Nothing] /\ forward = {}
  /\ up = [d \in Ids |-> "new"] /\ down = [d \in Ids |-> "idle"]
  /\ plan = [d \in Ids |-> Nothing]
  /\ rejected = FALSE /\ blurred = {} /\ faults = 0

(***************************************************************************)
(* Ports and addresses.                                                    *)
(***************************************************************************)
FreePorts == (1 .. MaxPort) \ ports

(* The k lowest free ports, as k calls of Allocate give them.              *)
Allocate(k) == {p \in FreePorts : Cardinality({q \in FreePorts : q < p}) < k}

(* As a bug would have it: a freed address is read and not taken off.      *)
PeekIP == IF freed # <<>> THEN [ip |-> Last(freed), freed |-> freed, next |-> next]
          ELSE [ip |-> next, freed |-> freed, next |-> next + 1]

AllocateIP == IF freed # <<>> THEN [ip |-> Last(freed), freed |-> Front(freed), next |-> next]
              ELSE [ip |-> next, freed |-> freed, next |-> next + 1]

CanSetup(k) == Cardinality(FreePorts) >= k /\ (freed # <<>> \/ next <= MaxIP)

SetupNetwork(d, k) ==
  LET a == AllocateIP IN
  /\ net' = [net EXCEPT ![d] = [ip |-> a.ip, ports |-> Allocate(k)]]
  /\ ports' = ports \cup Allocate(k)
  /\ freed' = a.freed /\ next' = a.next

(* deployLocally's exposed ports, then resolveContainerIP for the policy:  *)
(* a setup that finds no port or no address is only logged.                *)
SetupForDeploy(d) ==
  /\ up[d] = "new"
  /\ d \notin Replicas => \A e \in Ids \ Replicas : up[e] \in {"new", "done"}
  /\ LET k == IF d \in Replicas THEN 0 ELSE Wanted[d] IN
     \/ CanSetup(k) /\ SetupNetwork(d, k) /\ up' = [up EXCEPT ![d] = "policy"]
     \/ /\ ~CanSetup(k) /\ k > 0 /\ CanSetup(0)
        /\ SetupNetwork(d, 0) /\ up' = [up EXCEPT ![d] = "policy"]
     \/ /\ ~CanSetup(0)
        /\ up' = [up EXCEPT ![d] = "done"] /\ UNCHANGED <<net, pool>>
  /\ UNCHANGED <<plan, rules, down, blurred, faults>>

(* As a bug would have it: the network's entry stays after its teardown.   *)
TeardownAgain(d) ==
  /\ down[d] \in {"idle", "policy"} /\ up[d] # "new"
  /\ d \notin Replicas => up[d] = "done"
  /\ freed' = IF net[d] = Nothing THEN freed ELSE Append(freed, net[d].ip)
  /\ down' = [down EXCEPT ![d] = IF @ = "idle" THEN "policy" ELSE "store"]
  /\ UNCHANGED <<plan, net, ports, next, rules, up, blurred, faults>>

(* TeardownNetwork gives the address back; the ports stay allocated.       *)
TeardownNetwork(d) ==
  /\ down[d] = "idle" /\ up[d] # "new"
  /\ d \notin Replicas => up[d] = "done"
  /\ IF net[d] = Nothing THEN UNCHANGED <<net, freed>>
     ELSE freed' = Append(freed, net[d].ip) /\ net' = [net EXCEPT ![d] = Nothing]
  /\ down' = [down EXCEPT ![d] = "policy"]
  /\ blurred' = IF up[d] # "done" THEN blurred \cup {d} ELSE blurred
  /\ UNCHANGED <<plan, ports, next, rules, up, faults>>

(***************************************************************************)
(* The policy rules.  Apply records the policy and resolves the peers      *)
(* before it takes the enforcer's lock; the script is built and run under  *)
(* it.                                                                     *)
(***************************************************************************)
Validate(d, p) == d \notin p.peers

AllowsPeer(p, d) == d \in p.peers

ResolveAllowedPeerIPs(d, p, st) ==
  {st[e].ip : e \in {e \in p.peers : st[e] # Nothing /\ AllowsPeer(st[e].pol, d)}}

EvaluateEgress(p, a) ==
  CASE \E i \in DOMAIN p.deny : a \in p.deny[i]   -> "drop"
    [] \E i \in DOMAIN p.allow : a \in p.allow[i] -> "accept"
    [] OTHER                                      -> IF p.closed THEN "drop" ELSE "accept"

Lines(cidrs, verdict) == [i \in DOMAIN cidrs |-> [daddr |-> cidrs[i], verdict |-> verdict]]

(* As a bug would have it: the allowed ranges come first.                  *)
EgressAllowFirst(p) ==
  Lines(p.allow, "accept") \o Lines(p.deny, "drop")
    \o <<[daddr |-> Addrs, verdict |-> IF p.closed THEN "drop" ELSE "accept"]>>

ComputeEgressRules(p) ==
  Lines(p.deny, "drop") \o Lines(p.allow, "accept")
    \o <<[daddr |-> Addrs, verdict |-> IF p.closed THEN "drop" ELSE "accept"]>>

(* buildForwardRebuild: the jumps of every deployment with an address.     *)
ForwardOf(ips) == {<<ips[d], d>> : d \in {d \in Ids : ips[d] # Nothing}}

PolicyApply(d, p) ==
  /\ up[d] = "policy" /\ p \in Policies[d]
  /\ IF net[d] = Nothing \/ ~Validate(d, p)
     THEN up' = [up EXCEPT ![d] = "done"] /\ UNCHANGED <<store, plan>>
     ELSE LET st == [store EXCEPT ![d] = [ip |-> net[d].ip, pol |-> p]] IN
          /\ store' = st
          /\ plan' = [plan EXCEPT ![d] = [pol |-> p, ip |-> net[d].ip,
                                          peers |-> ResolveAllowedPeerIPs(d, p, st)]]
          /\ up' = [up EXCEPT ![d] = "run"]
  /\ UNCHANGED <<net, pool, applied, appliedIP, kernel, down, blurred, faults>>

(* A deployment with exposed ports that asks for no policy.                *)
NoPolicy(d) ==
  /\ up[d] = "policy" /\ net[d] # Nothing /\ net[d].ports # {}
  /\ up' = [up EXCEPT ![d] = "done"]
  /\ UNCHANGED <<plan, net, pool, rules, down, blurred, faults>>

RunApply(d, ok) ==
  /\ up[d] = "run"
  /\ LET ips == [appliedIP EXCEPT ![d] = plan[d].ip] IN
     \/ /\ ok
        /\ chain' = [chain EXCEPT ![d] = [accept |-> plan[d].peers, pol |-> plan[d].pol,
                                          out |-> ComputeEgressRules(plan[d].pol)]]
        /\ forward' = ForwardOf(ips)
        /\ rejected' = (rejected \/ \E e \in Ids : ips[e] # Nothing /\ e # d /\ chain[e] = Nothing)
        /\ appliedIP' = ips /\ applied' = applied \cup {d}
        /\ UNCHANGED <<blurred, faults>>
     \/ /\ ~ok /\ faults < MaxFaults /\ faults' = faults + 1
        /\ blurred' = blurred \cup {d}
        /\ UNCHANGED <<applied, appliedIP, kernel>>
  /\ up' = [up EXCEPT ![d] = "done"] /\ plan' = [plan EXCEPT ![d] = Nothing]
  /\ UNCHANGED <<net, pool, store, down>>

PolicyRemove(d) ==
  /\ down[d] = "policy"
  /\ store' = [store EXCEPT ![d] = Nothing]
  /\ down' = [down EXCEPT ![d] = "exec"]
  /\ blurred' = IF up[d] # "done" THEN blurred \cup {d} ELSE blurred
  /\ UNCHANGED <<plan, net, pool, applied, appliedIP, kernel, up, faults>>

(* As a bug would have it: the chains are deleted and the forward chain,   *)
(* whose jumps still name them, is left to the next Apply.                 *)
RemoveChainsOnly(d, ok) ==
  /\ down[d] = "exec"
  /\ down' = [down EXCEPT ![d] = "done"]
  /\ rejected' = (rejected \/ \E j \in forward : j[2] = d)
  /\ chain' = [chain EXCEPT ![d] = Nothing]
  /\ applied' = applied \ {d} /\ appliedIP' = [appliedIP EXCEPT ![d] = Nothing]
  /\ UNCHANGED <<plan, net, pool, store, forward, up, blurred, faults>>

(* Nothing installed: no script.  Else the forward chain is rebuilt        *)
(* without d and only then are its chains deleted; a failed run puts the   *)
(* bookkeeping back.                                                       *)
RunRemove(d, ok) ==
  /\ down[d] = "exec"
  /\ LET ips == [appliedIP EXCEPT ![d] = Nothing] IN
     \/ /\ d \notin applied
        /\ appliedIP' = ips
        /\ UNCHANGED <<applied, kernel, blurred, faults>>
     \/ /\ d \in applied /\ ok
        /\ forward' = ForwardOf(ips) /\ chain' = [chain EXCEPT ![d] = Nothing]
        /\ rejected' = (rejected \/ chain[d] = Nothing
                          \/ \E e \in Ids : ips[e] # Nothing /\ chain[e] = Nothing)
        /\ applied' = applied \ {d} /\ appliedIP' = ips
        /\ UNCHANGED <<blurred, faults>>
     \/ /\ d \in applied /\ ~ok /\ faults < MaxFaults /\ faults' = faults + 1
        /\ blurred' = blurred \cup {d}
        /\ UNCHANGED <<applied, appliedIP, kernel>>
  /\ down' = [down EXCEPT ![d] = "done"]
  /\ UNCHANGED <<plan, net, pool, store, up>>

(* The daemon restarts: what it knew is gone, the kernel's rules and the   *)
(* containers stay.                                                        *)
Restart ==
  /\ faults < MaxFaults /\ faults' = faults + 1
  /\ \A d \in Ids : up[d] \in {"new", "done"} /\ down[d] \in {"idle", "done"}
  /\ net' = [d \in Ids |-> Nothing]
  /\ ports' = {} /\ freed' = <<>> /\ next' = 2
  /\ store' = [d \in Ids |-> Nothing]
  /\ applied' = {} /\ appliedIP' = [d \in Ids |-> Nothing]
  /\ blurred' = blurred \cup {d \in Ids : up[d] # "new"}
  /\ UNCHANGED <<plan, kernel, up, down>>

Next ==
  \/ \E d \in Ids : SetupForDeploy(d) \/ TeardownNetwork(d) \/ NoPolicy(d) \/ PolicyRemove(d)
  \/ \E d \in Ids : \E p \in Policies[d] : PolicyApply(d, p)
  \/ \E d \in Ids, ok \in BOOLEAN : RunApply(d, ok) \/ RunRemove(d, ok)
  \/ Restart

Spec == Init /\ [][Next]_vars

-----------------------------------------------------------------------------
(* No two networks hold the same address or the same host port, however    *)
(* often addresses go back to the pool and come out of it.                 *)
NetworksDistinct ==
  \A d, e \in Ids :
    d # e /\ net[d] # Nothing /\ net[e] # Nothing =>
      net[d].ip # net[e].ip /\ net[d].ports \cap net[e].ports = {}

(* nft never refuses a script because a jump names a chain that is not     *)
(* there or a deleted chain is still the target of a jump.                 *)
ScriptsAccepted == ~rejected

(* What the enforcer believes installed is in the kernel: the chains and   *)
(* the jumps to them, at the address it was installed for.                 *)
RulesInstalled ==
  \A d \in applied : chain[d] # Nothing /\ <<appliedIP[d], d>> \in forward

(* Once its removal is through, nothing of a deployment that was set up    *)
(* first and met no failing script is left in the kernel.                  *)
RulesRemoved ==
  \A d \in Ids \ blurred : down[d] = "done" => chain[d] = Nothing /\ \A j \in forward : j[2] # d

(* The rules decide on every destination what EvaluateEgress says of the   *)
(* policy: deny before allow before the default.                           *)
FirstMatch(out, a) == out[CHOOSE i \in DOMAIN out :
                            a \in out[i].daddr /\ \A j \in 1 .. i - 1 : a \notin out[j].daddr].verdict
EgressAgrees ==
  \A d \in Ids : chain[d] # Nothing =>
    \A a \in Addrs : FirstMatch(chain[d].out, a) = EvaluateEgress(chain[d].pol, a)

(* A deployment lets in only peers it named and that, when it was applied, *)
(* named it: no other policy alive now lists the address unless both name  *)
(* each other, as long as no address went back to the pool.                *)
ConsentMutual ==
  (\A d \in Ids : down[d] = "idle") /\ blurred = {} =>
    \A d, e \in applied :
      chain[d] # Nothing /\ appliedIP[e] \in chain[d].accept =>
        AllowsPeer(chain[d].pol, e) /\ AllowsPeer(chain[e].pol, d)

NetworksSound ==
  NetworksDistinct /\ ScriptsAccepted /\ RulesInstalled /\ RulesRemoved /\ EgressAgrees /\ ConsentMutual

(* "Only peers that reciprocally allow this deployment may reach it": the  *)
(* addresses a deployment lets in belong to nobody or to such a peer.      *)
OnlyReciprocalPeers ==
  \A d \in applied, e \in Ids :
    e # d /\ net[e] # Nothing /\ chain[d] # Nothing /\ net[e].ip \in chain[d].accept =>
      AllowsPeer(chain[d].pol, e)
=============================================================================
