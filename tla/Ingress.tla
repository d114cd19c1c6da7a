------------------------------ MODULE Ingress ------------------------------
(****************************************************************************)
(* How traffic from outside reaches a container and how a container's       *)
(* traffic leaves (internal/ingress, internal/edge, internal/tunnel,        *)
(* internal/proxy and the daemon's adapters for them).  The parts share no  *)
(* state, so a behaviour exercises one of them:                             *)
(*   routing  the resolver of subdomains over gossip and the chain, the     *)
(*            requests it routes and the health checker beside it           *)
(*   limits   the middleware's buckets, their semaphores and their cleanup  *)
(*   domains  custom domains: proof, cap, expiry, takedown, certificates    *)
(*   records  the DNS records of vanity names                               *)
(*   edges    edge nodes: registry, prober and selector                     *)
(*   egress   the SOCKS5 and HTTP proxies and their session tracker         *)
(*   tunnels  the provider's tunnel server and the ingress nodes' clients   *)
(****************************************************************************)
EXTENDS Integers, Sequences, FiniteSets, FiniteSetsExt

CONSTANTS
  Parts,        \* the parts exercised, one in each behaviour
  Callers,      \* requests, sessions or tunnels in progress
  Ids,          \* deployments, hosts or edge nodes: what a part names
  Limit,        \* a part's capacity: slots, domains, sessions or probe misses
  Lifetime,     \* ticks an entry, a proof or an idle bucket lives
  Registers,    \* whether some caller stamps entries with Resolver.Register
  Nothing,
  MaxCalls,     \* bound: requests made
  MaxTicks,     \* bound: the clock
  MaxFaults     \* bound: changes made and failures met outside the node

VARIABLES
  part,     \* the part exercised
  ing,      \* the state of the part
  call,     \* what each caller is doing
  calls, faults

ingress == <<part, ing, call, calls, faults>>

Idle == [pc |-> "idle", ask |-> Nothing, id |-> Nothing, at |-> 0, arg |-> {}, was |-> {}]

Begin(x, c) ==
  /\ call[x] = Idle
  /\ calls < MaxCalls
  /\ calls' = calls + 1
  /\ call' = [call EXCEPT ![x] = c]

Goes(x, pc) == call' = [call EXCEPT ![x].pc = pc]
Ends(x) == call' = [call EXCEPT ![x] = Idle]
Fault == faults < MaxFaults /\ faults' = faults + 1

Tick ==
  /\ ing.now < MaxTicks
  /\ ing' = [ing EXCEPT !.now = @ + 1]
  /\ UNCHANGED <<call, calls, faults>>

-----------------------------------------------------------------------------
(* Routing.  services[d] is the LastSeen of the entry for deployment d, 0   *)
(* for the zero time or no entry; one of d's ports has the entry, whichever *)
(* the map's order left there last.  exposed is what gossip advertises.     *)
(* There is one vanity name, mapped by the local gossip state (name) and by *)
(* the registry contract (owner), with the adapter's cache of what the      *)
(* contract said.  leased[d] is the last tick at which the name, on either  *)
(* side, denoted d.  A call's was holds the deployments exposed in gossip   *)
(* from its start until now.                                                *)
NoAnswer == [found |-> FALSE, id |-> Nothing, at |-> -1]
Fresh(d) == ing.services[d] > 0 /\ ing.now - ing.services[d] < Lifetime

NewResolver ==
  [now |-> 1, services |-> [d \in Ids |-> 0], exposed |-> {},
   name |-> Nothing, owner |-> Nothing, cache |-> NoAnswer, leased |-> [d \in Ids |-> 0], down |-> FALSE]

Running == ~ing.down

(* publishServiceExposure leaves LastSeen at its zero value, and no other   *)
(* code of the daemon sets it.                                              *)
publishServiceExposure(d) ==
  /\ Fault
  /\ d \notin ing.exposed
  /\ ing' = [ing EXCEPT !.exposed = @ \cup {d}]
  /\ UNCHANGED <<call, calls>>

removeServiceExposure(d) ==
  /\ Fault
  /\ d \in ing.exposed
  /\ ing' = [ing EXCEPT !.exposed = @ \ {d}]
  /\ call' = [x \in Callers |-> [call[x] EXCEPT !.was = @ \ {d}]]
  /\ UNCHANGED calls

Register(d) ==
  /\ Registers
  /\ Fault
  /\ ing' = [ing EXCEPT !.services[d] = ing.now]
  /\ UNCHANGED <<call, calls>>

Unregister(d) ==
  /\ Registers
  /\ Fault
  /\ ing.services[d] > 0
  /\ ing' = [ing EXCEPT !.services[d] = 0]
  /\ UNCHANGED <<call, calls>>

Named(r) == [d \in Ids |-> IF d \in {r.name, r.owner} THEN r.now ELSE r.leased[d]]

(* The daemon's subdomain handlers write the gossip state of this node; the *)
(* registry contract changes without it, and the cache entry with neither.  *)
NameMoves(d, local) ==
  /\ Fault
  /\ LET r == IF local THEN [ing EXCEPT !.name = d] ELSE [ing EXCEPT !.owner = d]
     IN ing' = [r EXCEPT !.leased = Named(r)]
  /\ UNCHANGED <<call, calls>>

InvalidateSubdomainCache ==
  /\ Fault
  /\ ing.cache # NoAnswer
  /\ ing' = [ing EXCEPT !.cache = NoAnswer]
  /\ UNCHANGED <<call, calls>>

TickNames ==
  /\ ing.now < MaxTicks
  /\ LET r == [ing EXCEPT !.now = @ + 1] IN ing' = [r EXCEPT !.leased = Named(r)]
  /\ UNCHANGED <<call, calls, faults>>

(* What a request may ask for: a full deployment ID, a prefix that the IDs  *)
(* of like share, the vanity name, or a label in front of the name.         *)
Asked ==
  {[kind |-> "id", like |-> {d}] : d \in Ids}
  \cup {[kind |-> "prefix", like |-> ds] : ds \in SUBSET Ids \ {{}}}
  \cup {[kind |-> k, like |-> {}] : k \in {"name", "label"}}

dispatchRequest(x, q) ==
  /\ Begin(x, [Idle EXCEPT !.pc = "exact", !.ask = q,
                     !.was = ing.exposed])
  /\ UNCHANGED <<ing, faults>>

Stage ==
  [exact |-> "prefix", prefix |-> "vanity", vanity |-> "refresh", held |-> "refresh",
   refresh |-> "prefix2", merge |-> "prefix2", prefix2 |-> "vanity2", vanity2 |-> "chain",
   held2 |-> "chain", chain |-> "missed", rpc |-> "missed", find |-> "missed"]

Missed(x) == call' = [call EXCEPT ![x].pc = Stage[@]]

Finds(x, d) ==
  call' = [call EXCEPT ![x].pc = "open", ![x].id = d]

(* The entry of d if it is fresh, else the next stage. *)
Look(x, d) == IF Fresh(d) THEN Finds(x, d) ELSE Missed(x)

resolveExact(x) ==
  /\ call[x].pc = "exact"
  /\ LET q == call[x].ask
     IN IF q.kind = "id" THEN \E d \in q.like : Look(x, d) ELSE Missed(x)
  /\ UNCHANGED <<ing, calls, faults>>

(* The map's order is the runtime's: any fresh entry with the prefix. *)
resolveByPrefix(x) ==
  /\ call[x].pc \in {"prefix", "prefix2"}
  /\ LET q == call[x].ask
         hits == IF q.kind = "prefix" THEN {d \in q.like : Fresh(d)} ELSE {}
     IN IF hits = {} THEN Missed(x) ELSE \E d \in hits : Finds(x, d)
  /\ UNCHANGED <<ing, calls, faults>>

(* ResolveVanityName under gossip's lock, the lookup under the resolver's. *)
resolveVanity(x) ==
  /\ \/ /\ call[x].pc \in {"vanity", "vanity2"}
        /\ IF call[x].ask.kind = "name" /\ ing.name # Nothing
           THEN call' = [call EXCEPT ![x].pc = IF @ = "vanity" THEN "held" ELSE "held2",
                                     ![x].id = ing.name, ![x].at = ing.now]
           ELSE Missed(x)
     \/ /\ call[x].pc \in {"held", "held2"}
        /\ Look(x, call[x].id)
  /\ UNCHANGED <<ing, calls, faults>>

(* The gossip state is read, then its entries, never stamped, replace the   *)
(* ones of the same deployments: one gossip no longer has stays as it was.  *)
refreshFromGossip(x) ==
  /\ \/ /\ call[x].pc = "refresh"
        /\ call' = [call EXCEPT ![x].pc = "merge", ![x].arg = ing.exposed]
        /\ UNCHANGED ing
     \/ /\ call[x].pc = "merge"
        /\ ing' = [ing EXCEPT !.services =
             [d \in Ids |-> IF d \in call[x].arg THEN 0 ELSE @[d]]]
        /\ call' = [call EXCEPT ![x].pc = Stage[@], ![x].arg = {}]
  /\ UNCHANGED <<calls, faults>>

(* Mutant: a positive answer is kept for ever. *)
CacheForGood(c) == c.found \/ ing.now - c.at < Lifetime \div 2

(* The cached answer for its time to live, half of it when it was negative; *)
(* else the contract's, kept under the time read before it was asked.       *)
CacheLives(c) == ing.now - c.at < IF c.found THEN Lifetime ELSE Lifetime \div 2

ResolveOnChain(x) ==
  /\ \/ /\ call[x].pc = "chain"
        /\ LET c == ing.cache
           IN CASE call[x].ask.kind # "name" -> Missed(x)
                [] c.at >= 0 /\ CacheLives(c) ->
                     IF c.found THEN call' = [call EXCEPT ![x].pc = "find", ![x].id = c.id, ![x].at = ing.now]
                     ELSE Missed(x)
                [] OTHER -> call' = [call EXCEPT ![x].pc = "rpc", ![x].at = ing.now]
        /\ UNCHANGED <<ing, faults>>
     \/ /\ call[x].pc = "rpc"
        /\ \E ok \in BOOLEAN :
             /\ IF ok THEN UNCHANGED faults ELSE Fault
             /\ IF ok /\ ing.owner # Nothing
                THEN /\ ing' = [ing EXCEPT !.cache = [found |-> TRUE, id |-> ing.owner,
                                                      at |-> call[x].at]]
                     /\ call' = [call EXCEPT ![x].pc = "find", ![x].id = ing.owner]
                ELSE /\ ing' = [ing EXCEPT !.cache = [NoAnswer EXCEPT !.at = call[x].at]]
                     /\ Missed(x)
     \/ /\ call[x].pc = "find"
        /\ Look(x, call[x].id)
        /\ UNCHANGED <<ing, faults>>
  /\ UNCHANGED calls

(* One label in front of a name is taken off, once. *)
HasParent(q) == q.kind = "label"

(* Then the reverse tunnel is tried, and serves the request or not.         *)
resolveFails(x) ==
  /\ call[x].pc = "missed"
  /\ IF HasParent(call[x].ask)
     THEN call' = [call EXCEPT ![x].pc = "exact", ![x].ask.kind = "name"]
     ELSE \E pc \in {"reverse", "notfound"} : Goes(x, pc)
  /\ UNCHANGED <<ing, calls, faults>>

(* The tunnel opens or the client gets 502. *)
openService(x) ==
  /\ call[x].pc = "open"
  /\ \E pc \in {"serve", "badgateway"} : Goes(x, pc)
  /\ UNCHANGED <<ing, calls, faults>>

responds(x) ==
  /\ call[x].pc \in {"serve", "badgateway", "reverse", "notfound"}
  /\ Ends(x)
  /\ UNCHANGED <<ing, calls, faults>>

(* The health checker copies the services map under its own lock, not the   *)
(* resolver's: when the copy meets a merge the runtime may stop the node.   *)
checkAll ==
  /\ \E x \in Callers : call[x].pc = "merge"
  /\ ing' = [NewResolver EXCEPT !.down = TRUE]
  /\ call' = [x \in Callers |-> Idle]
  /\ calls' = MaxCalls
  /\ faults' = MaxFaults

Routing ==
  /\ Running
  /\ \/ TickNames \/ checkAll \/ InvalidateSubdomainCache
     \/ \E d \in Ids :
          \/ publishServiceExposure(d) \/ removeServiceExposure(d)
          \/ Register(d) \/ Unregister(d)
     \/ \E d \in Ids \cup {Nothing}, local \in BOOLEAN : NameMoves(d, local)
     \/ \E x \in Callers :
          \/ \E q \in Asked : dispatchRequest(x, q)
          \/ resolveExact(x) \/ resolveByPrefix(x) \/ resolveVanity(x)
          \/ refreshFromGossip(x) \/ ResolveOnChain(x)
          \/ resolveFails(x) \/ openService(x) \/ responds(x)

(* A request is sent only to the deployment its host denotes: the one whose *)
(* ID it gives or begins, or one the name denoted, in gossip or on chain,   *)
(* within the cache's time to live before the mapping was read.             *)
RoutesToOwner ==
  \A x \in Callers :
    call[x].pc \in {"open", "serve"} =>
      LET c == call[x] IN
        IF c.ask.kind = "name" THEN ing.leased[c.id] > c.at - Lifetime /\ ing.leased[c.id] > 0
        ELSE c.id \in c.ask.like

(* A request for a prefix of a deployment's ID that was exposed in gossip   *)
(* from before the request until now is not answered "service not found".   *)
ExposedServicesResolve ==
  part = "routing" =>
    \A x \in Callers :
      call[x].pc = "missed" /\ call[x].ask.kind = "prefix" => call[x].was \cap call[x].ask.like = {}

-----------------------------------------------------------------------------
(* Limits.  One tenant.  Buckets are numbered in the order they are made;   *)
(* cur is the one the map holds, 0 when none.  slots[b] is the fill of b's  *)
(* semaphore and seen[b] its lastSeen.  sweep is the bucket that cleanup    *)
(* has found stale and idle and is about to delete.  evicted holds the      *)
(* buckets deleted while some request held them or was about to.            *)
Buckets == 1 .. MaxCalls + 1

NewIngressRateLimiter ==
  [now |-> 1, made |-> 0, cur |-> 0, slots |-> [b \in Buckets |-> 0],
   seen |-> [b \in Buckets |-> 0], sweep |-> 0, evicted |-> {}]

(* A plain request passes the middleware and is dispatched under it; a      *)
(* WebSocket upgrade is dispatched, its tunnel opened, and then gated.      *)
Wrap(x, web) ==
  /\ Begin(x, [Idle EXCEPT !.pc = IF web THEN "tunnel" ELSE "rate", !.ask = web])
  /\ UNCHANGED <<ing, faults>>

upgrade(x) ==
  /\ call[x].pc = "tunnel"
  /\ \/ Goes(x, "rate")
     \/ Ends(x)
  /\ UNCHANGED <<ing, calls, faults>>

(* bucketFor loads the tenant's bucket and then marks it seen under its own *)
(* lock; when there is none it makes one unless another request did.        *)
bucketFor(x) ==
  /\ call[x].pc \in {"rate", "slot"}
  /\ LET pcs == IF ing.cur = 0 THEN <<"newRate", "newSlot">> ELSE <<"seenRate", "seenSlot">>
     IN call' = [call EXCEPT ![x].pc = IF @ = "rate" THEN pcs[1] ELSE pcs[2], ![x].at = ing.cur]
  /\ UNCHANGED <<ing, calls, faults>>

LoadOrStore(x) ==
  /\ call[x].pc \in {"newRate", "newSlot"}
  /\ LET b == IF ing.cur = 0 THEN ing.made + 1 ELSE ing.cur
     IN /\ b \in Buckets
        /\ ing' = IF ing.cur # 0 THEN ing
                  ELSE [ing EXCEPT !.made = b, !.cur = b, !.seen[b] = ing.now]
        /\ call' = [call EXCEPT ![x].pc = IF @ = "newRate" THEN "allow" ELSE "acquire",
                                ![x].at = b]
  /\ UNCHANGED <<calls, faults>>

touched(x) ==
  /\ call[x].pc \in {"seenRate", "seenSlot"}
  /\ ing' = [ing EXCEPT !.seen[call[x].at] = ing.now]
  /\ call' = [call EXCEPT ![x].pc = IF @ = "seenRate" THEN "allow" ELSE "acquire"]
  /\ UNCHANGED <<calls, faults>>

(* The token bucket is the library's: it allows the request or 429. *)
Allow(x) ==
  /\ call[x].pc = "allow"
  /\ \/ call' = [call EXCEPT ![x].pc = "slot", ![x].at = 0]
     \/ Ends(x)
  /\ UNCHANGED <<ing, calls, faults>>

AcquireConcurrency(x) ==
  /\ call[x].pc = "acquire"
  /\ LET b == call[x].at
     IN IF ing.slots[b] < Limit
        THEN /\ ing' = [ing EXCEPT !.slots[b] = @ + 1]
             /\ Goes(x, IF call[x].ask THEN "dispatch" ELSE "body")
        ELSE Ends(x) /\ UNCHANGED ing
  /\ UNCHANGED <<calls, faults>>

Holding == {"body", "inspect", "dispatch"}

(* Mutant: the release is not deferred past the firewall's block. *)
ReleasedNot(x) ==
  /\ ing' = IF call[x].pc = "inspect" THEN ing ELSE [ing EXCEPT !.slots[call[x].at] = @ - 1]
  /\ Ends(x)

(* release, deferred: the slot goes back to the bucket it came from. *)
Released(x) ==
  /\ ing' = [ing EXCEPT !.slots[call[x].at] = @ - 1]
  /\ Ends(x)

(* The body over its cap (413) or unreadable (400), a request the firewall  *)
(* blocks (403; a firewall error lets it through), or the dispatch's end.   *)
serve(x) ==
  /\ \/ call[x].pc = "body" /\ Goes(x, "inspect") /\ UNCHANGED ing
     \/ call[x].pc = "inspect" /\ Goes(x, "dispatch") /\ UNCHANGED ing
     \/ call[x].pc \in Holding /\ Released(x)
  /\ UNCHANGED <<calls, faults>>

(* cleanup reads a bucket under its lock and deletes its key afterwards. *)
cleanup ==
  /\ \/ /\ ing.sweep = 0
        /\ ing.cur # 0
        /\ ing.slots[ing.cur] = 0
        /\ ing.now - ing.seen[ing.cur] >= Lifetime
        /\ ing' = [ing EXCEPT !.sweep = ing.cur]
     \/ /\ ing.sweep # 0
        /\ ing' = [ing EXCEPT !.sweep = 0, !.cur = 0,
             !.evicted = IF \E x \in Callers : call[x].at = ing.sweep THEN @ \cup {ing.sweep}
                         ELSE @]
  /\ UNCHANGED <<call, calls, faults>>

Limits ==
  \/ Tick \/ cleanup
  \/ \E x \in Callers :
       \/ \E web \in BOOLEAN : Wrap(x, web)
       \/ upgrade(x) \/ bucketFor(x) \/ LoadOrStore(x) \/ touched(x)
       \/ Allow(x) \/ AcquireConcurrency(x) \/ serve(x)

(* A bucket's semaphore counts the requests that hold one of its slots, so  *)
(* a release never blocks and no slot is lost; and no more requests of the  *)
(* tenant are in progress than its cap, save when cleanup deleted a bucket  *)
(* that a request had loaded since it was found idle.                       *)
BucketsSound ==
  LET held(b) == {x \in Callers : call[x].pc \in Holding /\ call[x].at = b}
  IN /\ \A b \in Buckets : ing.slots[b] = Cardinality(held(b))
     /\ Cardinality({x \in Callers : call[x].pc \in Holding}) <= Limit \/ ing.evicted # {}

-----------------------------------------------------------------------------
(* Custom domains.  zone[h] is the deployment whose token the owner of host *)
(* h has published, 0 for none; shown collects what was ever published.  A  *)
(* record maps a host to a deployment until exp.  blocked is the takedown   *)
(* list, of hosts and deployments; a call's was is the part of it in force  *)
(* from the call's start until now.                                         *)
Deployments == {1, 2}
NoDomain == [dep |-> 0, exp |-> 0]

NewDomainOwnershipStore ==
  [now |-> 1, zone |-> [h \in Ids |-> 0], shown |-> {}, blocked |-> {},
   domains |-> [h \in Ids |-> NoDomain]]

expired(h) == ing.now > ing.domains[h].exp
LookupByHost(h) == ing.domains[h].dep # 0 /\ ~expired(h)
isBlocked(h, d) == {<<"host", h>>, <<"id", d>>} \cap ing.blocked # {}

(* The DNS lookup finds the token of the host and the deployment. *)
Verify(h, d) == ing.zone[h] = d

(* Mutant: a mapping of the host to another deployment counts as a refresh. *)
StoreIfMapped(h, d) ==
  LET mine == {g \in Ids : ing.domains[g].dep = d /\ ~expired(g)}
  IN IF LookupByHost(h) \/ Cardinality(mine) < Limit
     THEN [ing EXCEPT !.domains[h] = [dep |-> d, exp |-> ing.now + Lifetime]]
     ELSE ing

(* A refresh of an unexpired mapping is free, another host counts. *)
StoreIfUnderCap(h, d) ==
  LET mine == {g \in Ids : ing.domains[g].dep = d /\ ~expired(g)}
  IN IF h \in mine \/ Cardinality(mine) < Limit
     THEN [ing EXCEPT !.domains[h] = [dep |-> d, exp |-> ing.now + Lifetime]]
     ELSE ing

ZoneChanges(h, d) ==
  /\ Fault
  /\ ing' = [ing EXCEPT !.zone[h] = d, !.shown = @ \cup {<<h, d>>}]
  /\ UNCHANGED <<call, calls>>

(* The DNS lookup (422 when it fails or shows another token), then          *)
(* StoreIfUnderCap under the store's lock (409 at the cap).                 *)
handleVerify(x) ==
  /\ \/ \E h \in Ids, d \in Deployments :
          /\ Begin(x, [Idle EXCEPT !.pc = "lookup", !.id = h, !.at = d])
          /\ UNCHANGED ing
     \/ /\ call[x].pc = "lookup"
        /\ \/ Verify(call[x].id, call[x].at) /\ Goes(x, "store")
           \/ Ends(x)
        /\ UNCHANGED <<ing, calls>>
     \/ /\ call[x].pc = "store"
        /\ ing' = StoreIfUnderCap(call[x].id, call[x].at)
        /\ Ends(x)
        /\ UNCHANGED calls
  /\ UNCHANGED faults

Remove(h) ==
  /\ Fault
  /\ ing.domains[h] # NoDomain
  /\ ing' = [ing EXCEPT !.domains[h] = NoDomain]
  /\ UNCHANGED <<call, calls>>

Block(t) ==
  /\ Fault
  /\ t \notin ing.blocked
  /\ ing' = [ing EXCEPT !.blocked = @ \cup {t}]
  /\ UNCHANGED <<call, calls>>

Unblock(t) ==
  /\ Fault
  /\ t \in ing.blocked
  /\ ing' = [ing EXCEPT !.blocked = @ \ {t}]
  /\ call' = [x \in Callers |-> [call[x] EXCEPT !.was = @ \ {t}]]
  /\ UNCHANGED calls

(* A request for a custom host: its deployment (400 without one), then the  *)
(* takedown list (403), then the dispatch.                                  *)
handleRequest(x) ==
  /\ \/ \E h \in Ids :
          Begin(x, [Idle EXCEPT !.pc = "host", !.id = h, !.was = ing.blocked])
     \/ /\ call[x].pc = "host"
        /\ IF ~LookupByHost(call[x].id) THEN Ends(x)
           ELSE call' = [call EXCEPT ![x].pc = "blocklist",
                                     ![x].at = ing.domains[call[x].id].dep]
        /\ UNCHANGED calls
     \/ /\ call[x].pc = "blocklist"
        /\ IF isBlocked(call[x].id, call[x].at) THEN Ends(x) ELSE Goes(x, "forward")
        /\ UNCHANGED calls
     \/ call[x].pc = "forward" /\ Ends(x) /\ UNCHANGED calls
  /\ UNCHANGED <<ing, faults>>

(* A certificate is asked for during a handshake for the host. *)
hostPolicy(x) ==
  /\ \E h \in Ids :
       /\ LookupByHost(h)
       /\ Begin(x, [Idle EXCEPT !.pc = "certified", !.id = h, !.at = ing.domains[h].dep])
  /\ UNCHANGED <<ing, faults>>

issued(x) ==
  /\ call[x].pc = "certified"
  /\ Ends(x)
  /\ UNCHANGED <<ing, calls, faults>>

Domains ==
  \/ Tick
  \/ \E h \in Ids : Remove(h) \/ \E d \in Deployments \cup {0} : ZoneChanges(h, d)
  \/ \E t \in {<<"host", h>> : h \in Ids} \cup {<<"id", d>> : d \in Deployments} :
       Block(t) \/ Unblock(t)
  \/ \E x \in Callers : handleVerify(x) \/ handleRequest(x) \/ hostPolicy(x) \/ issued(x)

(* A deployment never has more unexpired custom hosts than its cap, however *)
(* its verifications interleave; a host is routed or certified only for a   *)
(* deployment its own zone named; and no request is forwarded for a host,   *)
(* or by a host to a deployment, that was taken down before the request     *)
(* came and stayed so.                                                      *)
DomainsSound ==
  /\ \A d \in Deployments :
       Cardinality({h \in Ids : ing.domains[h].dep = d /\ ~expired(h)}) <= Limit
  /\ \A x \in Callers :
       /\ call[x].pc \in {"forward", "certified"} => <<call[x].id, call[x].at>> \in ing.shown
       /\ call[x].pc = "forward" =>
            {<<"host", call[x].id>>, <<"id", call[x].at>>} \cap call[x].was = {}

-----------------------------------------------------------------------------
(* DNS records of one vanity name.  The daemon starts a job after each      *)
(* change of the name and waits for none.  records holds the IDs of its A   *)
(* records; a call's was is the list it read, and ask tells whether no      *)
(* other job has run since it began.  doubled: two creations overlapped.    *)
NewDNSSync == [records |-> {}, made |-> 0, doubled |-> FALSE]

Job(x, pc) ==
  /\ call[x] = Idle /\ calls < MaxCalls /\ calls' = calls + 1
  /\ call' = [y \in Callers |->
       IF y = x THEN [Idle EXCEPT !.pc = pc, !.ask = \A z \in Callers : call[z] = Idle]
       ELSE IF call[y] = Idle THEN Idle ELSE [call[y] EXCEPT !.ask = FALSE]]

(* Mutant: the record is created without a look at what is there. *)
CreateBlindly(x) ==
  /\ \/ Job(x, "create") /\ UNCHANGED <<ing, faults>>
     \/ /\ call[x].pc = "create"
        /\ ing' = [ing EXCEPT !.made = @ + 1, !.records = @ \cup {ing.made + 1}]
        /\ Ends(x)
        /\ UNCHANGED <<calls, faults>>

(* List, then create unless a record is there; the answer may be lost. *)
CreateRecord(x) ==
  /\ \/ /\ Job(x, "listNew")
        /\ ing' = [ing EXCEPT !.doubled = @ \/ \E y \in Callers : call[y].pc \in {"listNew", "create"}]
        /\ UNCHANGED faults
     \/ /\ call[x].pc = "listNew"
        /\ \/ Goes(x, "create") /\ ing.records = {} /\ UNCHANGED faults
           \/ Ends(x) /\ ing.records # {} /\ UNCHANGED faults
           \/ Ends(x) /\ Fault
        /\ UNCHANGED <<ing, calls>>
     \/ /\ call[x].pc = "create"
        /\ \/ /\ ing' = [ing EXCEPT !.made = @ + 1, !.records = @ \cup {ing.made + 1}]
              /\ UNCHANGED faults
           \/ Fault /\ UNCHANGED ing
        /\ Ends(x)
        /\ UNCHANGED calls

(* List, then delete each record listed, stopping at the first failure. *)
DeleteRecord(x) ==
  /\ \/ Job(x, "listOld") /\ UNCHANGED <<ing, faults>>
     \/ /\ call[x].pc = "listOld"
        /\ \/ call' = [call EXCEPT ![x].pc = "delete", ![x].was = ing.records] /\ UNCHANGED faults
           \/ Ends(x) /\ Fault
        /\ UNCHANGED <<ing, calls>>
     \/ /\ call[x].pc = "delete" /\ call[x].was # {}
        /\ \/ \E r \in call[x].was :
                /\ ing' = [ing EXCEPT !.records = @ \ {r}]
                /\ call' = [call EXCEPT ![x].was = @ \ {r}]
                /\ UNCHANGED faults
           \/ Ends(x) /\ Fault /\ UNCHANGED ing
        /\ UNCHANGED calls
     \/ /\ call[x].pc = "delete" /\ call[x].was = {}
        /\ Goes(x, "deleted")
        /\ UNCHANGED <<ing, calls, faults>>
     \/ call[x].pc = "deleted" /\ Ends(x) /\ UNCHANGED <<ing, calls, faults>>

Records == \E x \in Callers : CreateRecord(x) \/ DeleteRecord(x)

(* A name has two records only if two creations of it overlapped; and a     *)
(* deletion that reports success leaves none, unless another job of the     *)
(* name ran beside it.                                                      *)
RecordsSound ==
  /\ Cardinality(ing.records) > 1 => ing.doubled
  /\ \A x \in Callers : call[x].pc = "deleted" /\ call[x].ask => ing.records = {}

-----------------------------------------------------------------------------
(* Edge nodes.  Registered nodes with their health; the prober's misses,    *)
(* kept for a node that left; the selector's connection counts.  turn is    *)
(* the node being probed, Nothing between probes.  left: nodes removed at   *)
(* some time.                                                               *)
NewEdgeRegistry ==
  [nodes |-> {}, healthy |-> {}, misses |-> [n \in Ids |-> 0], conns |-> [n \in Ids |-> 0],
   todo |-> {}, left |-> {}]

RegisterEdge(n) ==
  /\ Fault
  /\ ing' = [ing EXCEPT !.nodes = @ \cup {n}, !.healthy = @ \cup {n}]
  /\ UNCHANGED <<call, calls>>

(* Unregister under the registry's lock, the count under the selector's. *)
RemoveEdge(x) ==
  /\ \/ \E n \in ing.nodes :
          /\ Begin(x, [Idle EXCEPT !.pc = "remove", !.id = n])
          /\ ing' = [ing EXCEPT !.nodes = @ \ {n}, !.healthy = @ \ {n}, !.left = @ \cup {n}]
     \/ /\ call[x].pc = "remove"
        /\ ing' = [ing EXCEPT !.conns[call[x].id] = 0]
        /\ Ends(x)
        /\ UNCHANGED calls
  /\ UNCHANGED faults

(* The nodes are listed once; then each is dialled and its health updated.  *)
probeAll ==
  /\ ing.todo = {} /\ ing.nodes # {}
  /\ ing' = [ing EXCEPT !.todo = ing.nodes]
  /\ UNCHANGED <<call, calls, faults>>

probeOne(n) ==
  /\ n \in ing.todo
  /\ \E ok \in BOOLEAN :
       LET m == IF ok THEN 0 ELSE ing.misses[n] + 1
           h == IF ok THEN ing.healthy \cup {n}
                ELSE IF m >= Limit THEN ing.healthy \ {n} ELSE ing.healthy
       IN /\ IF ok THEN UNCHANGED faults ELSE Fault
          /\ ing' = [ing EXCEPT !.todo = @ \ {n}, !.misses[n] = m,
                                !.healthy = h \cap ing.nodes]
  /\ UNCHANGED <<call, calls>>

(* Mutant: a removed node's tunnels are released below zero on the next one. *)
ReleaseTwice(x) ==
  /\ call[x].pc = "edge"
  /\ ing' = [ing EXCEPT !.conns[call[x].id] = 0]
  /\ Ends(x)
  /\ UNCHANGED <<calls, faults>>

(* The healthy nodes are listed; then the least loaded of them is taken,    *)
(* ties broken by a cursor over an unordered list.                          *)
SelectEdge(x) ==
  /\ \/ /\ ing.healthy # {}
        /\ Begin(x, [Idle EXCEPT !.pc = "select", !.was = ing.healthy])
        /\ UNCHANGED ing
     \/ /\ call[x].pc = "select"
        /\ \E n \in call[x].was :
             /\ \A m \in call[x].was : ing.conns[n] <= ing.conns[m]
             /\ ing' = [ing EXCEPT !.conns[n] = @ + 1]
             /\ call' = [call EXCEPT ![x] = [Idle EXCEPT !.pc = "edge", !.id = n]]
        /\ UNCHANGED calls
  /\ UNCHANGED faults

Release(x) ==
  /\ call[x].pc = "edge"
  /\ ing' = [ing EXCEPT !.conns[call[x].id] = IF @ > 0 THEN @ - 1 ELSE 0]
  /\ Ends(x)
  /\ UNCHANGED <<calls, faults>>

Edges ==
  \/ probeAll
  \/ \E n \in Ids : RegisterEdge(n) \/ probeOne(n)
  \/ \E x \in Callers : RemoveEdge(x) \/ SelectEdge(x) \/ Release(x)

(* A node's count never exceeds the tunnels open to it, and equals them if  *)
(* the node never left; and a registered node is out of rotation only after *)
(* as many probes in a row as the threshold found nobody there.             *)
EdgesSound ==
  /\ \A n \in Ids :
       LET open == Cardinality({x \in Callers : call[x].pc = "edge" /\ call[x].id = n})
       IN ing.conns[n] <= open /\ (n \notin ing.left => ing.conns[n] = open)
  /\ \A n \in ing.nodes \ ing.healthy : ing.misses[n] >= Limit

-----------------------------------------------------------------------------
(* Egress.  listener is the SOCKS5 listener: Start makes the server in      *)
(* "starting" and a goroutine opens it; cut: the servers' context is        *)
(* cancelled; stop: what Stop has done.  tracked is the session tracker;    *)
(* deleted the sessions a client removed from it over REST.  moved counts   *)
(* the bytes of finished sessions and usage what was recorded for billing.  *)
(* The proxy is started once, by main.                                      *)
NewServer ==
  [listener |-> "none", cut |-> FALSE, stop |-> "no", tracked |-> {}, deleted |-> {},
   denied |-> FALSE, usage |-> [in |-> 0, out |-> 0], moved |-> 0, early |-> FALSE]

Start ==
  /\ ing.listener = "none"
  /\ ing' = [ing EXCEPT !.listener = "starting"]
  /\ UNCHANGED <<call, calls, faults>>

(* A listener that cannot be opened makes Start call Stop. *)
ListenAndServe ==
  /\ ing.listener = "starting"
  /\ \/ ing' = [ing EXCEPT !.listener = "open"] /\ UNCHANGED faults
     \/ /\ Fault
        /\ ing' = [ing EXCEPT !.listener = "closed", !.cut = TRUE,
                              !.stop = IF @ = "no" THEN "begun" ELSE @]
  /\ UNCHANGED <<call, calls>>

(* Close cancels, closes the listener if the goroutine has set it, and      *)
(* waits for the SOCKS5 handlers; hijacked HTTP sessions are not waited     *)
(* for.                                                                     *)
Stop ==
  /\ \/ /\ ing.stop = "no" /\ ing.listener # "none"
        /\ ing' = [ing EXCEPT !.stop = "begun", !.cut = TRUE,
                              !.early = ing.listener = "starting",
                              !.listener = IF @ = "open" THEN "closed" ELSE @]
     \/ /\ ing.stop = "begun"
        /\ \A x \in Callers : call[x].ask # "socks5"
        /\ ing' = [ing EXCEPT !.stop = "done"]
  /\ UNCHANGED <<call, calls, faults>>

AddToBlocklist ==
  /\ Fault
  /\ ing' = [ing EXCEPT !.denied = ~@]
  /\ UNCHANGED <<call, calls>>

IsAllowed == ~ing.denied

(* A connection is accepted and its handshake read.  The HTTP listener is   *)
(* open from Start until Stop.                                              *)
accept(x, kind) ==
  /\ IF kind = "socks5" THEN ing.listener = "open"
     ELSE ing.listener # "none" /\ ing.stop = "no"
  /\ Begin(x, [Idle EXCEPT !.pc = "request", !.ask = kind])
  /\ UNCHANGED <<ing, faults>>

Add(x) == IF Cardinality(ing.tracked) < Limit THEN [ing EXCEPT !.tracked = @ \cup {x}] ELSE ing

(* Greeting, request and ACL; then the tracker, full or not.  A handshake   *)
(* that fails or a target the ACL denies ends the session.                  *)
handleConnection(x) ==
  /\ \/ call[x].pc = "request" /\ IsAllowed /\ Goes(x, "add") /\ UNCHANGED ing
     \/ call[x].pc = "request" /\ Ends(x) /\ UNCHANGED ing
     \/ /\ call[x].pc = "add"
        /\ ing' = Add(x)
        /\ IF ing' = ing THEN Ends(x) ELSE Goes(x, "dial")
  /\ UNCHANGED <<calls, faults>>

(* Mutant: the session stays tracked when its dial fails. *)
UntrackedRelay(x) == IF call[x].pc = "dial" THEN ing ELSE [ing EXCEPT !.tracked = @ \ {x}, !.deleted = @ \ {x}]

(* The deferred Remove, whether or not the session is still tracked. *)
Untracked(x) == [ing EXCEPT !.tracked = @ \ {x}, !.deleted = @ \ {x}]

(* A cancelled context fails the dial. *)
DialContext(x) ==
  /\ call[x].pc = "dial"
  /\ \/ ~ing.cut /\ Goes(x, "relay") /\ UNCHANGED <<ing, faults>>
     \/ /\ IF ing.cut THEN UNCHANGED faults ELSE Fault
        /\ ing' = Untracked(x)
        /\ Ends(x)
  /\ UNCHANGED calls

(* relay ends when either copy does or the context is cancelled.  Bytes in  *)
(* both directions are reads of a metered connection, so both are counted   *)
(* as read; a forwarded HTTP request counts its body and its response.      *)
relay(x, up, down) ==
  /\ call[x].pc = "relay"
  /\ LET n == IF call[x].ask = "forward" THEN [in |-> up, out |-> down]
              ELSE [in |-> up + down, out |-> 0]
     IN ing' = [Untracked(x) EXCEPT
                  !.moved = @ + up + down,
                  !.usage = [in |-> @.in + n.in, out |-> @.out + n.out]]
  /\ Ends(x)
  /\ UNCHANGED <<calls, faults>>

handleSessionByID(x) ==
  /\ Fault
  /\ x \in ing.tracked
  /\ ing' = [ing EXCEPT !.tracked = @ \ {x}, !.deleted = @ \cup {x}]
  /\ UNCHANGED <<call, calls>>

Egress ==
  \/ Start \/ ListenAndServe \/ Stop \/ AddToBlocklist
  \/ \E x \in Callers :
       \/ \E kind \in {"socks5", "connect", "forward"} : accept(x, kind)
       \/ handleConnection(x) \/ DialContext(x) \/ handleSessionByID(x)
       \/ \E up, down \in 0 .. 1 : relay(x, up, down)

(* The tracker holds exactly the sessions that dial or relay, save those a  *)
(* client deleted, and no more than its limit; every byte a finished        *)
(* session relayed is recorded once; and when Stop has returned no SOCKS5   *)
(* session is left and its listener is closed, unless Stop overtook the     *)
(* goroutine that opens it.                                                 *)
EgressSound ==
  LET live == {x \in Callers : call[x].pc \in {"dial", "relay"}}
  IN /\ ing.tracked = live \ ing.deleted
     /\ Cardinality(ing.tracked) <= Limit
     /\ ing.usage.in + ing.usage.out = ing.moved
     /\ ing.stop = "done" /\ ~ing.early =>
          ing.listener # "open" /\ \A x \in live : call[x].ask # "socks5"

-----------------------------------------------------------------------------
(* Tunnels.  Each ingress node numbers the tunnels it opens from its own    *)
(* counter; the provider's server tracks them in one map by that number.    *)
(* hosted: the deployment has a network with the port; up: its container    *)
(* accepts connections; dialled: the handlers with a connection to it;      *)
(* told: the clients that were sent TUNNEL_READY.                           *)
Nodes == {1, 2}

NewTunnelServer ==
  [counter |-> [n \in Nodes |-> 0], active |-> [i \in 1 .. MaxCalls |-> Nothing],
   hosted |-> TRUE, up |-> TRUE, dialled |-> {}, told |-> {}, closed |-> FALSE]

ContainerChanges ==
  /\ Fault
  /\ \/ ing' = [ing EXCEPT !.hosted = ~@]
     \/ ing' = [ing EXCEPT !.up = ~@]
  /\ UNCHANGED <<call, calls>>

OpenTunnel(x, n) ==
  /\ ~ing.closed
  /\ Begin(x, [Idle EXCEPT !.pc = "open", !.ask = n, !.at = ing.counter[n] + 1])
  /\ ing' = [ing EXCEPT !.counter[n] = @ + 1]
  /\ UNCHANGED faults

Gone(x) == [ing EXCEPT !.dialled = @ \ {x}, !.told = @ \ {x}]

ResolveDeploymentPort(x) ==
  /\ call[x].pc = "open"
  /\ IF ing.hosted THEN Goes(x, "connect") ELSE Ends(x)
  /\ UNCHANGED <<ing, calls, faults>>

(* The container is dialled before the client is told, and the tunnel is    *)
(* tracked after.                                                           *)
serveTunnel(x) ==
  /\ \/ /\ call[x].pc = "connect"
        /\ IF ing.up THEN Goes(x, "ready") /\ ing' = [ing EXCEPT !.dialled = @ \cup {x}]
           ELSE Ends(x) /\ UNCHANGED ing
        /\ UNCHANGED faults
     \/ /\ call[x].pc = "ready"
        /\ \/ /\ ing' = [ing EXCEPT !.told = @ \cup {x}]
              /\ Goes(x, "track")
              /\ UNCHANGED faults
           \/ Fault /\ ing' = Gone(x) /\ Ends(x)
     \/ /\ call[x].pc = "track"
        /\ ing' = [ing EXCEPT !.active[call[x].at] = x]
        /\ call' = [y \in Callers |->
             IF y = x THEN [call[x] EXCEPT !.pc = "copy"]
             ELSE IF call[y].pc = "copy" /\ call[y].at = call[x].at
                  THEN [call[y] EXCEPT !.was = {"shadowed"}] ELSE call[y]]
        /\ UNCHANGED faults
  /\ UNCHANGED calls

(* Either side ends, or the server is closed: the entry under the number is *)
(* deleted and both connections are closed.                                 *)
ProxyBidirectional(x) ==
  /\ call[x].pc = "copy"
  /\ ing' = [Gone(x) EXCEPT !.active[call[x].at] = Nothing]
  /\ call' = [y \in Callers |->
       IF y = x THEN Idle
       ELSE IF call[y].pc = "copy" /\ call[y].at = call[x].at
            THEN [call[y] EXCEPT !.was = {"shadowed"}] ELSE call[y]]
  /\ UNCHANGED <<calls, faults>>

CloseServer ==
  /\ ~ing.closed
  /\ ing' = [ing EXCEPT !.closed = TRUE]
  /\ UNCHANGED <<call, calls, faults>>

Tunnels ==
  \/ ContainerChanges \/ CloseServer
  \/ \E x \in Callers :
       \/ \E n \in Nodes : OpenTunnel(x, n)
       \/ ResolveDeploymentPort(x) \/ serveTunnel(x) \/ ProxyBidirectional(x)

(* A client that was told its tunnel is ready has a connection to the       *)
(* container behind it; no connection outlives its handler; and each entry  *)
(* of the map is a tunnel in progress under that number, every tunnel in    *)
(* progress having one unless another ingress used its number.              *)
ForwardTunnelsSound ==
  /\ ing.told \subseteq ing.dialled
  /\ \A x \in ing.dialled : call[x].pc \in {"ready", "track", "copy"}
  /\ \A i \in DOMAIN ing.active :
       ing.active[i] # Nothing => call[ing.active[i]].pc = "copy" /\ call[ing.active[i]].at = i
  /\ \A x \in Callers :
       call[x].pc = "copy" /\ call[x].was = {} => ing.active[call[x].at] = x

-----------------------------------------------------------------------------
Init ==
  /\ part \in Parts
  /\ ing = CASE part = "routing" -> NewResolver
             [] part = "limits" -> NewIngressRateLimiter
             [] part = "domains" -> NewDomainOwnershipStore
             [] part = "records" -> NewDNSSync
             [] part = "edges" -> NewEdgeRegistry
             [] part = "egress" -> NewServer
             [] part = "tunnels" -> NewTunnelServer
  /\ call = [x \in Callers |-> Idle]
  /\ calls = 0
  /\ faults = 0

Next ==
  /\ UNCHANGED part
  /\ \/ part = "routing" /\ Routing
     \/ part = "limits" /\ Limits
     \/ part = "domains" /\ Domains
     \/ part = "records" /\ Records
     \/ part = "edges" /\ Edges
     \/ part = "egress" /\ Egress
     \/ part = "tunnels" /\ Tunnels

Spec == Init /\ [][Next]_ingress

IngressSound ==
  /\ part = "routing" => RoutesToOwner
  /\ part = "limits" => BucketsSound
  /\ part = "domains" => DomainsSound
  /\ part = "records" => RecordsSound
  /\ part = "edges" => EdgesSound
  /\ part = "egress" => EgressSound
  /\ part = "tunnels" => ForwardTunnelsSound

=============================================================================
