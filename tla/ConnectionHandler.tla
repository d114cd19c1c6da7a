-------------------------- MODULE ConnectionHandler --------------------------
(* Inbound connections of a node (internal/daemon/node.go, handleConnections *)
(* and handleConnection) with the subnet limiter they share                  *)
(* (internal/p2p/subnet_limiter.go). A connection is first admitted under a  *)
(* temporary, all-zero node ID, which every connection in its handshake      *)
(* shares, and under its own ID once TLS has revealed it.                    *)
EXTENDS Integers, FiniteSets, Functions, FiniteSetsExt

CONSTANTS Conns, Peers,
          Subnets,        \* subnets that are limited
          Exempt,         \* an address that is not (private, loopback, onion)
          Temp, None,
          MaxPerSubnet,   \* maxPerSubnet: 3 in the code
          MaxConns,       \* capacity of connSemaphore
          MaxAccepts      \* bound on the connections a behaviour accepts

VARIABLES conn,           \* each connection: its stage, address, peer, announce timer
          counts,         \* subnetCounts
          peerSubnet,     \* peerSubnets
          slots,          \* connections holding a slot of connSemaphore
          announced,      \* peers with a wallet registered (HasAnnounced)
          known,          \* peers added to the DHT's peer list
          accepts

vars == <<conn, counts, peerSubnet, slots, announced, known, accepts>>

Closed == [stage |-> "closed", subnet |-> None, peer |-> None, timer |-> "off"]

Init ==
  /\ conn = [c \in Conns |-> Closed]
  /\ counts = [s \in Subnets |-> 0]
  /\ peerSubnet = [p \in Peers \cup {Temp} |-> None]
  /\ slots = 0
  /\ announced = {} /\ known = {}
  /\ accepts = 0

-----------------------------------------------------------------------------
(* SubnetLimiter. The tables are passed and returned as a pair. *)

Tables == [counts |-> counts, of |-> peerSubnet]

Less(n) == IF n > 0 THEN n - 1 ELSE 0

(* Remove: forgets a node ID and lowers its subnet's count. *)
Remove(t, id) ==
  IF t.of[id] = None THEN t
  ELSE [counts |-> [t.counts EXCEPT ![t.of[id]] = Less(@)], of |-> [t.of EXCEPT ![id] = None]]

(* Allow: what is left of the tables, and the verdict. A node ID that shows *)
(* up in another subnet lowers the count of the first before the limit of   *)
(* the second is tested, and stays recorded under the first if that fails.  *)
Allow(t, subnet, id) ==
  LET moved == IF t.of[id] = None THEN t.counts ELSE [t.counts EXCEPT ![t.of[id]] = Less(@)]
  IN  IF subnet = Exempt \/ t.of[id] = subnet THEN [ok |-> TRUE, tables |-> t]
      ELSE IF moved[subnet] >= MaxPerSubnet
           THEN [ok |-> FALSE, tables |-> [t EXCEPT !.counts = moved]]
           ELSE [ok |-> TRUE,
                 tables |-> [counts |-> [moved EXCEPT ![subnet] = @ + 1],
                             of |-> [t.of EXCEPT ![id] = subnet]]]

Commit(t) == counts' = t.counts /\ peerSubnet' = t.of

-----------------------------------------------------------------------------
(* handleConnections: the subnet is tested under the temporary ID, then a   *)
(* slot is taken. A connection refused for want of a slot leaves the        *)
(* temporary ID registered.                                                 *)
Accept(c, subnet) ==
  LET verdict == Allow(Tables, subnet, Temp)
  IN  /\ conn[c] = Closed /\ accepts < MaxAccepts
      /\ accepts' = accepts + 1
      /\ Commit(verdict.tables)
      /\ \/ ~verdict.ok /\ UNCHANGED <<conn, slots>>
         \/ verdict.ok /\ slots >= MaxConns /\ UNCHANGED <<conn, slots>>
         \/ /\ verdict.ok /\ slots < MaxConns
            /\ slots' = slots + 1
            /\ conn' = [conn EXCEPT ![c] = [Closed EXCEPT !.stage = "handshake",
                                                          !.subnet = subnet]]
      /\ UNCHANGED <<announced, known>>

(* handleConnection returning before it knows the peer: not TLS, a failed   *)
(* handshake, no certificate. The deferred calls release the temporary ID   *)
(* and the slot.                                                            *)
HandshakeFail(c) ==
  /\ conn[c].stage = "handshake"
  /\ Commit(Remove(Tables, Temp))
  /\ conn' = [conn EXCEPT ![c] = Closed]
  /\ slots' = slots - 1
  /\ UNCHANGED <<announced, known, accepts>>

(* The peer is known: the temporary ID is released and the subnet tested    *)
(* again under the peer's ID. A peer that passes is added to the DHT's list *)
(* and its announce timer starts.                                           *)
Handshake(c, p) ==
  LET verdict == Allow(Remove(Tables, Temp), conn[c].subnet, p)
  IN  /\ conn[c].stage = "handshake"
      /\ \/ /\ ~verdict.ok
            /\ Commit(Remove(verdict.tables, Temp))
            /\ conn' = [conn EXCEPT ![c] = Closed]
            /\ slots' = slots - 1
            /\ UNCHANGED known
         \/ /\ verdict.ok
            /\ Commit(verdict.tables)
            /\ conn' = [conn EXCEPT ![c] = [@ EXCEPT !.stage = "open", !.peer = p,
                                                     !.timer = "running"]]
            /\ known' = known \cup {p}
            /\ UNCHANGED slots
      /\ UNCHANGED <<announced, accepts>>

(* handleAnnounceMessage: the first announcement of a peer registers its    *)
(* wallet if it verifies; it stops this connection's timer even if it does  *)
(* not. A later one is ignored, and leaves the timer running.               *)
Announce(c) ==
  /\ conn[c].stage = "open" /\ conn[c].peer \notin announced
  /\ \/ announced' = announced \cup {conn[c].peer}
     \/ UNCHANGED announced
  /\ conn' = [conn EXCEPT ![c].timer = "stopped"]
  /\ UNCHANGED <<counts, peerSubnet, slots, known, accepts>>

(* The connection ends: end of stream, read timeout, read error, shutdown.  *)
(* The deferred calls forget the peer's subnet and release the slot.        *)
Close(c) ==
  /\ conn[c].stage = "open"
  /\ Commit(Remove(Tables, conn[c].peer))
  /\ conn' = [conn EXCEPT ![c] = Closed]
  /\ slots' = slots - 1
  /\ UNCHANGED <<announced, known, accepts>>

(* Mutant: the timer closes a connection only of a peer that has announced. *)
GraceInverted(c) ==
  /\ conn[c].stage = "open" /\ conn[c].timer = "running"
  /\ \/ conn[c].peer \in announced /\ Close(c)
     \/ /\ conn[c].peer \notin announced
        /\ conn' = [conn EXCEPT ![c].timer = "off"]
        /\ UNCHANGED <<counts, peerSubnet, slots, announced, known, accepts>>

(* The announce timer fires: the connection is closed unless the peer has   *)
(* announced, on this connection or on another one.                         *)
GraceExpired(c) ==
  /\ conn[c].stage = "open" /\ conn[c].timer = "running"
  /\ \/ conn[c].peer \notin announced /\ Close(c)
     \/ /\ conn[c].peer \in announced
        /\ conn' = [conn EXCEPT ![c].timer = "off"]
        /\ UNCHANGED <<counts, peerSubnet, slots, announced, known, accepts>>

(* The router drops a peer and with it the wallet it announced. *)
ForgetWallet(p) ==
  /\ p \in announced
  /\ announced' = announced \ {p}
  /\ UNCHANGED <<conn, counts, peerSubnet, slots, known, accepts>>

Next ==
  \/ \E c \in Conns :
       \/ \E s \in Subnets \cup {Exempt} : Accept(c, s)
       \/ HandshakeFail(c) \/ \E p \in Peers : Handshake(c, p)
       \/ Announce(c) \/ Close(c) \/ GraceExpired(c)
  \/ \E p \in Peers : ForgetWallet(p)

(* A timer that has been started fires. *)
Fairness == \A c \in Conns : WF_vars(GraceExpired(c))

Spec == Init /\ [][Next]_vars /\ Fairness

-----------------------------------------------------------------------------
Live == {c \in Conns : conn[c].stage # "closed"}

(* Whatever way a connection ends, its slot comes back exactly once: the    *)
(* slots taken are those of the live connections, never more than there are.*)
SlotsAccounted == slots = Cardinality(Live) /\ slots <= MaxConns

(* The limiter's own books: no subnet's count passes the limit, or is less  *)
(* than nothing, whatever peers move, fail their handshake or share an ID.  *)
CountsBounded == \A s \in Subnets : counts[s] \in 0 .. MaxPerSubnet

ConnectionsSound == SlotsAccounted /\ CountsBounded

Waiting(c) == conn[c].timer = "running"
Settled(c) ==
  conn[c].stage = "closed" \/ conn[c].timer = "stopped" \/ conn[c].peer \in announced

(* A peer that says nothing does not keep its connection: while its timer   *)
(* runs, the connection is on its way to being closed, or to an             *)
(* announcement of that peer, on this connection or another.                *)
SilentPeersDropped == \A c \in Conns : Waiting(c) ~> Settled(c)

(* The README's "/24 subnet limiter: max 3 peers per subnet": the distinct  *)
(* peers with an open connection from a limited subnet stay within it.      *)
SubnetLimited ==
  \A s \in Subnets :
    Cardinality({conn[c].peer : c \in {d \in Conns : conn[d].stage = "open"
                                                    /\ conn[d].subnet = s}}) <= MaxPerSubnet
=============================================================================
