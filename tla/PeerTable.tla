------------------------------ MODULE PeerTable ------------------------------
(* The router's peer table (internal/p2p/peer_management.go) with the        *)
(* diversity enforcer (diversity.go), the connections the router opens       *)
(* (connection_pool.go) and the way SendMessage (routing.go) adds a peer it  *)
(* found through the DHT, past the limits AddPeer keeps.                     *)
EXTENDS Integers, Sequences, FiniteSets, SequencesExt, FiniteSetsExt

CONSTANTS Peers,
          Region, Subnet,      \* of each peer
          Unknown,             \* a region or subnet that is not known, and not limited
          MaxPeers,            \* maxPeers
          Bootstrapping,       \* peers below which all are admitted: 4 in the code
          RegionShare,         \* maxRegionShare and maxSubnetShare in hundredths:
          SubnetShare,         \* 50 and 30 in the code
          MaxSends             \* bound on the messages sent

VARIABLES table,        \* peers, longest unseen first
          connected,    \* peers of the table with an open connection
          regions, subnets, total,   \* the enforcer's counts
          node,         \* the node an entry of the table describes
          sending,      \* how far SendMessage to a peer has come
          bypassed,     \* peers of the table that SendMessage put there
          drifted,      \* has an entry SendMessage stored left the table, or replaced one?
          sends

vars == <<table, connected, regions, subnets, total, node, sending, bypassed, drifted, sends>>

Regions == {Region[p] : p \in Peers}
Subnets == {Subnet[p] : p \in Peers}
Counts == [regions |-> regions, subnets |-> subnets, total |-> total]
Known == ToSet(table)

TypeOK ==
  /\ table \in SeqOf(Peers, Cardinality(Peers)) /\ IsInjective(table)
  /\ connected \subseteq Known /\ bypassed \subseteq Known
  /\ regions \in [Regions -> Nat] /\ subnets \in [Subnets -> Nat] /\ total \in Nat
  /\ node \in [Peers -> Peers]
  /\ sending \in [Peers -> {"no", "finding", "dialing", "orphaned"}]

Init ==
  /\ table = <<>> /\ connected = {}
  /\ regions = [r \in Regions |-> 0] /\ subnets = [s \in Subnets |-> 0] /\ total = 0
  /\ node = [p \in Peers |-> p]
  /\ sending = [p \in Peers |-> "no"]
  /\ bypassed = {} /\ drifted = FALSE /\ sends = 0

-----------------------------------------------------------------------------
Less(n) == IF n > 0 THEN n - 1 ELSE 0

(* AllowPeer: would one more peer keep its region and its subnet within     *)
(* their shares?                                                            *)
AllowPeer(p) ==
  \/ total < Bootstrapping
  \/ /\ \/ Region[p] = Unknown
        \/ (regions[Region[p]] + 1) * 100 <= RegionShare * (total + 1)
     /\ \/ Subnet[p] = Unknown
        \/ (subnets[Subnet[p]] + 1) * 100 <= SubnetShare * (total + 1)

RecordPeer(c, p) ==
  [regions |-> [c.regions EXCEPT ![Region[p]] = @ + 1],
   subnets |-> [c.subnets EXCEPT ![Subnet[p]] = @ + 1],
   total |-> c.total + 1]

RemovePeer(c, p) ==
  [regions |-> [c.regions EXCEPT ![Region[p]] = Less(@)],
   subnets |-> [c.subnets EXCEPT ![Subnet[p]] = Less(@)],
   total |-> Less(c.total)]

Commit(c) == regions' = c.regions /\ subnets' = c.subnets /\ total' = c.total

Seen(t, p) == Append(Remove(t, p), p)

(* A peer leaves the table: whoever is sending to it keeps an entry that is *)
(* no longer there.                                                         *)
Leave(p) ==
  /\ connected' = connected \ {p}
  /\ node' = [node EXCEPT ![p] = p]
  /\ sending' = [sending EXCEPT ![p] = IF @ = "dialing" THEN "orphaned" ELSE @]
  /\ bypassed' = bypassed \ {p}
  /\ drifted' = (drifted \/ p \in bypassed)

Idle == SelectSeq(table, LAMBDA p : p \notin connected)


(* evictOldestIdlePeerLocked: the candidates, the first of which goes. *)
Evictable == Idle

(* AddPeer: a peer that is there is seen again; another has to pass the     *)
(* diversity test, and takes the place of the peer idle for longest when    *)
(* the table is full.                                                       *)
AddPeer(p) ==
  /\ \/ /\ p \in Known
        /\ table' = Seen(table, p)
        /\ UNCHANGED <<connected, regions, subnets, total, node, sending, bypassed, drifted>>
     \/ /\ p \notin Known /\ AllowPeer(p) /\ Len(table) < MaxPeers
        /\ table' = Append(table, p)
        /\ Commit(RecordPeer(Counts, p))
        /\ UNCHANGED <<connected, node, sending, bypassed, drifted>>
     \/ /\ p \notin Known /\ AllowPeer(p) /\ Len(table) >= MaxPeers /\ Evictable # <<>>
        /\ table' = Append(Remove(table, Head(Evictable)), p)
        /\ Commit(RecordPeer(RemovePeer(Counts, node[Head(Evictable)]), p))
        /\ Leave(Head(Evictable))
  /\ UNCHANGED sends

(* Router.RemovePeer. *)
Drop(p) ==
  /\ p \in Known
  /\ table' = Remove(table, p)
  /\ Commit(RemovePeer(Counts, node[p]))
  /\ Leave(p)
  /\ UNCHANGED sends

-----------------------------------------------------------------------------
(* SendMessage: looks the peer up. *)
SendMessage(p) ==
  /\ sending[p] = "no" /\ sends < MaxSends
  /\ sends' = sends + 1
  /\ sending' = [sending EXCEPT ![p] = IF p \in Known THEN "dialing" ELSE "finding"]
  /\ UNCHANGED <<table, connected, regions, subnets, total, node, bypassed, drifted>>

(* FindNode has answered, with the peer or, when it is not found, with      *)
(* whichever node this one is connected to: an entry is stored for it, in   *)
(* place of one that may have been added since.                             *)
Found(p, n) ==
  /\ sending[p] = "finding"
  /\ node' = [node EXCEPT ![p] = n]
  /\ drifted' = (drifted \/ (p \in Known /\ n # node[p]))
  /\ sending' = [sending EXCEPT ![p] = "dialing"]
  /\ table' = Seen(table, p)
  /\ connected' = connected \ {p}
  /\ bypassed' = bypassed \cup ({p} \ Known)
  /\ UNCHANGED <<regions, subnets, total, sends>>

(* ensureConnection has dialed: the entry, if it is still in the table, is  *)
(* connected.                                                               *)
EnsureConnection(p) ==
  /\ \/ /\ sending[p] = "dialing"
        /\ table' = IF p \in connected THEN table ELSE Seen(table, p)
        /\ connected' = connected \cup {p}
     \/ /\ sending[p] = "orphaned"
        /\ UNCHANGED <<table, connected>>
  /\ sending' = [sending EXCEPT ![p] = "no"]
  /\ UNCHANGED <<regions, subnets, total, node, bypassed, drifted, sends>>

(* The peer is not found, is banned, has no address or does not answer. *)
SendFails(p) ==
  /\ sending[p] # "no"
  /\ sending' = [sending EXCEPT ![p] = "no"]
  /\ UNCHANGED <<table, connected, regions, subnets, total, node, bypassed, drifted, sends>>

(* cleanupIdleConnections: closes the connections idle for too long, here   *)
(* those of the k peers not seen for longest.                               *)
CleanupIdle(k) ==
  /\ connected' = connected \ ToSet(SubSeq(table, 1, k))
  /\ connected' # connected
  /\ UNCHANGED <<table, regions, subnets, total, node, sending, bypassed, drifted, sends>>

Next ==
  \/ \E p \in Peers :
       \/ AddPeer(p) \/ Drop(p)
       \/ SendMessage(p) \/ (\E n \in Peers : Found(p, n)) \/ EnsureConnection(p) \/ SendFails(p)
  \/ \E k \in 1 .. Len(table) : CleanupIdle(k)

Spec == Init /\ [][Next]_vars

-----------------------------------------------------------------------------
In(r) == {p \in Known : Region[node[p]] = r}
Within(s) == {p \in Known : Subnet[node[p]] = s}

(* The enforcer's counts: exact for as long as no entry that SendMessage    *)
(* stored has left the table or taken the place of one that was counted,    *)
(* and never more in total than there are peers, whatever happens.          *)
CountsTrue ==
  /\ total <= Len(table)
  /\ ~drifted => /\ total = Cardinality(Known \ bypassed)
                 /\ \A r \in Regions : regions[r] = Cardinality(In(r) \ bypassed)
                 /\ \A s \in Subnets : subnets[s] = Cardinality(Within(s) \ bypassed)

(* The table outgrows its limit only by the peers SendMessage has added. *)
Bounded == Len(table) <= MaxPeers + Cardinality(bypassed)

(* A new peer costs another one its place only if that one has no           *)
(* connection and every peer not seen for as long has one.                  *)
AdmissionFair ==
  (Known' \ Known # {} /\ Known \ Known' # {}) =>
    \E i \in 1 .. Len(table) : /\ Known \ Known' = {table[i]}
                               /\ table[i] \notin connected
                               /\ \A j \in 1 .. i - 1 : table[j] \in connected

(* No region or subnet passes its share of the counted peers by one more    *)
(* peer being counted. A full table is left out: an eviction lowers the     *)
(* total after the share was tested.                                        *)
SharesKept ==
  (total >= Bootstrapping /\ total' > total) =>
    /\ \A r \in Regions \ {Unknown} :
         regions'[r] > regions[r] => regions'[r] * 100 <= RegionShare * total'
    /\ \A s \in Subnets \ {Unknown} :
         subnets'[s] > subnets[s] => subnets'[s] * 100 <= SubnetShare * total'
=============================================================================
