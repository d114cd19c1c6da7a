------------------------------- MODULE Gossip -------------------------------
(* State shared by gossip (internal/p2p/gossip.go) with the validator the    *)
(* daemon installs (internal/daemon/gossip_adapter.go): where a deployment   *)
(* is exposed ("expose:" keys) and any other key. Entries carry no version:  *)
(* what arrives replaces what is there and counts as new. Ages are counted   *)
(* in rounds of the clean-up; a "removed" value is a nil entry.              *)
EXTENDS Integers, FiniteSets

CONSTANTS Nodes, Keys,
          Hosts,            \* the providers hosting an expose key's deployment; {} for
                            \* any other key
          None, Nil,
          Versions,         \* what a provider can publish under a key
          StaleAfter,       \* rounds after which CleanStaleState removes an entry
          MaxEntries,       \* maxStateEntries: 10000 in the code
          PeersOf,          \* the staked gossip peers of each node
          MaxMessages       \* bound on messages under way

VARIABLES state,            \* each node's map: entries [val, age], or None
          up,               \* nodes that are running
          net,              \* gossip messages under way
          published         \* what the providers have published, by key

vars == <<state, up, net, published>>

Entries(n) == {k \in Keys : state[n][k] # None}

Init ==
  /\ state = [n \in Nodes |-> [k \in Keys |-> None]]
  /\ up = Nodes
  /\ net = {}
  /\ published = [k \in Keys |-> {}]

-----------------------------------------------------------------------------
Put(m, k, v) == [m EXCEPT ![k] = [val |-> v, age |-> 0]]

(* sendGossip to every staked peer: the whole map, values without ages. *)
Message(n, m, q) ==
  [from |-> n, to |-> q,
   map |-> [k \in {l \in Keys : m[l] # None} |-> m[k].val]]

Send(n, m) == net' = net \cup {Message(n, m, q) : q \in PeersOf[n]}

(* evictOldestStateLocked: an entry none is older than. *)
Oldest(m) ==
  {k \in Keys : m[k] # None /\ \A l \in Keys : m[l] # None => m[l].age <= m[k].age}

(* UpdateState at node n: the entry is set, the oldest making room for a    *)
(* new key, and gossiped at once to the peers; any message may be lost.     *)
UpdateState(n, k, v) ==
  /\ n \in up
  /\ Cardinality(net) < MaxMessages
  /\ Hosts[k] # {} => n \in Hosts[k]
  /\ \E room \in (IF state[n][k] = None /\ Cardinality(Entries(n)) >= MaxEntries
                  THEN {[state[n] EXCEPT ![o] = None] : o \in Oldest(state[n])}
                  ELSE {state[n]}) :
       LET m == Put(room, k, IF v = Nil THEN Nil ELSE [by |-> n, ver |-> v])
       IN  /\ state' = [state EXCEPT ![n] = m] /\ Send(n, m)
           /\ published' = [published EXCEPT ![k] = @ \cup {m[k].val}]
  /\ UNCHANGED up

(* gossip, on the ticker. *)
Round(n) ==
  /\ n \in up
  /\ Cardinality(net) < MaxMessages
  /\ Send(n, state[n])
  /\ UNCHANGED <<state, up, published>>

(* validateExposeEntry: a value must come from the provider it names; a     *)
(* removal may come from anyone.                                            *)
Valid(from, k, v) == Hosts[k] = {} \/ v = Nil \/ v.by = from

(* HandleGossipMessage: what is valid is merged, new keys only while there  *)
(* is room. With too little room, map order decides which ones.             *)
Receive(msg) ==
  LET n == msg.to
      ok == {k \in DOMAIN msg.map : Valid(msg.from, k, msg.map[k])}
      new == {k \in ok : state[n][k] = None}
      space == MaxEntries - Cardinality(Entries(n))
  IN  /\ msg \in net /\ net' = net \ {msg}
      /\ n \in up
      /\ \E taken \in SUBSET new :
           /\ Cardinality(taken) = IF Cardinality(new) < space THEN Cardinality(new)
                                   ELSE IF space < 0 THEN 0 ELSE space
           /\ state' = [state EXCEPT ![n] =
                [k \in Keys |-> IF k \in (ok \ new) \cup taken
                                THEN [val |-> msg.map[k], age |-> 0] ELSE @[k]]]
      /\ UNCHANGED <<up, published>>

Lose(msg) == msg \in net /\ net' = net \ {msg} /\ UNCHANGED <<state, up, published>>

(* Mutant: the clean-up keeps what is not a removal. *)
CleanNilOnly(n) ==
  /\ n \in up
  /\ state' = [state EXCEPT ![n] =
       [k \in Keys |-> IF @[k] = None THEN None
                       ELSE IF @[k].age >= StaleAfter THEN (IF @[k].val = Nil THEN None ELSE @[k])
                       ELSE [@[k] EXCEPT !.age = @ + 1]]]
  /\ UNCHANGED <<up, net, published>>

(* CleanStaleState, once per round: entries grow older, stale ones go. *)
CleanStaleState(n) ==
  /\ n \in up
  /\ state' = [state EXCEPT ![n] =
       [k \in Keys |-> IF @[k] = None \/ @[k].age >= StaleAfter THEN None
                       ELSE [@[k] EXCEPT !.age = @ + 1]]]
  /\ UNCHANGED <<up, net, published>>

(* RemoveLocalState, on shutdown: the map is emptied and gossiped, empty,   *)
(* and the node stops.                                                      *)
RemoveLocalState(n) ==
  /\ n \in up /\ up' = up \ {n}
  /\ state' = [state EXCEPT ![n] = [k \in Keys |-> None]]
  /\ Send(n, state'[n])
  /\ UNCHANGED <<published>>

Crash(n) ==
  /\ n \in up /\ up' = up \ {n}
  /\ state' = [state EXCEPT ![n] = [k \in Keys |-> None]]
  /\ UNCHANGED <<net, published>>

Next ==
  \/ \E n \in Nodes :
       \/ \E k \in Keys, v \in Versions \cup {Nil} : UpdateState(n, k, v)
       \/ Round(n) \/ CleanStaleState(n) \/ RemoveLocalState(n) \/ Crash(n)
  \/ \E msg \in net : Receive(msg) \/ Lose(msg)

(* The clean-up ticker fires and messages do not stay under way for ever. *)
Fairness ==
  /\ \A n \in Nodes : WF_vars(CleanStaleState(n))
  /\ WF_vars(\E msg \in net : Receive(msg) \/ Lose(msg))

Spec == Init /\ [][Next]_vars /\ Fairness

-----------------------------------------------------------------------------
(* Every node that holds where a deployment is exposed holds what the       *)
(* provider named in it has published itself, whatever third parties relay. *)
ExposuresAuthentic ==
  \A n \in Nodes, k \in Keys :
    (Hosts[k] # {} /\ state[n][k] # None /\ state[n][k].val # Nil)
      => state[n][k].val \in published[k] /\ state[n][k].val.by \in Hosts[k]

Gone(q) == q \notin up
Forgotten(q) ==
  \A n \in Nodes, k \in Keys :
    (Hosts[k] # {} /\ state[n][k] # None /\ state[n][k].val # Nil) => state[n][k].val.by # q

(* A provider that is gone for good is forgotten: since only the provider   *)
(* refreshes its exposures, its entries grow stale and disappear everywhere.*)
GhostsFade == \A q \in Nodes : Gone(q) ~> Forgotten(q)
=============================================================================
