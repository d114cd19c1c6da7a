----------------------------- MODULE ChainClient -----------------------------
(***************************************************************************)
(* A node's connection to the chain: BaseClient with its endpoint tracker  *)
(* and the failover of a call, and the EventWatcher, whose subscriptions   *)
(* share one WebSocket client and one lastBlock and each reconnect and     *)
(* backfill on their own.                                                  *)
(*                                                                         *)
(* A client object is a number; a client that is no longer the current one *)
(* has been closed.  Latencies are left out: where the tracker sorts by    *)
(* them the model takes any healthy endpoint, and one that has rested for  *)
(* the recovery interval only when none is healthy.                        *)
(***************************************************************************)
EXTENDS Naturals, FiniteSets, Sequences

CONSTANTS
  Endpoints,    \* rpcTracker's URLs
  Dialled,      \* endpoints whose dial opens a connection (ws://); http never fails
  Callers,      \* concurrent callWithFailover calls
  Kinds,        \* event subscriptions
  Nothing,
  MaxErrors,    \* defaultMaxConsecutiveErrors
  MaxCalls, MaxFlips, MaxBlocks, MaxDrops,
  MaxClients    \* bound on the client objects made

VARIABLES
  ep,           \* endpoint -> [errs, healthy, rested]
  up,           \* endpoints that answer
  client,       \* bc.client: [url, id] or Nothing
  activeRPC, connected,
  call,         \* caller -> [at, url, id] or Nothing
  ws,           \* bc.wsClient: [id, ok] or Nothing
  minted,       \* client objects made
  log,          \* block -> the kinds of event in it
  last,         \* lastBlock
  sub,          \* kind -> [at, ws, base, seen, from, store]
  todo,         \* kind -> blocks whose log waits in the backfill or on the channel
  handled,      \* kind -> blocks handed to the handler
  again,        \* kinds that were handed a log twice
  regressed,    \* did lastBlock ever go back?
  phase,        \* the watcher: "off", "on", "stopping" or "closed"
  calls, flips, drops

rpc == <<ep, up, client, activeRPC, connected, call, calls, flips>>
watch == <<last, sub, todo, handled, again, regressed, phase>>
vars == <<rpc, ws, minted, log, watch, drops>>
Top == Len(log)

Fresh(at) == [at |-> at, ws |-> 0, base |-> 0, seen |-> 0, from |-> 0, store |-> 0]

Init ==
  /\ ep = [u \in Endpoints |-> [errs |-> 0, healthy |-> TRUE, rested |-> FALSE]]
  /\ up = Endpoints
  /\ client = Nothing /\ activeRPC = Nothing /\ connected = FALSE
  /\ call = [x \in Callers |-> Nothing]
  /\ ws = Nothing /\ minted = 0
  /\ log = <<{}>> /\ last = 0
  /\ sub = [k \in Kinds |-> Fresh("none")]
  /\ todo = [k \in Kinds |-> <<>>] /\ handled = [k \in Kinds |-> {}]
  /\ again = {} /\ regressed = FALSE
  /\ phase = "off"
  /\ calls = 0 /\ flips = 0 /\ drops = 0

(***************************************************************************)
(* The tracker.                                                            *)
(***************************************************************************)
Success(e, u) == [e EXCEPT ![u] = [errs |-> 0, healthy |-> TRUE, rested |-> FALSE]]

(* As a bug would have it: an error too many is forgiven.                  *)
ErrorForgiven(e, u) ==
  [e EXCEPT ![u] = [errs |-> @.errs + 1, healthy |-> @.healthy /\ @.errs < MaxErrors, rested |-> FALSE]]

Error(e, u) ==
  [e EXCEPT ![u] = [errs |-> @.errs + 1, healthy |-> @.healthy /\ @.errs + 1 < MaxErrors, rested |-> FALSE]]

Healthy(e, without) == {u \in Endpoints \ without : e[u].healthy}
Rested(e, without) == {u \in Endpoints \ without : ~e[u].healthy /\ e[u].rested}

(* GetHealthy and GetNext: what may come first in the sorted list.         *)
GetNext(e, without) == IF Healthy(e, without) # {} THEN Healthy(e, without) ELSE Rested(e, without)

(* An unhealthy endpoint may be tried again after the recovery interval.   *)
Rest(u) ==
  /\ ~ep[u].healthy /\ ~ep[u].rested
  /\ ep' = [ep EXCEPT ![u].rested = TRUE]
  /\ UNCHANGED <<up, client, activeRPC, connected, call, calls, flips, ws, minted, log, watch, drops>>

(* An endpoint stops or resumes answering.                                 *)
Flip(u) ==
  /\ flips < MaxFlips /\ flips' = flips + 1
  /\ up' = IF u \in up THEN up \ {u} ELSE up \cup {u}
  /\ UNCHANGED <<ep, client, activeRPC, connected, call, calls, ws, minted, log, watch, drops>>

Dials(u) == u \in Dialled => u \in up

(* Connect goes through the list; an endpoint that does not dial, or does  *)
(* not tell its chain, is charged with an error.  Where it finds none it   *)
(* returns the error.                                                      *)
Connect(u, wsOk) ==
  /\ phase = "off" /\ client = Nothing /\ minted = 0
  /\ u \in up
  /\ client' = [url |-> u, id |-> 1] /\ activeRPC' = u /\ connected' = TRUE
  /\ \E bad \in SUBSET (Endpoints \ (up \cup {u})) :
       ep' = Success([v \in Endpoints |-> IF v \in bad THEN Error(ep, v)[v] ELSE ep[v]], u)
  /\ ws' = IF wsOk THEN [id |-> 2, ok |-> TRUE] ELSE Nothing
  /\ minted' = 2
  /\ UNCHANGED <<up, call, calls, flips, log, watch, drops>>

(***************************************************************************)
(* callWithFailover.  The client is read under the lock, used without it.  *)
(***************************************************************************)
Return(x) == call' = [call EXCEPT ![x] = Nothing]

CallWithFailover(x) ==
  /\ call[x] = Nothing /\ calls < MaxCalls /\ calls' = calls + 1
  /\ client # Nothing
  /\ call' = [call EXCEPT ![x] = [at |-> "fn", url |-> client.url, id |-> client.id]]
  /\ UNCHANGED <<ep, up, client, activeRPC, connected, flips, ws, minted, log, watch, drops>>

(* A closed connection refuses the call, which is no connection error; an  *)
(* http client has none to close.                                          *)
Refused(x) == call[x].url \in Dialled /\ (client = Nothing \/ call[x].id # client.id)

FnReturns(x) ==
  /\ call[x] # Nothing /\ call[x].at = "fn"
  /\ IF Refused(x) THEN Return(x) /\ UNCHANGED ep
     ELSE IF call[x].url \in up THEN Return(x) /\ ep' = Success(ep, call[x].url)
     ELSE /\ ep' = Error(ep, call[x].url)
          /\ call' = [call EXCEPT ![x].at = "switch"]
  /\ UNCHANGED <<up, client, activeRPC, connected, calls, flips, ws, minted, log, watch, drops>>

(* switchRPC, under the lock.  The old client is closed before the next    *)
(* one is dialled.                                                         *)
(* As a bug would have it: it is closed before an alternative is found.    *)
CloseThenLook(x) ==
  /\ call[x] # Nothing /\ call[x].at = "switch"
  /\ IF GetNext(ep, {activeRPC}) = {}
     THEN Return(x) /\ client' = Nothing /\ UNCHANGED <<ep, activeRPC, connected, minted>>
     ELSE \E u \in GetNext(ep, {activeRPC}) :
       /\ client' = [url |-> u, id |-> minted + 1] /\ minted' = minted + 1
       /\ activeRPC' = u /\ connected' = TRUE /\ ep' = Success(ep, u)
       /\ call' = [call EXCEPT ![x].at = "retry"]
  /\ UNCHANGED <<up, calls, flips, ws, log, watch, drops>>

SwitchRPC(x) ==
  /\ call[x] # Nothing /\ call[x].at = "switch"
  /\ IF GetNext(ep, {activeRPC}) = {}
     THEN Return(x) /\ UNCHANGED <<ep, client, activeRPC, connected, minted>>
     ELSE \E u \in GetNext(ep, {activeRPC}) :
       IF Dials(u)
       THEN /\ client' = [url |-> u, id |-> minted + 1] /\ minted' = minted + 1
            /\ activeRPC' = u /\ connected' = TRUE /\ ep' = Success(ep, u)
            /\ call' = [call EXCEPT ![x].at = "retry"]
       ELSE /\ client' = Nothing /\ connected' = FALSE /\ ep' = Error(ep, u)
            /\ Return(x) /\ UNCHANGED <<activeRPC, minted>>
  /\ UNCHANGED <<up, calls, flips, ws, log, watch, drops>>

(* The client is read again, whoever has switched since; a call that finds *)
(* none panics, which its caller's goroutine recovers.                     *)
RetryCall(x) ==
  /\ call[x] # Nothing /\ call[x].at = "retry"
  /\ Return(x)
  /\ UNCHANGED <<ep, up, client, activeRPC, connected, calls, flips, ws, minted, log, watch, drops>>

(***************************************************************************)
(* The watcher.  Start remembers the current block; one goroutine for each *)
(* kind runs subscribeWithReconnect.                                       *)
(***************************************************************************)
Goto(k, at) == sub' = [sub EXCEPT ![k].at = at, ![k].store = 0]
Restarted(k, at) == sub' = [sub EXCEPT ![k] = Fresh(at)]

StartWatcher ==
  /\ phase = "off" /\ connected
  /\ phase' = "on" /\ last' = Top
  /\ sub' = [k \in Kinds |-> Fresh("loop")]
  /\ UNCHANGED <<rpc, ws, minted, log, todo, handled, again, regressed, drops>>

Loop(k) ==
  /\ sub[k].at = "loop"
  /\ IF phase # "on" THEN Goto(k, "done")
     ELSE IF ws = Nothing THEN Goto(k, "reconnect")
     ELSE sub' = [sub EXCEPT ![k].at = "backfill", ![k].ws = ws.id]
  /\ UNCHANGED <<rpc, ws, minted, log, last, todo, handled, again, regressed, phase, drops>>

(* ReconnectWS closes the client that all the subscriptions share.         *)
ReconnectWS(k, ok) ==
  /\ sub[k].at = "reconnect"
  /\ IF ok THEN minted < MaxClients /\ ws' = [id |-> minted + 1, ok |-> TRUE] /\ minted' = minted + 1 /\ UNCHANGED drops
     ELSE ws' = Nothing /\ drops < MaxDrops /\ drops' = drops + 1 /\ UNCHANGED minted
  /\ Goto(k, "loop")
  /\ UNCHANGED <<rpc, log, last, todo, handled, again, regressed, phase>>

(* backfillEvents: read lastBlock, ask for the logs, hand on those above.  *)
ReadLast(k) ==
  /\ sub[k].at = "backfill"
  /\ sub' = [sub EXCEPT ![k].at = IF last = 0 \/ client = Nothing THEN "subscribe" ELSE "filter",
                        ![k].base = last, ![k].seen = last, ![k].from = last]
  /\ UNCHANGED <<rpc, ws, minted, log, last, todo, handled, again, regressed, phase, drops>>

Above(k, b) == SelectSeq([i \in 1..Top |-> i], LAMBDA i : i > b /\ k \in log[i])

(* As a bug would have it: the logs of the last block are handed on again. *)
FilterFrom(k, ok) ==
  /\ sub[k].at = "filter"
  /\ IF ok THEN /\ todo' = [todo EXCEPT ![k] = Above(k, sub[k].base - 1)] /\ UNCHANGED drops
                /\ sub' = [sub EXCEPT ![k].at = "hand", ![k].seen = Top]
     ELSE Goto(k, "subscribe") /\ UNCHANGED todo /\ drops < MaxDrops /\ drops' = drops + 1
  /\ UNCHANGED <<rpc, ws, minted, log, last, handled, again, regressed, phase>>

FilterLogs(k, ok) ==
  /\ sub[k].at = "filter"
  /\ IF ok THEN /\ todo' = [todo EXCEPT ![k] = Above(k, sub[k].base)] /\ UNCHANGED drops
                /\ sub' = [sub EXCEPT ![k].at = "hand", ![k].seen = Top]
     ELSE Goto(k, "subscribe") /\ UNCHANGED todo /\ drops < MaxDrops /\ drops' = drops + 1
  /\ UNCHANGED <<rpc, ws, minted, log, last, handled, again, regressed, phase>>

(* The handler.  That it drops an event its channel has no room for is left*)
(* to the consumer, which it does not wait for.                            *)
Handle(k, b) ==
  /\ handled' = [handled EXCEPT ![k] = @ \cup {b}]
  /\ again' = IF b \in handled[k] THEN again \cup {k} ELSE again

(* lastBlock is compared in one step and stored in the next.               *)
HandBackfilled(k) ==
  /\ sub[k].at = "hand"
  /\ IF todo[k] = <<>> THEN Goto(k, "subscribe") /\ UNCHANGED <<todo, handled, again>>
     ELSE LET b == Head(todo[k]) IN
          /\ Handle(k, b) /\ todo' = [todo EXCEPT ![k] = Tail(@)]
          /\ sub' = [sub EXCEPT ![k].store = IF b > last THEN b ELSE 0,
                                ![k].at = IF b > last THEN "handstore" ELSE "hand"]
  /\ UNCHANGED <<rpc, ws, minted, log, last, regressed, phase, drops>>

Store(k) ==
  /\ sub[k].at \in {"handstore", "livestore"}
  /\ last' = sub[k].store
  /\ regressed' = (regressed \/ sub[k].store < last)
  /\ IF sub[k].at = "handstore" THEN Goto(k, "hand") /\ UNCHANGED <<todo, handled, again>>
     ELSE /\ Handle(k, sub[k].store) /\ UNCHANGED todo /\ Goto(k, "live")
  /\ UNCHANGED <<rpc, ws, minted, log, phase, drops>>

Alive(k) == ws # Nothing /\ ws.ok /\ ws.id = sub[k].ws

SubscribeFilterLogs(k) ==
  /\ sub[k].at = "subscribe"
  /\ IF Alive(k) THEN sub' = [sub EXCEPT ![k].at = "live", ![k].from = Top] ELSE Restarted(k, "loop")
  /\ UNCHANGED <<rpc, ws, minted, log, last, todo, handled, again, regressed, phase, drops>>

(* processEvents.                                                          *)
DeliverLog(k) ==
  /\ sub[k].at = "live" /\ todo[k] # <<>>
  /\ LET b == Head(todo[k]) IN
     /\ todo' = [todo EXCEPT ![k] = Tail(@)]
     /\ IF b > last THEN sub' = [sub EXCEPT ![k].at = "livestore", ![k].store = b]
                         /\ UNCHANGED <<handled, again>>
        ELSE Handle(k, b) /\ UNCHANGED sub
  /\ UNCHANGED <<rpc, ws, minted, log, last, regressed, phase, drops>>

SubscriptionEnds(k) ==
  /\ sub[k].at = "live" /\ (~Alive(k) \/ phase # "on")
  /\ todo' = [todo EXCEPT ![k] = <<>>]
  /\ \/ ~Alive(k) /\ Restarted(k, "reconnect")
     \/ phase # "on" /\ Restarted(k, "done")
  /\ UNCHANGED <<rpc, ws, minted, log, last, handled, again, regressed, phase, drops>>

(* The chain and the connection.                                           *)
MineBlock(ks) ==
  /\ Top < MaxBlocks /\ log' = Append(log, ks)
  /\ todo' = [k \in Kinds |-> IF k \in ks /\ sub[k].at \in {"live", "livestore"} /\ Alive(k)
                              THEN Append(todo[k], Top + 1) ELSE todo[k]]
  /\ UNCHANGED <<rpc, ws, minted, last, sub, handled, again, regressed, phase, drops>>

DropWS ==
  /\ ws # Nothing /\ ws.ok /\ drops < MaxDrops /\ drops' = drops + 1
  /\ ws' = [ws EXCEPT !.ok = FALSE]
  /\ UNCHANGED <<rpc, minted, log, watch>>

(* Stop cancels, waits for the goroutines and closes the channels.         *)
Stop ==
  /\ phase = "on" /\ phase' = "stopping"
  /\ UNCHANGED <<rpc, ws, minted, log, last, sub, todo, handled, again, regressed, drops>>

(* As a bug would have it: without the wait.                               *)
CloseAtOnce ==
  /\ phase = "stopping" /\ phase' = "closed"
  /\ UNCHANGED <<rpc, ws, minted, log, last, sub, todo, handled, again, regressed, drops>>

CloseChannels ==
  /\ phase = "stopping" /\ \A k \in Kinds : sub[k].at = "done"
  /\ phase' = "closed"
  /\ UNCHANGED <<rpc, ws, minted, log, last, sub, todo, handled, again, regressed, drops>>

Next ==
  \/ \E u \in Endpoints : Rest(u) \/ Flip(u) \/ \E ok \in BOOLEAN : Connect(u, ok)
  \/ \E x \in Callers : CallWithFailover(x) \/ FnReturns(x) \/ SwitchRPC(x) \/ RetryCall(x)
  \/ \E k \in Kinds :
       \/ Loop(k) \/ ReadLast(k) \/ HandBackfilled(k) \/ Store(k) \/ SubscribeFilterLogs(k)
       \/ DeliverLog(k) \/ SubscriptionEnds(k)
       \/ \E ok \in BOOLEAN : ReconnectWS(k, ok) \/ FilterLogs(k, ok)
  \/ \E ks \in (SUBSET Kinds) \ {{}} : MineBlock(ks)
  \/ StartWatcher \/ DropWS \/ Stop \/ CloseChannels

Spec == Init /\ [][Next]_vars

-----------------------------------------------------------------------------
(* A connected node has the open client of the endpoint it calls active,   *)
(* and an endpoint is healthy exactly while it has fewer errors in a row   *)
(* than the limit.                                                         *)
TrackerTrue ==
  /\ connected => client # Nothing /\ client.url = activeRPC
  /\ \A u \in Endpoints : ep[u].healthy <=> ep[u].errs < MaxErrors

(* With http endpoints, whatever calls fail and switch at the same time, a *)
(* node that has connected stays connected and a call that goes on to its  *)
(* second attempt finds a client.                                          *)
FailoverSafe == Dialled = {} /\ minted > 0 => connected /\ client # Nothing

(* While a subscription is live, an event it has not been handed lies at   *)
(* or below the lastBlock its backfill read, or came between the backfill  *)
(* and the subscription; it misses no other, however often it lost its     *)
(* connection and whatever the other subscriptions did.                    *)
Missed(k) ==
  {b \in 1..Top : k \in log[b] /\ b \notin handled[k] /\ \A i \in 1..Len(todo[k]) : todo[k][i] # b}

GapsExplained ==
  \A k \in Kinds : sub[k].at = "live" /\ Alive(k) =>
    \A b \in Missed(k) : b <= sub[k].base \/ (sub[k].seen < b /\ b <= sub[k].from)

(* An event is handed on twice only if the unguarded store took lastBlock  *)
(* back.                                                                   *)
HandedOnce == again # {} => regressed

(* Nothing is sent on the channels once Stop has closed them.              *)
ClosedQuiet == phase = "closed" => \A k \in Kinds : sub[k].at = "done"

ChainSound == TrackerTrue /\ FailoverSafe /\ GapsExplained /\ HandedOnce /\ ClosedQuiet

(* "backfillEvents queries historical logs from lastBlock to catch events  *)
(* missed during a subscription gap": a live subscription has been handed  *)
(* every event since the watcher started, or is about to be.               *)
EventsCaught == \A k \in Kinds : sub[k].at = "live" /\ Alive(k) => Missed(k) = {}

(* "On connection-level error, switches RPC and retries once": a call that *)
(* switched has a client to retry with.                                    *)
RetriesOnce == \A x \in Callers : call[x] # Nothing /\ call[x].at = "retry" => client # Nothing
=============================================================================
