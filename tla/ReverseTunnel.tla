---------------------------- MODULE ReverseTunnel ----------------------------
(* Reverse tunnels (internal/tunnel, internal/daemon/reverse_tunnel.go): the *)
(* manager of a provider gives an exposed port a client, which dials the     *)
(* ingress, registers and serves; the ingress runs one handler goroutine per *)
(* connection, which registers a subdomain, pings the client and removes the *)
(* subdomain when it ends. Requests look subdomains up meanwhile. The caps   *)
(* on connections are in ConnectionSlots, replayed nonces in NonceTracker.   *)
EXTENDS Integers, FiniteSets

CONSTANTS NClients,       \* the clients the manager's factory makes, in turn
          Staked,         \* those that send a wallet proof; the code's own do not
          NConns,         \* connections that may exist at a time
          Subdomains, Nothing,
          Blockable,      \* the names the operator may block
          MayStop,        \* whether the ingress's context is cancelled at some time
          MaxSubdomains,  \* MaxSubdomainsForTier
          MaxReconnectAttempts, MaxMissedHeartbeats

VARIABLES active,         \* the client of the manager's entry, or Nothing
          shown,          \* the subdomain that entry shows
          cl,             \* client -> its Connect goroutine and state
          cn,             \* connection -> its two ends, or Nothing
          sessions,       \* TunnelRegistry: subdomain -> connection
          limiters,       \* subdomain -> the connection its limiter was made for
          dead,           \* a subdomain OpenStream is about to unregister, or Nothing
          blocked,        \* Blocklist
          stopping        \* the ingress's context is cancelled

tunnelVars == <<active, shown, cl, cn, sessions, limiters, dead, blocked, stopping>>

Clients == 1..NClients
Conns == 1..NConns

Fresh == [at |-> "new", cancelled |-> FALSE, sub |-> Nothing, token |-> FALSE,
          attempts |-> 0, conn |-> Nothing]

Init ==
  /\ active = Nothing /\ shown = Nothing
  /\ cl = [c \in Clients |-> Fresh]
  /\ cn = [k \in Conns |-> Nothing]
  /\ sessions = [s \in Subdomains |-> Nothing]
  /\ limiters = [s \in Subdomains |-> Nothing]
  /\ dead = Nothing /\ blocked = {} /\ stopping = FALSE

Live == {k \in Conns : cn[k] # Nothing}

(* A connection is gone when the handler and the client are through with it. *)
Freed(f, k) == IF f[k].sv = "over" /\ f[k].left THEN [f EXCEPT ![k] = Nothing] ELSE f

-----------------------------------------------------------------------------
(* The provider. connectOnce fails: its deferred closes, then the counting  *)
(* in Connect. The ingress learns of the close (seen), or does not.         *)
Fails(c, seen) ==
  LET k == cl[c].conn
      n == cl[c].attempts + 1
  IN  /\ cl' = [cl EXCEPT ![c].at = "loop", ![c].conn = Nothing,
                          ![c].attempts = IF n > MaxReconnectAttempts THEN 0 ELSE n,
                          ![c].token = @ /\ n <= MaxReconnectAttempts]
      /\ cn' = IF k = Nothing THEN cn
               ELSE Freed([cn EXCEPT ![k].left = TRUE, ![k].shut = TRUE, ![k].told = "no",
                                     ![k].open = @ /\ ~seen], k)

(* Expose: one entry per deployment and port.                               *)
Expose(c) ==
  /\ active = Nothing /\ cl[c].at = "new"
  /\ \A d \in Clients : d < c => cl[d].at # "new"
  /\ active' = c /\ shown' = Nothing
  /\ cl' = [cl EXCEPT ![c].at = "loop"]
  /\ UNCHANGED <<cn, sessions, limiters, dead, blocked, stopping>>

(* Disconnect: cancel, and close the session the client has published, if   *)
(* it has one by now. The deregister message it sends is read as a pong     *)
(* that does not match; the close comes with it.                            *)
Disconnect(c, seen) ==
  LET k == cl[c].conn
  IN  /\ cl' = [cl EXCEPT ![c].cancelled = TRUE]
      /\ cn' = IF k = Nothing THEN cn
               ELSE [cn EXCEPT ![k].shut = TRUE, ![k].open = @ /\ ~seen]

(* Unexpose, and Stop for every entry.                                      *)
Unexpose(seen) ==
  /\ active # Nothing
  /\ Disconnect(active, seen)
  /\ active' = Nothing /\ shown' = Nothing
  /\ UNCHANGED <<sessions, limiters, dead, blocked, stopping>>

(* The head of Connect's loop. On the way out Expose's goroutine writes the *)
(* subdomain into the entry of that moment.                                 *)
ConnectEnds(c) ==
  /\ cl[c].at = "loop" /\ cl[c].cancelled
  /\ cl' = [cl EXCEPT ![c].at = "done"]
  /\ shown' = IF active # Nothing THEN cl[c].sub ELSE shown
  /\ UNCHANGED <<active, cn, sessions, limiters, dead, blocked, stopping>>

StartDial(c) ==
  /\ cl[c].at = "loop" /\ ~cl[c].cancelled
  /\ cl' = [cl EXCEPT ![c].at = "dial"]
  /\ UNCHANGED <<active, shown, cn, sessions, limiters, dead, blocked, stopping>>

(* The dial does not look at the context.                                   *)
DialFails(c) ==
  /\ cl[c].at = "dial"
  /\ Fails(c, TRUE)
  /\ UNCHANGED <<active, shown, sessions, limiters, dead, blocked, stopping>>

Dial(c, k) ==
  /\ cl[c].at = "dial" /\ cn[k] = Nothing
  /\ \A j \in Conns : j < k => cn[j] # Nothing
  /\ cn' = [cn EXCEPT ![k] = [client |-> c, open |-> TRUE, shut |-> FALSE, left |-> FALSE,
              sv |-> "accepted", req |-> Nothing, sub |-> Nothing, told |-> "no",
              missed |-> 0, owed |-> 0]]
  /\ cl' = [cl EXCEPT ![c].at = "opened", ![c].conn = k]
  /\ UNCHANGED <<active, shown, sessions, limiters, dead, blocked, stopping>>

Usable(k) == cn[k].open /\ ~cn[k].shut

(* connectOnce writes the request: the subdomain it had, and its token.     *)
SendRegister(c) ==
  /\ cl[c].at = "opened" /\ Usable(cl[c].conn)
  /\ cn' = [cn EXCEPT ![cl[c].conn].req = [sub |-> cl[c].sub, token |-> cl[c].token]]
  /\ cl' = [cl EXCEPT ![c].at = "await"]
  /\ UNCHANGED <<active, shown, sessions, limiters, dead, blocked, stopping>>

ReceiveRegistered(c) ==
  /\ cl[c].at = "await" /\ cn[cl[c].conn].told = "registered"
  /\ cl' = [cl EXCEPT ![c].at = "serve", ![c].sub = cn[cl[c].conn].sub, ![c].token = TRUE]
  /\ UNCHANGED <<active, shown, cn, sessions, limiters, dead, blocked, stopping>>

(* An error answer, or the end of the session, wherever the client waits.   *)
SessionEnds(c, seen) ==
  /\ cl[c].at \in {"opened", "await", "serve"}
  /\ ~Usable(cl[c].conn) \/ (cl[c].at = "await" /\ cn[cl[c].conn].told = "error")
  /\ Fails(c, seen)
  /\ UNCHANGED <<active, shown, sessions, limiters, dead, blocked, stopping>>

-----------------------------------------------------------------------------
(* The ingress's handler of connection k. Every way out of it closes the    *)
(* connection, with an answer to the client or without.                     *)
Over(f, k, told) ==
  Freed([f EXCEPT ![k].sv = "over", ![k].told = told, ![k].open = FALSE, ![k].req = Nothing,
                  ![k].missed = 0, ![k].owed = 0], k)

(* No request within the deadlines, a broken handshake, or no name to give. *)
GiveUpReading(k) ==
  /\ cn[k] # Nothing /\ cn[k].sv = "accepted"
  /\ cn' = Over(cn, k, "no")
  /\ UNCHANGED <<active, shown, cl, sessions, limiters, dead, blocked, stopping>>

CountForNodeID == Cardinality({s \in Subdomains : sessions[s] # Nothing})

(* AssignRandomSubdomain avoids the registered names. A name that has just  *)
(* been given up, and that a handler or a request is still about, is drawn  *)
(* again with odds of one in 2^32; such draws are left out.                 *)
AssignRandomSubdomain(s) ==
  /\ sessions[s] = Nothing /\ s # dead
  /\ \A k \in Live : cn[k].sub # s

(* The checks of handleProviderConn: token or registration, the subdomain   *)
(* cap, the subdomain itself, the blocklist. A token is good for its        *)
(* subdomain as long as the tier allows; a registration is good when the    *)
(* clocks agree (timely).                                                   *)
Admits(r, staked, s, timely) ==
  /\ timely
  /\ r.token => r.sub # Nothing
  /\ CountForNodeID < MaxSubdomains
  /\ r.sub # Nothing => staked
  /\ s \notin blocked

Decide(k, s, timely) ==
  /\ cn[k] # Nothing /\ cn[k].sv = "accepted" /\ cn[k].req # Nothing
  /\ IF cn[k].req.sub = Nothing THEN AssignRandomSubdomain(s) ELSE s = cn[k].req.sub
  /\ cn' = IF Admits(cn[k].req, cn[k].client \in Staked, s, timely)
           THEN [cn EXCEPT ![k].sv = "admitted", ![k].sub = s, ![k].req = Nothing]
           ELSE Over(cn, k, "error")
  /\ UNCHANGED <<active, shown, cl, sessions, limiters, dead, blocked, stopping>>

(* TunnelRegistry.Register refuses a subdomain that is taken.               *)
Register(k) ==
  /\ cn[k] # Nothing /\ cn[k].sv = "admitted"
  /\ IF sessions[cn[k].sub] = Nothing
     THEN /\ sessions' = [sessions EXCEPT ![cn[k].sub] = k]
          /\ cn' = [cn EXCEPT ![k].sv = "registered"]
     ELSE /\ cn' = Over(cn, k, "error")
          /\ UNCHANGED sessions
  /\ UNCHANGED <<active, shown, cl, limiters, dead, blocked, stopping>>

(* The limiter, and the answer to the client, which may not get through.    *)
Respond(k, written) ==
  /\ cn[k] # Nothing /\ cn[k].sv = "registered"
  /\ limiters' = [limiters EXCEPT ![cn[k].sub] = k]
  /\ cn' = [cn EXCEPT ![k].sv = IF written THEN "serving" ELSE "leaving",
                      ![k].told = IF written /\ ~cn[k].left THEN "registered" ELSE "no"]
  /\ UNCHANGED <<active, shown, cl, sessions, dead, blocked, stopping>>

(* heartbeatResponder runs while the client serves and is not cancelled.    *)
Responding(k) ==
  LET c == cn[k].client
  IN  Usable(k) /\ cl[c].at = "serve" /\ ~cl[c].cancelled

(* heartbeatLoop: the reader takes the oldest pong there is, so once one    *)
(* has come late (owed) the later ones do not match their ping.             *)
Missed(k) ==
  LET n == cn[k].missed + 1
  IN  [cn EXCEPT ![k].missed = n, ![k].sv = IF n >= MaxMissedHeartbeats THEN "leaving" ELSE @]

(* Mutant: a pong that does not come in time is not counted. *)
PatientPing(k, how) ==
  /\ cn[k] # Nothing /\ cn[k].sv = "serving" /\ ~stopping
  /\ CASE ~cn[k].open -> cn' = [cn EXCEPT ![k].sv = "leaving"]
       [] cn[k].open /\ how = "unsent" -> cn' = Missed(k)
       [] cn[k].open /\ how = "late" -> UNCHANGED cn
       [] cn[k].open /\ how = "answered" ->
            /\ Responding(k)
            /\ cn' = IF cn[k].owed = 0 THEN [cn EXCEPT ![k].missed = 0] ELSE Missed(k)
  /\ UNCHANGED <<active, shown, cl, sessions, limiters, dead, blocked, stopping>>

HeartbeatTick(k, how) ==
  /\ cn[k] # Nothing /\ cn[k].sv = "serving" /\ ~stopping
  /\ CASE ~cn[k].open -> cn' = [cn EXCEPT ![k].sv = "leaving"]
       [] cn[k].open /\ how = "unsent" -> cn' = Missed(k)
       [] cn[k].open /\ how = "late" ->
            cn' = [Missed(k) EXCEPT ![k].owed = @ + 1]
       [] cn[k].open /\ how = "answered" ->
            /\ Responding(k)
            /\ cn' = IF cn[k].owed = 0 THEN [cn EXCEPT ![k].missed = 0] ELSE Missed(k)
  /\ UNCHANGED <<active, shown, cl, sessions, limiters, dead, blocked, stopping>>

HeartbeatStops(k) ==
  /\ cn[k] # Nothing /\ cn[k].sv = "serving" /\ stopping
  /\ cn' = [cn EXCEPT ![k].sv = "leaving"]
  /\ UNCHANGED <<active, shown, cl, sessions, limiters, dead, blocked, stopping>>

(* The deferred calls, last first: the limiter, the registry, the           *)
(* connection. The first two go by the subdomain, whoever has it now.       *)
DropLimiter(k) ==
  /\ cn[k] # Nothing /\ cn[k].sv = "leaving"
  /\ limiters' = [limiters EXCEPT ![cn[k].sub] = Nothing]
  /\ cn' = [cn EXCEPT ![k].sv = "unlimited"]
  /\ UNCHANGED <<active, shown, cl, sessions, dead, blocked, stopping>>

Leave(k) ==
  /\ cn[k] # Nothing /\ cn[k].sv = "unlimited"
  /\ sessions' = [sessions EXCEPT ![cn[k].sub] = Nothing]
  /\ cn' = Over(cn, k, cn[k].told)
  /\ UNCHANGED <<active, shown, cl, limiters, dead, blocked, stopping>>

-----------------------------------------------------------------------------
(* OpenStream meets a closed session, and then unregisters its subdomain.   *)
LookupDead(s) ==
  /\ dead = Nothing /\ s \notin blocked /\ sessions[s] # Nothing
  /\ ~cn[sessions[s]].open
  /\ dead' = s
  /\ UNCHANGED <<active, shown, cl, cn, sessions, limiters, blocked, stopping>>

UnregisterDead ==
  /\ dead # Nothing
  /\ sessions' = [sessions EXCEPT ![dead] = Nothing]
  /\ dead' = Nothing
  /\ UNCHANGED <<active, shown, cl, cn, limiters, blocked, stopping>>

Block(s) ==
  /\ blocked' = blocked \cup {s}
  /\ UNCHANGED <<active, shown, cl, cn, sessions, limiters, dead, stopping>>

Unblock(s) ==
  /\ blocked' = blocked \ {s}
  /\ UNCHANGED <<active, shown, cl, cn, sessions, limiters, dead, stopping>>

Shutdown ==
  /\ MayStop /\ ~stopping
  /\ stopping' = TRUE
  /\ UNCHANGED <<active, shown, cl, cn, sessions, limiters, dead, blocked>>

(* The network between the two drops the connection.                        *)
Drop(k) ==
  /\ cn[k] # Nothing /\ cn[k].open
  /\ cn' = [cn EXCEPT ![k].open = FALSE]
  /\ UNCHANGED <<active, shown, cl, sessions, limiters, dead, blocked, stopping>>

Connect(c) ==
  \/ ConnectEnds(c) \/ StartDial(c) \/ DialFails(c) \/ SendRegister(c) \/ ReceiveRegistered(c)
  \/ \E k \in Conns : Dial(c, k)
  \/ \E seen \in BOOLEAN : SessionEnds(c, seen)

Handler(k) ==
  \/ GiveUpReading(k) \/ Register(k) \/ HeartbeatStops(k) \/ DropLimiter(k) \/ Leave(k)
  \/ \E b \in BOOLEAN : Respond(k, b) \/ \E s \in Subdomains : Decide(k, s, b)
  \/ \E how \in {"late", "answered"} : HeartbeatTick(k, how)

Next ==
  \/ \E c \in Clients : Expose(c) \/ Connect(c)
  \/ \E seen \in BOOLEAN : Unexpose(seen)
  \/ \E k \in Conns : Handler(k) \/ HeartbeatTick(k, "unsent") \/ Drop(k)
  \/ \E s \in Subdomains : LookupDead(s)
  \/ \E s \in Blockable : Block(s) \/ Unblock(s)
  \/ UnregisterDead \/ Shutdown

(* Go runs every goroutine that can run, and timers and deadlines fire. No  *)
(* fault is ever due: a ping need not fail to be sent.                      *)
Fairness ==
  /\ \A c \in Clients : WF_tunnelVars(Connect(c))
  /\ \A k \in Conns : WF_tunnelVars(Handler(k))

Spec == Init /\ [][Next]_tunnelVars /\ Fairness

-----------------------------------------------------------------------------
(* The registry only leads to connections whose handler will take them out  *)
(* again, under their own subdomain; a name is free for others before its   *)
(* limiter is.                                                              *)
RegistryTended ==
  \A s \in Subdomains :
    sessions[s] # Nothing =>
      /\ cn[sessions[s]] # Nothing
      /\ cn[sessions[s]].sub = s
      /\ cn[sessions[s]].sv \in {"registered", "serving", "leaving", "unlimited"}

(* A tunnel that both ends serve is found by requests, and limited. (A      *)
(* client that asks for its old subdomain again can lose both to the        *)
(* handler of its earlier connection; the code's own client is never given  *)
(* the old one.)                                                            *)
ServedIsRouted ==
  \A k \in Live :
    cn[k].sv = "serving" /\ cn[k].open =>
      sessions[cn[k].sub] = k /\ limiters[cn[k].sub] = k

CancelledGone ==
  \A c \in Clients :
    cl[c].cancelled =>
      /\ cl[c].at = "done"
      /\ \A s \in Subdomains : sessions[s] # Nothing => cn[sessions[s]].client # c

(* "Disconnect gracefully closes the reverse tunnel": whatever the clients  *)
(* were doing when they were told, their goroutines end and their           *)
(* subdomains leave the registry for good. A client told while it dials     *)
(* still registers and serves; the pings it does not answer end that        *)
(* tunnel.                                                                  *)
UnexposedGone == <>[]CancelledGone
=============================================================================
