---------------------------- MODULE ExecSessions ----------------------------
(***************************************************************************)
(* Interactive exec sessions: a wallet asks the API server for a           *)
(* challenge, opens a WebSocket with the signed nonce, and the server      *)
(* bridges it either to an exec process of its own runtime (a container in *)
(* LocalTo) or, over P2P messages, to a stream on the provider node.  The  *)
(* process is a shell on a PTY or, for a container in Agents, the          *)
(* exec-agent, which speaks typed frames and wants a KEY_INIT first.       *)
(*                                                                         *)
(* Threads: the client, the WebSocket handler (the main loop of a bridge   *)
(* and its writer goroutine), the P2P read loop of either node, the read   *)
(* loop of a stream, the process, the reaper, and a Stop of the container. *)
(* Sessions are numbered in the order in which challenges are issued: the  *)
(* nonce of a challenge is the number of the session it may open.          *)
(*                                                                         *)
(* A frame is a record of its type and its number in its direction.  On    *)
(* the P2P link the type is gone: a payload has a first byte, which is the *)
(* type of a control frame or the first byte of the data.  That byte is    *)
(* "hi" (0x80) for what the client encrypts, "lo" (0x00) for what the      *)
(* agent encrypts.                                                         *)
(***************************************************************************)
EXTENDS Integers, Sequences, FiniteSets, SequencesExt

CONSTANTS
    Containers, LocalTo, Agents,
    Owner,          \* the wallet that owns each container
    Wallets,
    SessionCap,     \* maxSessionsPerContainer of the API server
    StreamCap,      \* maxStreamsPerContainer of the provider
    ChanCap,        \* capacity of a relay's data channel
    Nothing,
    MaxSessions, MaxFrames, MaxLost, MaxStops

VARIABLES
    up,         \* containers that run
    stopping,   \* containers whose Stop has yet to close its streams
    chal,       \* outstanding challenges: records [n, c, w]
    issued,     \* challenges issued so far
    sess,       \* the API server's session records: n -> [c, w] or Nothing
    bridge,     \* the WebSocket handler of each session
    of,         \* the container of each session (Nothing before the upgrade)
    relay,      \* sessions with a registered relay
    dataCh,     \* what a relay has for the writer of its bridge
    closeCh,    \* a relay was told that the session ended
    writer,     \* the writer goroutine: "none", "on", "done"
    wsIn,       \* frames the client sent and the bridge has not read
    client,     \* the client: [open, sent, got]
    toProv, toReq,  \* P2P messages in flight, in order
    opening,    \* the session whose ExecOpen the provider is handling
    live,       \* streams that are not closed
    reg,        \* streams in the provider's ExecStreamManager
    proc,       \* the process: "none", "wait" (for KEY_INIT), "run", "quit", "dead"
    heard,      \* frames the process took from its stdin
    out,        \* frames on its stdout that nobody has read yet
    made,       \* output frames it produced
    lost, stops

vars == <<up, stopping, chal, issued, sess, bridge, of, relay, dataCh, closeCh, writer,
          wsIn, client, toProv, toReq, opening, live, reg, proc, heard, out, made, lost, stops>>

apiVars  == <<chal, issued, sess, bridge, of>>
reqVars  == <<relay, dataCh, closeCh, writer>>
provVars == <<opening, live, reg>>
procVars == <<proc, heard, out, made>>
linkVars == <<toProv, toReq, lost>>
hostVars == <<up, stopping, stops>>

Sessions == 1..MaxSessions

\* The frame types both frame protocols name; 0x02 to 0x08 are control frames.
Control == {"resize", "ping", "pong", "close", "error", "keyinit", "keyack"}

Init ==
    /\ up = Containers /\ stopping = {}
    /\ chal = {} /\ issued = 0
    /\ sess = [s \in Sessions |-> Nothing]
    /\ bridge = [s \in Sessions |-> "none"]
    /\ of = [s \in Sessions |-> Nothing]
    /\ relay = {}
    /\ dataCh = [s \in Sessions |-> <<>>]
    /\ closeCh = [s \in Sessions |-> FALSE]
    /\ writer = [s \in Sessions |-> "none"]
    /\ wsIn = [s \in Sessions |-> <<>>]
    /\ client = [s \in Sessions |-> [open |-> FALSE, sent |-> <<>>, got |-> <<>>]]
    /\ toProv = <<>> /\ toReq = <<>>
    /\ opening = Nothing /\ live = {} /\ reg = {}
    /\ proc = [s \in Sessions |-> "none"]
    /\ heard = [s \in Sessions |-> <<>>]
    /\ out = [s \in Sessions |-> <<>>]
    /\ made = [s \in Sessions |-> 0]
    /\ lost = 0 /\ stops = 0

Message(op, s, first, n) == [op |-> op, s |-> s, first |-> first, n |-> n]
Frame(t, n) == [t |-> t, n |-> n]
Keyed(s) == of[s] \in Agents
Remote(s) == of[s] \notin LocalTo

-----------------------------------------------------------------------------
(***************************************************************************)
(* The challenge and the session record                                    *)
(***************************************************************************)

\* ExecSessionManager.CreateChallenge: an unused nonce for one container and wallet.
NewChallenge(w, c) ==
    /\ issued' = issued + 1
    /\ chal' = chal \cup {[n |-> issued + 1, c |-> c, w |-> w]}

\* handleExecChallenge: the container must run and the wallet must own it.
CreateChallenge(w, c) ==
    /\ issued < MaxSessions
    /\ c \in up
    /\ Owner[c] = w
    /\ NewChallenge(w, c)
    /\ UNCHANGED <<sess, bridge, of, wsIn, client>>
    /\ UNCHANGED <<reqVars, provVars, procVars, linkVars, hostVars>>

\* ValidateChallenge of an expired nonce, and the reaper's sweep of challenges.
ExpireChallenge(ch) ==
    /\ ch \in chal
    /\ chal' = chal \ {ch}
    /\ UNCHANGED <<issued, sess, bridge, of, wsIn, client>>
    /\ UNCHANGED <<reqVars, provVars, procVars, linkVars, hostVars>>

\* What ValidateChallenge leaves of the outstanding challenges.
ChallengeKept(ch) == chal
ValidateChallenge(ch) == chal \ {ch}

SessionsOf(c) == {s \in Sessions : sess[s] # Nothing /\ sess[s].c = c}

\* The first part of handleExecWebSocket: consume the nonce, then AddSession,
\* which counts the records of the container.  The session id is generated
\* here: the smallest number not used yet.
HandleExecWebSocket(ch) ==
    /\ ch \in chal
    /\ chal' = ValidateChallenge(ch)
    /\ \/ Cardinality(SessionsOf(ch.c)) >= SessionCap /\ UNCHANGED <<sess, bridge, of>>
       \/ /\ Cardinality(SessionsOf(ch.c)) < SessionCap
          /\ \E s \in Sessions :
                /\ bridge[s] = "none"
                /\ \A t \in 1..(s - 1) : bridge[t] # "none"
                /\ sess' = [sess EXCEPT ![s] = [c |-> ch.c, w |-> ch.w, n |-> ch.n]]
                /\ bridge' = [bridge EXCEPT ![s] = "upgrade"]
                /\ of' = [of EXCEPT ![s] = ch.c]
    /\ UNCHANGED <<issued, wsIn, client>>
    /\ UNCHANGED <<reqVars, provVars, procVars, linkVars, hostVars>>

\* The deferred cleanup of a bridge: the connection is closed, the relay and
\* the session record are removed.  relayCancel ends the writer.
Over(s) ==
    /\ bridge' = [bridge EXCEPT ![s] = "over"]
    /\ sess' = [sess EXCEPT ![s] = Nothing]
    /\ relay' = relay \ {s}
    /\ writer' = [writer EXCEPT ![s] = IF @ = "on" THEN "done" ELSE @]
    /\ client' = [client EXCEPT ![s].open = FALSE]
    /\ wsIn' = [wsIn EXCEPT ![s] = <<>>]
    /\ dataCh' = [dataCh EXCEPT ![s] = <<>>]

\* Upgrade: on failure the record is removed again.  An upgraded client of an
\* agent starts with KEY_INIT.
Upgrade(s, ok) ==
    /\ bridge[s] = "upgrade"
    /\ bridge' = [bridge EXCEPT ![s] = IF ok THEN "start" ELSE "over"]
    /\ sess' = IF ok THEN sess ELSE [sess EXCEPT ![s] = Nothing]
    /\ LET first == IF Keyed(s) /\ ok THEN <<Frame("keyinit", 1)>> ELSE <<>>
       IN /\ client' = [client EXCEPT ![s] = [open |-> ok, sent |-> first, got |-> <<>>]]
          /\ wsIn' = [wsIn EXCEPT ![s] = first]
    /\ UNCHANGED <<chal, issued, of>>
    /\ UNCHANGED <<reqVars, provVars, procVars, linkVars, hostVars>>

\* reapLoop drops the record of a session that has been idle too long, and
\* nothing else of it.
ReapSession(s) ==
    /\ sess[s] # Nothing
    /\ bridge[s] = "run"
    /\ sess' = [sess EXCEPT ![s] = Nothing]
    /\ UNCHANGED <<chal, issued, bridge, of, wsIn, client>>
    /\ UNCHANGED <<reqVars, provVars, procVars, linkVars, hostVars>>

-----------------------------------------------------------------------------
(***************************************************************************)
(* The exec process                                                        *)
(***************************************************************************)

Started(s) == [proc EXCEPT ![s] = IF Keyed(s) THEN "wait" ELSE "run"]

\* The process takes a frame from its stdin.  The agent (handleSession) wants
\* KEY_INIT first and answers KEY_ACK; afterwards it answers PING, ends on CLOSE,
\* and, once its shell has exited, notices that with the next frame.
Take(s, f) ==
    LET ends == \/ proc[s] = "wait" /\ f.t # "keyinit"
                \/ proc[s] = "quit"
                \/ Keyed(s) /\ f.t = "close"
        answer == CASE proc[s] = "wait" /\ f.t = "keyinit" -> {"keyack"}
                    [] proc[s] = "run" /\ Keyed(s) /\ f.t = "ping" -> {"pong"}
                    [] OTHER -> {}
    IN IF proc[s] \in {"none", "dead"}
       THEN UNCHANGED procVars
       ELSE /\ proc' = [proc EXCEPT ![s] = IF ends THEN "dead" ELSE "run"]
            /\ heard' = [heard EXCEPT ![s] = Append(@, f)]
            /\ out' = [out EXCEPT ![s] = @ \o SetToSeq({Frame(t, made[s] + 1) : t \in answer})]
            /\ made' = [made EXCEPT ![s] = @ + Cardinality(answer)]

ShellOutput(s) ==
    /\ proc[s] = "run"
    /\ made[s] < MaxFrames
    /\ made' = [made EXCEPT ![s] = @ + 1]
    /\ out' = [out EXCEPT ![s] = Append(@, Frame("data", made[s] + 1))]
    /\ UNCHANGED <<proc, heard, wsIn, client>>
    /\ UNCHANGED <<apiVars, reqVars, provVars, linkVars, hostVars>>

\* A shell on a PTY ends its stdout; the agent's reader still waits for a frame.
ShellExits(s) ==
    /\ proc[s] = "run"
    /\ proc' = [proc EXCEPT ![s] = IF Keyed(s) THEN "quit" ELSE "dead"]
    /\ UNCHANGED <<heard, out, made, wsIn, client>>
    /\ UNCHANGED <<apiVars, reqVars, provVars, linkVars, hostVars>>

-----------------------------------------------------------------------------
(***************************************************************************)
(* The client                                                              *)
(***************************************************************************)

Told(s, t) == \E i \in DOMAIN client[s].got : client[s].got[i].t = t

\* negotiateExecSession and the terminal bridges: nothing but KEY_INIT before
\* KEY_ACK, then the terminal size, keystrokes and pings.
SendFrame(s, t) ==
    /\ client[s].open
    /\ t \in {"data", "resize", "ping"}
    /\ Len(client[s].sent) < MaxFrames
    /\ Keyed(s) => Told(s, "keyack")
    /\ LET f == Frame(t, Len(client[s].sent) + 1)
       IN /\ client' = [client EXCEPT ![s].sent = Append(@, f)]
          /\ wsIn' = [wsIn EXCEPT ![s] = Append(@, f)]
    /\ UNCHANGED <<apiVars, reqVars, provVars, procVars, linkVars, hostVars>>

\* The client closes, disconnects, or falls silent past the read deadline.
ClientCloses(s) ==
    /\ client[s].open
    /\ client' = [client EXCEPT ![s].open = FALSE]
    /\ wsIn' = [wsIn EXCEPT ![s] = Append(@, Frame("close", 0))]
    /\ UNCHANGED <<apiVars, reqVars, provVars, procVars, linkVars, hostVars>>

Receives(s, f) == [client EXCEPT ![s].got = IF client[s].open THEN Append(@, f) ELSE @]

-----------------------------------------------------------------------------
(***************************************************************************)
(* bridgeLocalExec: the API server's node runs the container               *)
(***************************************************************************)

ExecLocal(s, ok) ==
    /\ bridge[s] = "start" /\ ~Remote(s)
    /\ \/ /\ ok /\ of[s] \in up
          /\ bridge' = [bridge EXCEPT ![s] = "run"]
          /\ writer' = [writer EXCEPT ![s] = "on"]
          /\ proc' = Started(s)
          /\ UNCHANGED <<sess, relay, dataCh, wsIn, client>>
       \/ /\ ~(ok /\ of[s] \in up)
          /\ Over(s)
          /\ UNCHANGED proc
    /\ UNCHANGED <<chal, issued, of, closeCh, heard, out, made>>
    /\ UNCHANGED <<provVars, linkVars, hostVars>>

\* The main loop reads a frame: every frame goes to an agent with its type; a
\* plain PTY gets data and sizes, and the server answers its pings.
ReadLocal(s) ==
    /\ bridge[s] = "run" /\ ~Remote(s) /\ wsIn[s] # <<>>
    /\ LET f == Head(wsIn[s]) IN
       /\ wsIn' = [wsIn EXCEPT ![s] = Tail(@)]
       /\ bridge' = [bridge EXCEPT ![s] = IF f.t = "close" THEN "closing" ELSE @]
       /\ client' = IF ~Keyed(s) /\ f.t = "ping" THEN Receives(s, Frame("pong", 0)) ELSE client
       /\ CASE f.t = "close" ->
                 proc' = [proc EXCEPT ![s] = "dead"] /\ UNCHANGED <<heard, out, made>>
            [] f.t = "ping" /\ ~Keyed(s) -> UNCHANGED procVars
            [] OTHER -> Take(s, f)
    /\ UNCHANGED <<chal, issued, sess, of>>
    /\ UNCHANGED <<reqVars, provVars, linkVars, hostVars>>

\* The reader goroutine (relayAgentStdoutToWS or its plain form): output in
\* order, then the close frame.
WriteLocal(s) ==
    /\ writer[s] = "on" /\ ~Remote(s)
    /\ out[s] # <<>> \/ proc[s] = "dead"
    /\ IF out[s] # <<>>
       THEN /\ client' = Receives(s, Head(out[s]))
            /\ out' = [out EXCEPT ![s] = Tail(@)]
            /\ UNCHANGED writer
       ELSE /\ client' = Receives(s, Frame("close", 0))
            /\ writer' = [writer EXCEPT ![s] = "done"]
            /\ UNCHANGED out
    /\ UNCHANGED <<relay, dataCh, closeCh, wsIn, proc, heard, made>>
    /\ UNCHANGED <<apiVars, provVars, linkVars, hostVars>>

\* The end of either bridge: the writer is done, or five seconds are over.
FinishBridge(s) ==
    /\ bridge[s] = "closing"
    /\ Over(s)
    /\ UNCHANGED <<chal, issued, of, closeCh>>
    /\ UNCHANGED <<provVars, procVars, linkVars, hostVars>>

-----------------------------------------------------------------------------
(***************************************************************************)
(* bridgeRemoteExec and the requester's side of the P2P relay              *)
(***************************************************************************)

\* The relay is registered, then ExecOpen is sent.
OpenRemote(s, ok) ==
    /\ bridge[s] = "start" /\ Remote(s)
    /\ IF ok
       THEN /\ relay' = relay \cup {s}
            /\ toProv' = Append(toProv, Message("open", s, Nothing, 0))
            /\ bridge' = [bridge EXCEPT ![s] = "run"]
            /\ writer' = [writer EXCEPT ![s] = "on"]
            /\ UNCHANGED <<sess, dataCh, wsIn, client>>
       ELSE Over(s) /\ UNCHANGED toProv
    /\ UNCHANGED <<chal, issued, of, closeCh, toReq, lost>>
    /\ UNCHANGED <<provVars, procVars, hostVars>>

\* What the main loop sends for a frame of the client: DATA loses its type
\* byte, the key exchange keeps it, a size has a message of its own.
Forwarded(s, f) ==
    CASE f.t = "data" -> Message("data", s, IF Keyed(s) THEN "hi" ELSE "text", f.n)
      [] f.t \in {"keyinit", "keyack"} -> Message("data", s, f.t, f.n)
      [] OTHER -> Message(f.t, s, Nothing, f.n)

ReadRemote(s) ==
    /\ bridge[s] = "run" /\ Remote(s) /\ wsIn[s] # <<>>
    /\ LET f == Head(wsIn[s]) IN
       /\ wsIn' = [wsIn EXCEPT ![s] = Tail(@)]
       /\ bridge' = [bridge EXCEPT ![s] = IF f.t = "close" THEN "closing" ELSE @]
       /\ client' = IF f.t = "ping" THEN Receives(s, Frame("pong", 0)) ELSE client
       /\ toProv' = IF f.t = "ping" THEN toProv ELSE Append(toProv, Forwarded(s, f))
    /\ UNCHANGED <<chal, issued, sess, of, toReq, lost>>
    /\ UNCHANGED <<reqVars, provVars, procVars, hostVars>>

\* The requester's handleExecData and handleExecClose.
HandleReply ==
    /\ toReq # <<>>
    /\ LET m == Head(toReq) IN
       /\ toReq' = Tail(toReq)
       /\ dataCh' = IF m.op = "data" /\ m.s \in relay /\ Len(dataCh[m.s]) < ChanCap
                    THEN [dataCh EXCEPT ![m.s] = Append(@, m)] ELSE dataCh
       /\ closeCh' = IF m.op = "close" /\ m.s \in relay
                     THEN [closeCh EXCEPT ![m.s] = TRUE] ELSE closeCh
       /\ relay' = IF m.op = "close" THEN relay \ {m.s} ELSE relay
    /\ UNCHANGED <<writer, wsIn, client, toProv, lost>>
    /\ UNCHANGED <<apiVars, provVars, procVars, hostVars>>

\* What the client makes of a relayed payload: decodeControlFrame for an
\* encrypted terminal, the bytes themselves otherwise.
DecodeControlFrame(s, m) ==
    Frame(IF Keyed(s) /\ m.first \in Control THEN m.first ELSE "data", m.n)

\* The writer goroutine takes whichever of its channels is ready.
WriteRemote(s) ==
    /\ writer[s] = "on" /\ Remote(s)
    /\ \/ /\ dataCh[s] # <<>>
          /\ client' = Receives(s, DecodeControlFrame(s, Head(dataCh[s])))
          /\ dataCh' = [dataCh EXCEPT ![s] = Tail(@)]
          /\ UNCHANGED writer
       \/ /\ closeCh[s]
          /\ client' = Receives(s, Frame("close", 0))
          /\ writer' = [writer EXCEPT ![s] = "done"]
          /\ UNCHANGED dataCh
    /\ UNCHANGED <<relay, closeCh, wsIn>>
    /\ UNCHANGED <<apiVars, provVars, procVars, linkVars, hostVars>>

-----------------------------------------------------------------------------
(***************************************************************************)
(* The provider: its P2P read loop handles one message after the other     *)
(***************************************************************************)

StreamsOf(c) == {s \in reg : of[s] = c}

Closing(S) == SetToSeq({Message("close", s, Nothing, 0) : s \in S})

\* ExecStream.Close of the streams in S that are still open: the process is
\* closed with its stdout, and the requester is told.
CloseStreams(S) ==
    LET now == S \cap live
    IN /\ live' = live \ now
       /\ toReq' = toReq \o Closing(now)
       /\ proc' = [s \in Sessions |-> IF s \in now THEN "dead" ELSE proc[s]]
       /\ out' = [s \in Sessions |-> IF s \in now THEN <<>> ELSE out[s]]

\* handleExecOpen up to the checks on the deployment.
HandleExecOpen ==
    /\ opening = Nothing /\ toProv # <<>> /\ Head(toProv).op = "open"
    /\ LET s == Head(toProv).s IN
       /\ toProv' = Tail(toProv)
       /\ IF of[s] \in up THEN opening' = s /\ UNCHANGED toReq
                          ELSE toReq' = toReq \o Closing({s}) /\ UNCHANGED opening
    /\ UNCHANGED <<lost, live, reg, wsIn, client>>
    /\ UNCHANGED <<apiVars, reqVars, procVars, hostVars>>

\* A handler that answers but forgets to close the stream it could not add.
LeaveStream(s) ==
    /\ proc' = Started(s)
    /\ live' = live \cup {s}
    /\ toReq' = toReq \o Closing({s})
    /\ UNCHANGED reg

\* ExecStreamManager.Add refuses a stream of a container that has its share.
\* The refused stream is closed (one message) and the handler sends its own.
RefuseStream(s) ==
    /\ proc' = [proc EXCEPT ![s] = "dead"]
    /\ toReq' = toReq \o Closing({s}) \o Closing({s})
    /\ UNCHANGED <<live, reg>>

\* The rest of handleExecOpen: ExecRaw or ExecInteractive, newExecStream, Add.
AddStream(s) ==
    IF Cardinality(StreamsOf(of[s])) < StreamCap
    THEN /\ proc' = Started(s)
         /\ live' = live \cup {s}
         /\ reg' = reg \cup {s}
         /\ UNCHANGED toReq
    ELSE RefuseStream(s)

ExecOpened(ok) ==
    /\ opening # Nothing
    /\ opening' = Nothing
    /\ IF ok /\ of[opening] \in up
       THEN AddStream(opening)
       ELSE toReq' = toReq \o Closing({opening}) /\ UNCHANGED <<live, reg, proc>>
    /\ UNCHANGED <<toProv, lost, heard, out, made, wsIn, client>>
    /\ UNCHANGED <<apiVars, reqVars, hostVars>>

\* ExecStream.WriteData: the first byte decides what the agent is given.
Rewrap(s, m) == Frame("data", m.n)
WriteData(s, m) == Frame(IF Keyed(s) /\ m.first \in Control THEN m.first ELSE "data", m.n)

\* handleExecData and handleExecResize: a session without a stream, and a stream
\* that is closed, take nothing.
HandleExecData ==
    /\ opening = Nothing /\ toProv # <<>> /\ Head(toProv).op \in {"data", "resize"}
    /\ LET m == Head(toProv) IN
       /\ toProv' = Tail(toProv)
       /\ IF m.s \in reg \cap live
          THEN Take(m.s, IF m.op = "data" THEN WriteData(m.s, m) ELSE Frame("resize", m.n))
          ELSE UNCHANGED procVars
    /\ UNCHANGED <<toReq, lost, wsIn, client>>
    /\ UNCHANGED <<apiVars, reqVars, provVars, hostVars>>

HandleExecClose ==
    /\ opening = Nothing /\ toProv # <<>> /\ Head(toProv).op = "close"
    /\ toProv' = Tail(toProv)
    /\ CloseStreams(reg \cap {Head(toProv).s})
    /\ UNCHANGED <<lost, opening, reg, heard, made, wsIn, client>>
    /\ UNCHANGED <<apiVars, reqVars, hostVars>>

\* readLoopFramed and readLoopRaw: a DATA frame loses its type byte, a control
\* frame keeps it; the end of the output closes the stream.
ReadLoop(s) ==
    /\ s \in live
    /\ \/ /\ out[s] # <<>>
          /\ LET f == Head(out[s])
                 first == IF ~Keyed(s) THEN "text" ELSE IF f.t = "data" THEN "lo" ELSE f.t
             IN toReq' = Append(toReq, Message("data", s, first, f.n))
          /\ out' = [out EXCEPT ![s] = Tail(@)]
          /\ UNCHANGED <<live, proc>>
       \/ /\ out[s] = <<>> /\ proc[s] = "dead"
          /\ CloseStreams({s})
    /\ UNCHANGED <<toProv, lost, opening, reg, heard, made, wsIn, client>>
    /\ UNCHANGED <<apiVars, reqVars, hostVars>>

\* The goroutine of Add that waits for the end of a stream.
RemoveStream(s) ==
    /\ s \in reg \ live
    /\ reg' = reg \ {s}
    /\ UNCHANGED <<opening, live, wsIn, client>>
    /\ UNCHANGED <<apiVars, reqVars, procVars, linkVars, hostVars>>

\* Stop of a container: its processes end with the task, the record changes,
\* then CloseAllForContainer closes and removes its streams.
StopContainer(c) ==
    /\ c \in up
    /\ stops < MaxStops /\ stops' = stops + 1
    /\ up' = up \ {c}
    /\ stopping' = stopping \cup {c}
    /\ proc' = [s \in Sessions |-> IF of[s] = c /\ proc[s] # "none" THEN "dead" ELSE proc[s]]
    /\ UNCHANGED <<heard, out, made, wsIn, client>>
    /\ UNCHANGED <<apiVars, reqVars, provVars, linkVars>>

CloseAllForContainer(c) ==
    /\ c \in stopping
    /\ stopping' = stopping \ {c}
    /\ CloseStreams(StreamsOf(c))
    /\ reg' = reg \ StreamsOf(c)
    /\ UNCHANGED <<up, stops, toProv, lost, opening, heard, made, wsIn, client>>
    /\ UNCHANGED <<apiVars, reqVars>>

\* A connection breaks with a message in it, or a send fails and is logged.
Lose ==
    /\ lost < MaxLost /\ lost' = lost + 1
    /\ \/ toProv # <<>> /\ toProv' = Tail(toProv) /\ UNCHANGED toReq
       \/ toReq # <<>> /\ toReq' = Tail(toReq) /\ UNCHANGED toProv
    /\ UNCHANGED <<wsIn, client>>
    /\ UNCHANGED <<apiVars, reqVars, provVars, procVars, hostVars>>

-----------------------------------------------------------------------------
Next ==
    \/ \E w \in Wallets, c \in Containers : CreateChallenge(w, c)
    \/ \E ch \in chal : ExpireChallenge(ch) \/ HandleExecWebSocket(ch)
    \/ \E s \in Sessions, ok \in BOOLEAN : Upgrade(s, ok) \/ ExecLocal(s, ok) \/ OpenRemote(s, ok)
    \/ \E s \in Sessions :
          \/ ReapSession(s) \/ ClientCloses(s)
          \/ \E t \in {"data", "resize", "ping"} : SendFrame(s, t)
          \/ ShellOutput(s) \/ ShellExits(s)
          \/ ReadLocal(s) \/ WriteLocal(s) \/ FinishBridge(s)
          \/ ReadRemote(s) \/ WriteRemote(s)
          \/ ReadLoop(s) \/ RemoveStream(s)
    \/ HandleReply \/ HandleExecOpen \/ HandleExecData \/ HandleExecClose
    \/ \E ok \in BOOLEAN : ExecOpened(ok)
    \/ \E c \in Containers : StopContainer(c) \/ CloseAllForContainer(c)
    \/ Lose

Spec == Init /\ [][Next]_vars

-----------------------------------------------------------------------------
InFlight(q, s) == \E i \in DOMAIN q : q[i].s = s

\* One challenge opens at most one session, of its wallet and its container.
ChallengesSpent ==
    \A s, t \in Sessions :
        sess[s] # Nothing =>
            /\ Owner[sess[s].c] = sess[s].w
            /\ sess[t] # Nothing /\ sess[s].n = sess[t].n => s = t

\* A bridge that is over has left neither its record nor its relay behind.
BridgesClean == \A s \in Sessions : bridge[s] = "over" => sess[s] = Nothing /\ s \notin relay

\* Every open stream is registered, so that a Stop finds it, within the limit.
StreamsKnown ==
    /\ live \subseteq reg
    /\ \A c \in Containers : Cardinality(StreamsOf(c)) <= StreamCap

\* While no message is lost neither side outlives the other: once its bridge is
\* over and its messages have arrived a stream is closed, and once a stream is
\* closed and its messages have arrived the bridge has been told.
EndsTogether ==
    lost = 0 => \A s \in Sessions :
        /\ bridge[s] = "over" /\ ~InFlight(toProv, s) /\ opening # s => s \notin live
        /\ bridge[s] = "run" /\ Remote(s) /\ s \notin live /\ opening # s
              /\ ~InFlight(toProv, s) /\ ~InFlight(toReq, s) => closeCh[s]

Increasing(q) == \A i, j \in DOMAIN q : i < j => q[i].n < q[j].n

\* Frames keep their type and their order through both relays: what the process
\* takes is what the client sent, and what the client is shown is what the
\* process wrote, less what was lost on the way.
FramesKept ==
    \A s \in Sessions :
        /\ Increasing(heard[s])
        /\ \A i \in DOMAIN heard[s] : client[s].sent[heard[s][i].n] = heard[s][i]
        /\ LET shown == SelectSeq(client[s].got, LAMBDA f : f.n > 0)
           IN /\ Increasing(shown)
              /\ \A i \in DOMAIN shown : Keyed(s) => (shown[i].n = 1 <=> shown[i].t = "keyack")

\* Exec sessions are sound: single-use challenges, no record, relay or stream
\* left behind, and frames relayed unchanged in order (exec_sessions.go,
\* exec_handler.go, exec_stream.go, exec_handlers.go).
ExecSound == ChallengesSpent /\ BridgesClean /\ StreamsKnown /\ EndsTogether /\ FramesKept

\* "idle sessions" are reaped so that the limits hold: no container has more open
\* bridges than the limit on its sessions (exec_sessions.go).  Reaping drops the
\* record and leaves the bridge open.
BridgesWithinLimit ==
    \A c \in Containers :
        Cardinality({s \in Sessions : of[s] = c /\ bridge[s] = "run"}) <= SessionCap

=============================================================================
