---------------------------- MODULE MessageRouter ----------------------------
(* The pipeline every inbound message passes (internal/p2p/routing.go,      *)
(* HandleMessage) with what it consults: the rate limiters and violation    *)
(* counters, the ban list (banlist.go), the peer scores (peer_scorer.go)    *)
(* and the stake verifier with its cache (stake_verifier.go). Messages of   *)
(* one peer arrive on several connections, each served by a goroutine, and  *)
(* a stake lookup releases every lock while it asks the chain.              *)
(* The outcome of the token bucket, of the nonce check (NonceTracker) and   *)
(* of signature verification is a choice; the limiter's rate is left out.   *)
EXTENDS Integers

CONSTANTS Peers, Conns, Wallets, None,
          Tiers,               \* staking tiers a wallet can have
          BanDuration,         \* tierBanDurations, by tier, "unstaked" and "unknown"
          ScoreBan,            \* the ban of an announced peer with a low score: 1 hour
          ScorerBans,          \* has the scorer been given the ban list?
          InitialScores,       \* scores peers start the model with
          Kinds,               \* kinds of message: does RequiresStake hold?
          CacheTTL, NegativeTTL, ErrorTTL,   \* lifetimes of cached stake
          ViolationWindow,     \* violationWindow: 5 minutes
          MaxMessages, MaxRestarts, MaxTime  \* bounds

VARIABLES clock, chain, lostAt, events, ps,
          peers, wallet, cache, limiters, viol, score, bans, saved,
          frame, messages, restarts

vars == <<clock, chain, lostAt, events, ps, peers, wallet, cache, limiters, viol, score,
          bans, saved, frame, messages, restarts>>
chainVars == <<chain, lostAt, events, ps>>

violationThreshold == 3
Neutral == 500               \* scores, in thousandths
MaxScore == 1000
BanThreshold == 100
Permanent == 0               \* ExpiresAt's zero value

(* eventDeltas, in thousandths: the events the pipeline records. *)
eventDeltas == [valid |-> 1, invalid |-> -50, limited |-> -20, malformed |-> -50]

IdleFrame == [pc |-> "idle", peer |-> None, staked |-> FALSE, wallet |-> None,
              min |-> FALSE, tier |-> "unstaked", at |-> 0, checked |-> 0, next |-> "idle"]

Init ==
  /\ clock = 1
  /\ chain \in [Wallets -> Tiers \cup {"unstaked"}]
  /\ lostAt = [w \in Wallets |-> -CacheTTL]
  /\ events = {}
  /\ ps = FALSE
  /\ peers = {}
  /\ wallet = [p \in Peers |-> None]
  /\ cache = [w \in Wallets |-> None]
  /\ limiters = {}
  /\ viol = [p \in Peers |-> None]
  /\ score \in [Peers -> InitialScores]
  /\ bans = [p \in Peers |-> None]
  /\ saved = [p \in Peers |-> None]
  /\ frame = [c \in Conns |-> IdleFrame]
  /\ messages = 0
  /\ restarts = 0

-----------------------------------------------------------------------------
(* Ban list. *)

IsBanned(p) == bans[p] # None /\ (bans[p].until = Permanent \/ clock <= bans[p].until)

(* Ban: the new entry replaces whatever entry the peer has. *)
Ban(b, p, duration) ==
  [b EXCEPT ![p] = [at |-> clock,
                    until |-> IF duration > 0 THEN clock + duration ELSE Permanent]]

(* RecordEvent and checkThresholds: the score moves, clamped, and a score   *)
(* below the threshold bans, for good if the peer has not announced. At the *)
(* threshold itself floating-point rounding decides.                        *)
Clamped(s) == IF s > MaxScore THEN MaxScore ELSE IF s < 0 THEN 0 ELSE s

RecordEvent(b, p, event) ==
  LET old == IF score[p] = None THEN Neutral ELSE score[p]
      s == Clamped(old + eventDeltas[event])
  IN  /\ score' = [score EXCEPT ![p] = s]
      /\ \/ s >= BanThreshold /\ bans' = b
         \/ /\ s <= BanThreshold
            /\ bans' = IF ScorerBans
                       THEN Ban(b, p, IF wallet[p] = None THEN 0 ELSE ScoreBan)
                       ELSE b

-----------------------------------------------------------------------------
(* Stake verifier. *)

TTL(info) == IF info.err THEN ErrorTTL ELSE IF info.min THEN CacheTTL ELSE NegativeTTL

Fresh(w) == cache[w] # None /\ clock - cache[w].at < TTL(cache[w])

(* GetTier's reading of a lookup's result. *)
TierOf(info) == IF info.err THEN "unknown" ELSE IF info.min THEN info.tier ELSE "unstaked"

(* IsStaked and GetTier: the goroutine continues at next with an answer, or *)
(* goes to the chain first when the wallet's entry is missing or too old.   *)
Ask(c, f, next) ==
  LET w == wallet[f.peer]
      asked == [f EXCEPT !.wallet = w, !.at = clock, !.next = next]
  IN  \/ /\ w = None
         /\ frame' = [frame EXCEPT ![c] =
                        [asked EXCEPT !.pc = next, !.min = FALSE, !.tier = "unstaked"]]
      \/ /\ w # None /\ ~ps
         /\ frame' = [frame EXCEPT ![c] =
                        [asked EXCEPT !.pc = next, !.min = FALSE, !.tier = "unknown"]]
      \/ /\ w # None /\ ps /\ Fresh(w)
         /\ frame' = [frame EXCEPT ![c] =
                        [asked EXCEPT !.pc = next, !.min = cache[w].min,
                                      !.tier = TierOf(cache[w])]]
      \/ /\ w # None /\ ps /\ ~Fresh(w)
         /\ frame' = [frame EXCEPT ![c] = [asked EXCEPT !.pc = "fetch"]]

(* fetchStakeInfo's results: the chain's answer, or an error on either call; *)
(* the entry is dated when the fetch began.                                  *)
Fetched(w, at) ==
  {[min |-> FALSE, tier |-> "unknown", err |-> TRUE, at |-> at],
   [min |-> chain[w] # "unstaked", tier |-> "unknown", err |-> TRUE, at |-> at],
   [min |-> chain[w] # "unstaked", tier |-> chain[w], err |-> FALSE, at |-> at]}


(* getCachedOrFetch, back from the chain: the entry is stored whatever has  *)
(* happened to the wallet in the meantime.                                  *)
Fetch(c) ==
  /\ frame[c].pc = "fetch"
  /\ \E info \in Fetched(frame[c].wallet, frame[c].at) :
       /\ cache' = [cache EXCEPT ![frame[c].wallet] = info]
       /\ frame' = [frame EXCEPT ![c].pc = frame[c].next, ![c].min = info.min,
                                 ![c].tier = TierOf(info)]
  /\ UNCHANGED <<clock, chainVars, peers, wallet, limiters, viol, score, bans, saved,
                 messages, restarts>>

-----------------------------------------------------------------------------
(* HandleMessage. *)

Done(c) == frame' = [frame EXCEPT ![c] = IdleFrame]

(* Step 1: the peer's limiter, sized by its tier when it is first needed. *)
Receive(c, p, staked) ==
  LET f == [IdleFrame EXCEPT !.peer = p, !.staked = staked]
  IN  /\ frame[c].pc = "idle" /\ messages < MaxMessages
      /\ messages' = messages + 1
      /\ \/ p \in limiters /\ frame' = [frame EXCEPT ![c] = [f EXCEPT !.pc = "rate"]]
         \/ p \notin limiters /\ Ask(c, f, "limiter")
      /\ UNCHANGED <<clock, chainVars, peers, wallet, cache, limiters, viol, score, bans,
                     saved, restarts>>

GetPeerLimiter(c) ==
  /\ frame[c].pc = "limiter"
  /\ limiters' = limiters \cup {frame[c].peer}
  /\ frame' = [frame EXCEPT ![c] = [IdleFrame EXCEPT !.pc = "rate", !.peer = frame[c].peer,
                                                     !.staked = frame[c].staked]]
  /\ UNCHANGED <<clock, chainVars, peers, wallet, cache, viol, score, bans, saved,
                 messages, restarts>>

(* recordViolation: the third violation in a window goes on to ban. The     *)
(* first one is stored in a second step: another may be counted in between. *)
LimitHit(c) ==
  LET p == frame[c].peer
      hit == [viol[p] EXCEPT !.count = @ + 1]
  IN  /\ frame[c].pc = "rate"
      /\ \/ /\ viol[p] = None
            /\ frame' = [frame EXCEPT ![c].pc = "store", ![c].at = clock]
            /\ UNCHANGED <<viol, score, bans>>
         \/ /\ viol[p] # None /\ clock - viol[p].first > ViolationWindow
            /\ viol' = [viol EXCEPT ![p] = [count |-> 1, first |-> clock]]
            /\ RecordEvent(bans, p, "limited") /\ Done(c)
         \/ /\ viol[p] # None /\ clock - viol[p].first <= ViolationWindow
            /\ viol' = [viol EXCEPT ![p] = hit]
            /\ \/ /\ hit.count < violationThreshold
                  /\ RecordEvent(bans, p, "limited") /\ Done(c)
               \/ /\ hit.count >= violationThreshold
                  /\ Ask(c, frame[c], "ban") /\ UNCHANGED <<score, bans>>
      /\ UNCHANGED <<clock, chainVars, peers, wallet, cache, limiters, saved, messages,
                     restarts>>

StoreViolation(c) ==
  /\ frame[c].pc = "store"
  /\ viol' = [viol EXCEPT ![frame[c].peer] = [count |-> 1, first |-> frame[c].at]]
  /\ RecordEvent(bans, frame[c].peer, "limited") /\ Done(c)
  /\ UNCHANGED <<clock, chainVars, peers, wallet, cache, limiters, saved, messages, restarts>>

AutoBan(c) ==
  LET p == frame[c].peer
  IN  /\ frame[c].pc = "ban"
      /\ viol' = [viol EXCEPT ![p] = None]
      /\ RecordEvent(Ban(bans, p, BanDuration[frame[c].tier]), p, "limited") /\ Done(c)
      /\ UNCHANGED <<clock, chainVars, peers, wallet, cache, limiters, saved, messages,
                     restarts>>

(* Step 2: a message of a banned peer is dropped, and not scored. *)
Allow(c) ==
  /\ frame[c].pc = "rate"
  /\ \/ IsBanned(frame[c].peer) /\ Done(c)
     \/ /\ ~IsBanned(frame[c].peer)
        /\ frame' = [frame EXCEPT ![c].pc = "validate", ![c].checked = clock]
  /\ UNCHANGED <<clock, chainVars, peers, wallet, cache, limiters, viol, score, bans,
                 saved, messages, restarts>>

(* Steps 3 to 5: nonce and timestamp, protocol version, signature. A        *)
(* refused version is not scored; the others are.                           *)
Reject(c) ==
  /\ frame[c].pc = "validate"
  /\ \/ UNCHANGED <<score, bans>>
     \/ RecordEvent(bans, frame[c].peer, "invalid")
  /\ Done(c)
  /\ UNCHANGED <<clock, chainVars, peers, wallet, cache, limiters, viol, saved, messages,
                 restarts>>

Accept(c) ==
  /\ frame[c].pc = "validate"
  /\ \/ ~frame[c].staked /\ frame' = [frame EXCEPT ![c].pc = "dispatch"]
     \/ frame[c].staked /\ Ask(c, frame[c], "gate")
  /\ UNCHANGED <<clock, chainVars, peers, wallet, cache, limiters, viol, score, bans,
                 saved, messages, restarts>>

(* Step 6: a privileged message needs stake. *)
Gate(c) ==
  /\ frame[c].pc = "gate"
  /\ \/ /\ frame[c].min
        /\ frame' = [frame EXCEPT ![c].pc = "dispatch"] /\ UNCHANGED <<score, bans>>
     \/ ~frame[c].min /\ RecordEvent(bans, frame[c].peer, "invalid") /\ Done(c)
  /\ UNCHANGED <<clock, chainVars, peers, wallet, cache, limiters, viol, saved, messages,
                 restarts>>

(* Steps 7 and 8: no handler, or the handler runs and its result is scored. *)
Dispatch(c) ==
  /\ frame[c].pc = "dispatch"
  /\ \/ UNCHANGED <<score, bans>>
     \/ \E result \in {"valid", "malformed"} : RecordEvent(bans, frame[c].peer, result)
  /\ Done(c)
  /\ UNCHANGED <<clock, chainVars, peers, wallet, cache, limiters, viol, saved, messages,
                 restarts>>

-----------------------------------------------------------------------------
(* Peers, announcements, housekeeping. *)

AddPeer(p) ==
  /\ peers' = peers \cup {p}
  /\ UNCHANGED <<clock, chainVars, wallet, cache, limiters, viol, score, bans, saved,
                 frame, messages, restarts>>

(* RemovePeer: the router forgets the peer's score and its wallet, and the  *)
(* wallet's cached stake unless another peer announced the same wallet.     *)
RemovePeer(p) ==
  LET w == wallet[p]
  IN  /\ p \in peers
      /\ peers' = peers \ {p}
      /\ score' = [score EXCEPT ![p] = None]
      /\ wallet' = [wallet EXCEPT ![p] = None]
      /\ cache' = IF w = None \/ \E q \in Peers \ {p} : wallet[q] = w THEN cache
                  ELSE [cache EXCEPT ![w] = None]
      /\ UNCHANGED <<clock, chainVars, limiters, viol, bans, saved, frame, messages,
                     restarts>>

(* handleAnnounceMessage: only a peer's first announcement is taken. *)
Announce(p, w) ==
  /\ wallet[p] = None
  /\ wallet' = [wallet EXCEPT ![p] = w]
  /\ UNCHANGED <<clock, chainVars, peers, cache, limiters, viol, score, bans, saved, frame,
                 messages, restarts>>

CleanupStaleLimiters ==
  /\ limiters' = limiters \cap peers
  /\ viol' = [p \in Peers |-> IF p \in peers THEN viol[p] ELSE None]
  /\ UNCHANGED <<clock, chainVars, peers, wallet, cache, score, bans, saved, frame,
                 messages, restarts>>

CleanExpired ==
  /\ bans' = [p \in Peers |-> IF IsBanned(p) THEN bans[p] ELSE None]
  /\ UNCHANGED <<clock, chainVars, peers, wallet, cache, limiters, viol, score, saved,
                 frame, messages, restarts>>

(* InvalidateWallet, on a stake or slash event from the chain. *)
StakeEvent(w) ==
  /\ w \in events
  /\ events' = events \ {w}
  /\ cache' = [cache EXCEPT ![w] = None]
  /\ UNCHANGED <<clock, chain, lostAt, ps, peers, wallet, limiters, viol, score, bans,
                 saved, frame, messages, restarts>>

SetPaymentService ==
  /\ ~ps /\ ps' = TRUE
  /\ UNCHANGED <<clock, chain, lostAt, events, peers, wallet, cache, limiters, viol, score,
                 bans, saved, frame, messages, restarts>>

(* The staking contract: a wallet's tier changes and an event is emitted. *)
StakeChange(w, t) ==
  /\ chain[w] # t
  /\ chain' = [chain EXCEPT ![w] = t]
  /\ lostAt' = IF t = "unstaked" THEN [lostAt EXCEPT ![w] = clock] ELSE lostAt
  /\ events' = events \cup {w}
  /\ UNCHANGED <<clock, ps, peers, wallet, cache, limiters, viol, score, bans, saved,
                 frame, messages, restarts>>

(* A restart keeps the ban list only. It is saved on a graceful shutdown; a *)
(* crash goes back to the list of the last one.                             *)
Restart(graceful) ==
  /\ restarts < MaxRestarts /\ restarts' = restarts + 1
  /\ saved' = IF graceful THEN bans ELSE saved
  /\ bans' = saved'
  /\ frame' = [c \in Conns |-> IdleFrame]
  /\ peers' = {} /\ limiters' = {} /\ ps' = FALSE /\ events' = {}
  /\ wallet' = [p \in Peers |-> None] /\ cache' = [w \in Wallets |-> None]
  /\ viol' = [p \in Peers |-> None] /\ score' = [p \in Peers |-> None]
  /\ UNCHANGED <<clock, chain, lostAt, messages>>

Tick ==
  /\ clock < MaxTime /\ clock' = clock + 1
  /\ UNCHANGED <<chainVars, peers, wallet, cache, limiters, viol, score, bans, saved,
                 frame, messages, restarts>>

Next ==
  \/ \E c \in Conns :
       \/ \E p \in Peers, staked \in Kinds : Receive(c, p, staked)
       \/ GetPeerLimiter(c) \/ Allow(c) \/ LimitHit(c) \/ StoreViolation(c) \/ AutoBan(c)
       \/ Reject(c) \/ Accept(c) \/ Fetch(c) \/ Gate(c) \/ Dispatch(c)
  \/ \E p \in Peers : AddPeer(p) \/ RemovePeer(p) \/ \E w \in Wallets : Announce(p, w)
  \/ \E w \in Wallets : StakeEvent(w) \/ \E t \in Tiers \cup {"unstaked"} : StakeChange(w, t)
  \/ CleanupStaleLimiters \/ CleanExpired \/ SetPaymentService
  \/ \E graceful \in BOOLEAN : Restart(graceful)
  \/ Tick

Spec == Init /\ [][Next]_vars

-----------------------------------------------------------------------------
(* A message passes the stake gate only if the wallet its sender announced  *)
(* held stake at some moment less than the cache lifetime before the gate   *)
(* asked, however lookups, stake events and removals of peers interleave.   *)
StakeBacked ==
  \A c \in Conns :
    (frame[c].pc = "dispatch" /\ frame[c].staked) =>
      /\ frame[c].wallet # None
      /\ \/ chain[frame[c].wallet] # "unstaked"
         \/ frame[c].at - lostAt[frame[c].wallet] < CacheTTL

(* A message of a banned peer is handled only if the ban came after the     *)
(* pipeline had looked: bans of the past, those carried over a graceful     *)
(* restart included, are respected.                                         *)
BansRespected ==
  \A c \in Conns :
    (frame[c].pc \in {"validate", "gate", "dispatch"} /\ IsBanned(frame[c].peer))
      => bans[frame[c].peer].at >= frame[c].checked

(* Three violations counted in a window always end in a ban: a counter that *)
(* has reached the threshold is on its way to AutoBan.                      *)
ViolationsPunished ==
  \A p \in Peers :
    (viol[p] # None /\ viol[p].count >= violationThreshold) =>
      \E c \in Conns : frame[c].peer = p /\ (frame[c].pc = "ban" \/ frame[c].next = "ban")

=============================================================================
