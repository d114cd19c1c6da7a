---------------------------- MODULE NonceTracker ----------------------------
(* Replay protection (internal/p2p/nonce_tracker.go), as the message        *)
(* pipeline and the reverse tunnel use it. Check reads the clock before it  *)
(* takes the lock, so a check and the cleaning of expired nonces interleave *)
(* between the two; MaxStall bounds how long a goroutine can be held there. *)
EXTENDS Integers, TLAPS

CONSTANTS Checkers,      \* goroutines that validate messages
          Nonces,        \* nonces, the zero nonce left out: it is always refused
          MaxAge,        \* maxAge, 5 minutes in the code
          FutureSkew,    \* futureSkew, 30 seconds in the code
          NonceWindow,   \* nonceWindow, 10 minutes in the code
          MaxStall,      \* bound on the time between the clock read and the lock
          MaxTime        \* bound on the clock

(* The window covers the age, the skew and the longest stall of a check. In *)
(* the code the window is 10 minutes, the age 5 minutes and the skew 30     *)
(* seconds: a check may stall for up to 4 and a half minutes.               *)
ASSUME WindowCovers ==
  /\ MaxAge \in Nat /\ FutureSkew \in Nat /\ NonceWindow \in Nat
  /\ MaxStall \in Nat /\ MaxTime \in Nat
  /\ NonceWindow >= MaxAge + FutureSkew + MaxStall

VARIABLES clock,         \* time
          seen,          \* seen: when each nonce was recorded, or Unseen
          check,         \* the call to Check each goroutine is in
          accepted       \* the messages Check has let through, by nonce and timestamp

vars == <<clock, seen, check, accepted>>

Unseen == -1
Idle == [nonce |-> "none", ts |-> 0, at |-> 0]

TypeOK ==
  /\ clock \in Nat
  /\ seen \in [Nonces -> Nat \cup {Unseen}]
  /\ \A c \in Checkers :
       \/ check[c] = Idle
       \/ check[c] \in [nonce : Nonces, ts : Nat, at : Nat]
  /\ DOMAIN check = Checkers
  /\ accepted \subseteq (Nonces \X Nat)

Init ==
  /\ clock = 0
  /\ seen = [n \in Nonces |-> Unseen]
  /\ check = [c \in Checkers |-> Idle]
  /\ accepted = {}

-----------------------------------------------------------------------------
(* Is a message stamped ts acceptable to a check that read the clock as at? *)
InWindow(ts, at) == at - ts <= MaxAge /\ ts - at <= FutureSkew

(* Check, up to the lock: the clock is read, and a message that is too old  *)
(* or too far in the future is refused. A message may come any number of    *)
(* times, on any connection.                                                *)
Begin(c, n, ts) ==
  /\ check[c] = Idle
  /\ InWindow(ts, clock)
  /\ check' = [check EXCEPT ![c] = [nonce |-> n, ts |-> ts, at |-> clock]]
  /\ UNCHANGED <<clock, seen, accepted>>

(* Check, under the lock: a nonce seen before is refused, another is        *)
(* recorded with the time read at the start, and its message accepted.      *)
Finish(c) ==
  /\ check[c] # Idle
  /\ check' = [check EXCEPT ![c] = Idle]
  /\ \/ /\ seen[check[c].nonce] = Unseen
        /\ seen' = [seen EXCEPT ![check[c].nonce] = check[c].at]
        /\ accepted' = accepted \cup {<<check[c].nonce, check[c].ts>>}
     \/ /\ seen[check[c].nonce] # Unseen
        /\ UNCHANGED <<seen, accepted>>
  /\ UNCHANGED clock

(* Mutant: nonces are forgotten as soon as their message is too old for the *)
(* goroutine that cleans, not when the window has passed.                   *)
CleanAtMaxAge ==
  /\ seen' = [n \in Nonces |-> IF seen[n] < clock - MaxAge THEN Unseen ELSE seen[n]]
  /\ UNCHANGED <<clock, check, accepted>>

(* CleanExpired: forgets the nonces recorded before the window. *)
CleanExpired ==
  /\ seen' = [n \in Nonces |-> IF seen[n] < clock - NonceWindow THEN Unseen ELSE seen[n]]
  /\ UNCHANGED <<clock, check, accepted>>

Tick ==
  /\ clock < MaxTime
  /\ \A c \in Checkers : check[c] # Idle => clock - check[c].at < MaxStall
  /\ clock' = clock + 1
  /\ UNCHANGED <<seen, check, accepted>>

Next ==
  \/ \E c \in Checkers, n \in Nonces, ts \in 0 .. MaxTime + FutureSkew : Begin(c, n, ts)
  \/ \E c \in Checkers : Finish(c)
  \/ CleanExpired
  \/ Tick

Spec == Init /\ [][Next]_vars

-----------------------------------------------------------------------------
(* Every accepted message is remembered for as long as a check could still  *)
(* accept it again: either its nonce is recorded, not much before the       *)
(* message's own timestamp, or the message is too old for every check that  *)
(* is running or still to come.                                             *)
Remembered ==
  /\ \A m \in accepted :
       \/ seen[m[1]] # Unseen /\ m[2] - seen[m[1]] <= FutureSkew
       \/ clock - m[2] > MaxAge + MaxStall
  /\ \A c \in Checkers :
       check[c] # Idle => /\ InWindow(check[c].ts, check[c].at)
                          /\ check[c].at <= clock /\ clock - check[c].at <= MaxStall

(* No replay: Check never lets the same message, nonce and timestamp, pass  *)
(* twice, whatever the interleaving of checks and cleaning.                 *)
NoReplay ==
  \A c \in Checkers :
    (check[c] # Idle /\ <<check[c].nonce, check[c].ts>> \in accepted)
      => seen[check[c].nonce] # Unseen

-----------------------------------------------------------------------------
(* Proof that the nonce tracker lets no message pass twice, for any number  *)
(* of goroutines and nonces and any clock.                                  *)

(* The types the invariant needs, with Idle left opaque. *)
Types ==
  /\ clock \in Nat
  /\ seen \in [Nonces -> Nat \cup {Unseen}]
  /\ DOMAIN check = Checkers /\ check = [c \in Checkers |-> check[c]]
  /\ \A c \in Checkers :
       check[c] # Idle => /\ check[c].nonce \in Nonces
                          /\ check[c].ts \in Nat /\ check[c].at \in Nat
  /\ accepted \subseteq Nonces \X Nat

IInv == Types /\ Remembered

(* Initially nothing has been seen, checked or accepted. *)
LEMMA InitEstablishes == Init => IInv
  BY DEF Init, IInv, Types, Remembered, Unseen

(* Check, up to the lock, starts inside the window and at the clock. *)
LEMMA BeginPreserves ==
  ASSUME IInv, NEW c \in Checkers, NEW n \in Nonces,
         NEW ts \in 0 .. MaxTime + FutureSkew, Begin(c, n, ts)
  PROVE  IInv'
<1> USE WindowCovers
<1> DEFINE new == [nonce |-> n, ts |-> ts, at |-> clock]
<1>1. ts \in Nat
  OBVIOUS
<1>2. /\ \A d \in Checkers : check'[d] = IF d = c THEN new ELSE check[d]
      /\ DOMAIN check' = Checkers /\ check' = [d \in Checkers |-> check'[d]]
  BY DEF Begin, IInv, Types
<1>3. new.nonce = n /\ new.ts = ts /\ new.at = clock
  OBVIOUS
<1>4. Types'
  BY <1>1, <1>2, <1>3 DEF Begin, IInv, Types
<1>5. \A d \in Checkers :
        check'[d] # Idle => /\ InWindow(check'[d].ts, check'[d].at)
                            /\ check'[d].at <= clock /\ clock - check'[d].at <= MaxStall
  <2> SUFFICES ASSUME NEW d \in Checkers, check'[d] # Idle
               PROVE  /\ InWindow(check'[d].ts, check'[d].at)
                      /\ check'[d].at <= clock /\ clock - check'[d].at <= MaxStall
    OBVIOUS
  <2>1. CASE d = c
    BY <2>1, <1>2, <1>3 DEF Begin, IInv, Types
  <2>2. CASE d # c
    BY <2>2, <1>2 DEF IInv, Remembered
  <2> QED
    BY <2>1, <2>2
<1> QED
  BY <1>4, <1>5 DEF Begin, IInv, Remembered, InWindow

(* Check, under the lock, records what it accepts at a time that is not     *)
(* long before the message's own.                                           *)
LEMMA FinishPreserves ==
  ASSUME IInv, NEW c \in Checkers, Finish(c)
  PROVE  IInv'
<1> USE WindowCovers
<1> DEFINE n == check[c].nonce
           ts == check[c].ts
           at == check[c].at
<1>1. n \in Nonces /\ ts \in Nat /\ at \in Nat /\ ts - at <= FutureSkew
  BY DEF Finish, IInv, Types, Remembered, InWindow
<1>2. /\ \A d \in Checkers : check'[d] = IF d = c THEN Idle ELSE check[d]
      /\ DOMAIN check' = Checkers /\ check' = [d \in Checkers |-> check'[d]]
  BY DEF Finish, IInv, Types
<1>3. clock' = clock
  BY DEF Finish
<1>4. Types'
  <2>1. seen' \in [Nonces -> Nat \cup {Unseen}] /\ accepted' \subseteq Nonces \X Nat
    BY <1>1 DEF Finish, IInv, Types
  <2> QED
    BY <2>1, <1>2, <1>3 DEF IInv, Types
<1>5. \A m \in accepted' : \/ seen'[m[1]] # Unseen /\ m[2] - seen'[m[1]] <= FutureSkew
                           \/ clock - m[2] > MaxAge + MaxStall
  <2>1. CASE seen[n] # Unseen
    BY <2>1 DEF Finish, IInv, Remembered
  <2>2. CASE seen[n] = Unseen
    <3> SUFFICES ASSUME NEW m \in accepted'
                 PROVE  \/ seen'[m[1]] # Unseen /\ m[2] - seen'[m[1]] <= FutureSkew
                        \/ clock - m[2] > MaxAge + MaxStall
      OBVIOUS
    <3>1. /\ seen' = [seen EXCEPT ![n] = at]
          /\ accepted' = accepted \cup {<<n, ts>>}
      BY <2>2 DEF Finish
    <3>2. seen'[n] = at /\ at # Unseen
      BY <3>1, <1>1 DEF IInv, Types, Unseen
    <3>3. CASE m = <<n, ts>>
      BY <3>2, <3>3, <1>1
    <3>4. CASE m \in accepted
      <4>1. CASE m[1] = n
        BY <4>1, <3>4, <2>2 DEF IInv, Remembered
      <4>2. CASE m[1] # n
        <5>1. seen'[m[1]] = seen[m[1]]
          BY <4>2, <3>1, <3>4 DEF IInv, Types
        <5> QED
          BY <5>1, <3>4 DEF IInv, Remembered
      <4> QED
        BY <4>1, <4>2
    <3> QED
      BY <3>1, <3>3, <3>4
  <2> QED
    BY <2>1, <2>2
<1>6. \A d \in Checkers :
        check'[d] # Idle => /\ InWindow(check'[d].ts, check'[d].at)
                            /\ check'[d].at <= clock /\ clock - check'[d].at <= MaxStall
  BY <1>2 DEF IInv, Remembered
<1> QED
  BY <1>3, <1>4, <1>5, <1>6 DEF IInv, Remembered, InWindow

(* CleanExpired forgets a nonce only when every message it was accepted     *)
(* with is too old for every check.                                         *)
LEMMA CleanPreserves ==
  ASSUME IInv, CleanExpired
  PROVE  IInv'
<1> USE WindowCovers
<1>1. Types'
  BY DEF CleanExpired, IInv, Types, Unseen
<1>2. \A m \in accepted : \/ seen'[m[1]] # Unseen /\ m[2] - seen'[m[1]] <= FutureSkew
                          \/ clock - m[2] > MaxAge + MaxStall
  <2> SUFFICES ASSUME NEW m \in accepted
               PROVE  \/ seen'[m[1]] # Unseen /\ m[2] - seen'[m[1]] <= FutureSkew
                      \/ clock - m[2] > MaxAge + MaxStall
    OBVIOUS
  <2>1. /\ m[1] \in Nonces /\ m[2] \in Nat /\ clock \in Nat
        /\ seen[m[1]] \in Nat \cup {Unseen}
    BY DEF IInv, Types
  <2>2. seen'[m[1]] = IF seen[m[1]] < clock - NonceWindow THEN Unseen ELSE seen[m[1]]
    BY <2>1 DEF CleanExpired
  <2>3. \/ seen[m[1]] # Unseen /\ m[2] - seen[m[1]] <= FutureSkew
        \/ clock - m[2] > MaxAge + MaxStall
    BY DEF IInv, Remembered
  <2> QED
    BY <2>1, <2>2, <2>3 DEF Unseen
<1> QED
  BY <1>1, <1>2 DEF CleanExpired, IInv, Remembered, InWindow

(* Time passes, but never so much that a check stalls for longer than       *)
(* MaxStall.                                                                *)
LEMMA TickPreserves ==
  ASSUME IInv, Tick
  PROVE  IInv'
<1> USE WindowCovers
<1>1. Types'
  BY DEF Tick, IInv, Types
<1>2. clock' = clock + 1 /\ seen' = seen /\ check' = check /\ accepted' = accepted
  BY DEF Tick
<1>3. \A m \in accepted : \/ seen[m[1]] # Unseen /\ m[2] - seen[m[1]] <= FutureSkew
                          \/ clock' - m[2] > MaxAge + MaxStall
  <2>1. \A m \in accepted : m[1] \in Nonces /\ m[2] \in Nat
    BY DEF IInv, Types
  <2> QED
    BY <1>2, <2>1 DEF IInv, Types, Remembered
<1>4. \A d \in Checkers :
        check[d] # Idle => /\ InWindow(check[d].ts, check[d].at)
                           /\ check[d].at <= clock' /\ clock' - check[d].at <= MaxStall
  BY <1>2 DEF Tick, IInv, Types, Remembered
<1>5. Remembered'
  BY <1>2, <1>3, <1>4, Zenon DEF Remembered, InWindow
<1> QED
  BY <1>1, <1>5 DEF IInv

LEMMA NextPreserves ==
  ASSUME IInv, [Next]_vars
  PROVE  IInv'
<1>1. CASE UNCHANGED vars
  BY <1>1 DEF vars, IInv, Types, Remembered, InWindow
<1>2. CASE Next
  BY <1>2, BeginPreserves, FinishPreserves, CleanPreserves, TickPreserves DEF Next
<1> QED
  BY <1>1, <1>2

(* What is remembered suffices: a check under way on a message accepted     *)
(* before finds its nonce.                                                  *)
LEMMA RememberedSuffices ==
  ASSUME IInv
  PROVE  NoReplay
<1> USE WindowCovers
<1> SUFFICES ASSUME NEW c \in Checkers, check[c] # Idle,
                    <<check[c].nonce, check[c].ts>> \in accepted,
                    seen[check[c].nonce] = Unseen
             PROVE  FALSE
  BY DEF NoReplay
<1> DEFINE m == <<check[c].nonce, check[c].ts>>
<1>1. m[1] = check[c].nonce /\ m[2] = check[c].ts
  OBVIOUS
<1>2. clock - check[c].ts > MaxAge + MaxStall
  BY <1>1 DEF IInv, Remembered
<1>3. check[c].at - check[c].ts <= MaxAge /\ clock - check[c].at <= MaxStall
  BY DEF IInv, Remembered, InWindow
<1>4. clock \in Nat /\ check[c].ts \in Nat /\ check[c].at \in Nat
  BY DEF IInv, Types
<1> QED
  BY <1>2, <1>3, <1>4

(* Replay protection: NonceTracker.Check lets no message pass twice,        *)
(* however checks and the cleaning of expired nonces interleave, because    *)
(* what was accepted is remembered for as long as it could come again.      *)
THEOREM ReplayProtection == Spec => [](Remembered /\ NoReplay)
<1>1. Init => IInv
  BY InitEstablishes
<1>2. IInv /\ [Next]_vars => IInv'
  BY NextPreserves
<1>3. IInv => Remembered /\ NoReplay
  BY RememberedSuffices DEF IInv
<1> QED
  BY <1>1, <1>2, <1>3, PTL DEF Spec
=============================================================================
