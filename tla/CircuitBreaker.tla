--------------------------- MODULE CircuitBreaker ---------------------------
(* The circuit breaker of one peer (internal/p2p/circuit_breaker.go) with    *)
(* the requests that pass it. A request reports its outcome when it ends,    *)
(* by which time the circuit may have changed state several times.           *)
EXTENDS Integers, FiniteSets

CONSTANTS Requests,             \* requests that can be under way at once
          FailureThreshold,     \* 5 in the default configuration
          SuccessThreshold,     \* 2
          HalfOpenMaxRequests   \* 3

VARIABLES state, failures, successes, halfOpenReqs,
          cooled,               \* has Timeout passed since the last failure?
          flying,               \* requests under way: the state they were let through in
          since                 \* requests let through since the circuit last opened

vars == <<state, failures, successes, halfOpenReqs, cooled, flying, since>>

Landed == "landed"

TypeOK ==
  /\ state \in {"closed", "open", "half-open"}
  /\ failures \in 0 .. FailureThreshold /\ successes \in 0 .. SuccessThreshold
  /\ halfOpenReqs \in 0 .. HalfOpenMaxRequests
  /\ cooled \in BOOLEAN
  /\ flying \in [Requests -> {Landed, "closed", "half-open"}]
  /\ since \in Nat

Init ==
  /\ state = "closed" /\ failures = 0 /\ successes = 0 /\ halfOpenReqs = 0
  /\ cooled = TRUE
  /\ flying = [r \in Requests |-> Landed]
  /\ since = 0

-----------------------------------------------------------------------------

(* Allow: lets the request through, or refuses it and changes nothing. *)
Allow(r) ==
  /\ flying[r] = Landed
  /\ \/ /\ state = "closed"
        /\ flying' = [flying EXCEPT ![r] = "closed"]
        /\ UNCHANGED <<state, successes, halfOpenReqs, since>>
     \/ /\ state = "open" /\ cooled
        /\ state' = "half-open" /\ halfOpenReqs' = 1 /\ successes' = 0
        /\ flying' = [flying EXCEPT ![r] = "half-open"] /\ since' = 1
     \/ /\ state = "half-open" /\ halfOpenReqs < HalfOpenMaxRequests
        /\ halfOpenReqs' = halfOpenReqs + 1
        /\ flying' = [flying EXCEPT ![r] = "half-open"] /\ since' = since + 1
        /\ UNCHANGED <<state, successes>>
  /\ UNCHANGED <<failures, cooled>>

(* RecordSuccess, when a request ends well. *)
RecordSuccess(r) ==
  /\ flying[r] # Landed
  /\ flying' = [flying EXCEPT ![r] = Landed]
  /\ \/ state = "closed" /\ failures' = 0 /\ UNCHANGED <<state, successes, since>>
     \/ state = "open" /\ UNCHANGED <<state, failures, successes, since>>
     \/ /\ state = "half-open" /\ successes + 1 < SuccessThreshold
        /\ successes' = successes + 1 /\ UNCHANGED <<state, failures, since>>
     \/ /\ state = "half-open" /\ successes + 1 >= SuccessThreshold
        /\ state' = "closed" /\ failures' = 0 /\ successes' = 0 /\ since' = 0
  /\ UNCHANGED <<halfOpenReqs, cooled>>

(* RecordFailure, when it does not: the time of the last failure moves, in  *)
(* whatever state.                                                          *)
RecordFailure(r) ==
  /\ flying[r] # Landed
  /\ flying' = [flying EXCEPT ![r] = Landed]
  /\ cooled' = FALSE
  /\ \/ /\ state = "closed" /\ failures + 1 < FailureThreshold
        /\ failures' = failures + 1 /\ UNCHANGED <<state, successes, since>>
     \/ /\ state = "closed" /\ failures + 1 >= FailureThreshold
        /\ failures' = failures + 1 /\ state' = "open" /\ since' = 0
        /\ UNCHANGED successes
     \/ state = "open" /\ UNCHANGED <<state, failures, successes, since>>
     \/ /\ state = "half-open"
        /\ state' = "open" /\ successes' = 0 /\ since' = 0 /\ UNCHANGED failures
  /\ UNCHANGED halfOpenReqs

(* Reset. *)
Reset ==
  /\ state' = "closed" /\ failures' = 0 /\ successes' = 0 /\ halfOpenReqs' = 0
  /\ since' = 0
  /\ UNCHANGED <<cooled, flying>>

(* Timeout passes after the last failure. *)
Cool ==
  /\ ~cooled /\ cooled' = TRUE
  /\ UNCHANGED <<state, failures, successes, halfOpenReqs, flying, since>>

Next ==
  \/ \E r \in Requests : Allow(r) \/ RecordSuccess(r) \/ RecordFailure(r)
  \/ Reset \/ Cool

(* Requests keep coming and each reports its outcome; time passes. *)
Fairness ==
  /\ \A r \in Requests :
       /\ WF_vars(RecordSuccess(r) \/ RecordFailure(r))
       /\ WF_vars(Allow(r))
  /\ WF_vars(Cool)

Spec == Init /\ [][Next]_vars /\ Fairness

-----------------------------------------------------------------------------
(* While it is being tested the peer gets at most HalfOpenMaxRequests new   *)
(* requests, counted from the moment the circuit left the open state, and   *)
(* none while the circuit is open.                                          *)
ProbesLimited ==
  /\ state = "half-open" => since \in 1 .. HalfOpenMaxRequests
  /\ state = "open" => since = 0

Testing == state = "half-open"

(* A circuit never stays half-open: the requests it has let through always  *)
(* suffice to close it or to open it again.                                 *)
TestsEnd == Testing ~> ~Testing
=============================================================================
