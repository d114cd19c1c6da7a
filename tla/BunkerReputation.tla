-------------------------- MODULE BunkerReputation --------------------------
(***************************************************************************)
(* contracts/src/BunkerReputation.sol: reporters record events that move a *)
(* provider's score, and the score decays every full week towards a floor. *)
(* The decay is applied lazily: getScore computes it, and the next record  *)
(* or applyDecay stores it.                                                *)
(***************************************************************************)
EXTENDS Integers

CONSTANTS Providers,
          MAX_SCORE, INITIAL_SCORE, WEEK,  \* 1000, 500 and 7 days
          JobCompletedDeltas,              \* values the owner may set, per event
          JobTimeoutDeltas,
          SlashEventDeltas,
          CustomDeltas,                    \* deltas reporters pass to recordEvent
          MaxCustomDeltas,
          DecayRates, DecayFloors, MinScores,
          Thresholds,                      \* quadruples the owner may set as tiers
          MaxCount,                        \* bound on the counters of events
          MaxTime                          \* bound on the clock

VARIABLES rep,     \* reputations
          param,   \* what the owner sets
          now

vars == <<rep, param, now>>

ReputationData == [score : 0 .. MAX_SCORE, jobsCompleted : Nat, jobsFailed : Nat,
                   slashCount : Nat, lastUpdated : Nat, registeredAt : Nat]

Param == [jobCompletedDelta : Nat, jobTimeoutDelta : Int, slashEventDelta : Int,
          maxCustomDelta : Nat, decayRate : Nat, decayFloor : Nat,
          minScoreForJobs : Nat, tiers : [1 .. 4 -> Nat]]

Init ==
  /\ rep = [p \in Providers |-> [score |-> 0, jobsCompleted |-> 0, jobsFailed |-> 0,
                                 slashCount |-> 0, lastUpdated |-> 0, registeredAt |-> 0]]
  /\ param \in [jobCompletedDelta : JobCompletedDeltas, jobTimeoutDelta : JobTimeoutDeltas,
                slashEventDelta : SlashEventDeltas, maxCustomDelta : MaxCustomDeltas,
                decayRate : DecayRates, decayFloor : DecayFloors,
                minScoreForJobs : MinScores,
                tiers : {q \in Thresholds : q[1] < q[2] /\ q[2] < q[3] /\ q[3] < q[4]}]
  /\ now = 1

Registered(p) == rep[p].registeredAt # 0

-----------------------------------------------------------------------------
(* Scores. *)

(* _applyDelta *)
ApplyDelta(score, delta) ==
  IF score + delta < 0 THEN 0
  ELSE IF score + delta > MAX_SCORE THEN MAX_SCORE ELSE score + delta

(* _getDecayedScore of record r, asked at time t. *)
DecayedAt(r, t) ==
  LET decay == ((t - r.lastUpdated) \div WEEK) * param.decayRate
  IN  IF r.score <= param.decayFloor THEN r.score
      ELSE IF r.score <= param.decayFloor + decay THEN param.decayFloor
      ELSE r.score - decay

getScore(p) == DecayedAt(rep[p], now)

(* _scoreTier: 4 is Elite, 0 is Restricted. *)
TierOfScore(score) == IF \E i \in 1 .. 4 : score >= param.tiers[i]
                      THEN CHOOSE i \in 1 .. 4 :
                             /\ score >= param.tiers[i]
                             /\ \A j \in i + 1 .. 4 : score < param.tiers[j]
                      ELSE 0

getTier(p) == TierOfScore(getScore(p))

isEligibleForJobs(p) == Registered(p) /\ getScore(p) >= param.minScoreForJobs

WeeksPassed(r) == (now - r.lastUpdated) \div WEEK

(* The subtraction of _applyDecayInternal, which reverts below zero. *)
DecayFits(r) ==
  WeeksPassed(r) > 0 /\ r.score > param.decayFloor
    => WeeksPassed(r) * param.decayRate <= r.score

(* Mutant: the started week is lost. *)
WithDecayNow(r) ==
  LET decayed == r.score - WeeksPassed(r) * param.decayRate
  IN  [r EXCEPT !.lastUpdated = now,
                !.score = IF WeeksPassed(r) = 0 \/ @ <= param.decayFloor THEN @
                          ELSE IF decayed < param.decayFloor THEN param.decayFloor
                          ELSE decayed]

(* _applyDecayInternal *)
WithDecay(r) ==
  LET decayed == r.score - WeeksPassed(r) * param.decayRate
  IN  [r EXCEPT !.lastUpdated = @ + WeeksPassed(r) * WEEK,
                !.score = IF WeeksPassed(r) = 0 \/ @ <= param.decayFloor THEN @
                          ELSE IF decayed < param.decayFloor THEN param.decayFloor
                          ELSE decayed]

-----------------------------------------------------------------------------
(* Reporters, and anyone who applies the decay. *)

RegisterProvider(p) ==
  /\ ~Registered(p)
  /\ rep' = [rep EXCEPT ![p] = [score |-> INITIAL_SCORE, jobsCompleted |-> 0, jobsFailed |-> 0,
                                slashCount |-> 0, lastUpdated |-> now, registeredAt |-> now]]
  /\ UNCHANGED <<param, now>>

(* What every record operation does beside its counter: the decay is       *)
(* stored, the delta applied, and the week starts anew.                    *)
Moved(p, delta) ==
  [WithDecay(rep[p]) EXCEPT !.score = ApplyDelta(@, delta), !.lastUpdated = now]

Record(p, delta, done, failed, slashed) ==
  /\ Registered(p)
  /\ DecayFits(rep[p])
  /\ rep[p].jobsCompleted + done <= MaxCount
  /\ rep[p].jobsFailed + failed <= MaxCount
  /\ rep[p].slashCount + slashed <= MaxCount
  /\ rep' = [rep EXCEPT ![p] =
       [Moved(p, delta) EXCEPT !.jobsCompleted = @ + done, !.jobsFailed = @ + failed,
                               !.slashCount = @ + slashed]]
  /\ UNCHANGED <<param, now>>

RecordJobCompleted(p) == Record(p, param.jobCompletedDelta, 1, 0, 0)
RecordJobFailed(p) == Record(p, param.jobTimeoutDelta, 0, 1, 0)
RecordSlashEvent(p) == Record(p, param.slashEventDelta, 0, 0, 1)

RecordEvent(p, delta) ==
  /\ delta <= param.maxCustomDelta /\ delta >= 0 - param.maxCustomDelta
  /\ Record(p, delta, 0, 0, 0)

ApplyDecay(p) ==
  /\ Registered(p)
  /\ DecayFits(rep[p])
  /\ rep' = [rep EXCEPT ![p] = WithDecay(@)]
  /\ UNCHANGED <<param, now>>

-----------------------------------------------------------------------------
(* The owner and the clock. *)

SetDeltaParameters(done, timeout, slashed) ==
  /\ done >= 0 /\ timeout <= 0 /\ slashed <= 0
  /\ param' = [param EXCEPT !.jobCompletedDelta = done, !.jobTimeoutDelta = timeout,
                            !.slashEventDelta = slashed]

Ascending(q) == q[1] < q[2] /\ q[2] < q[3] /\ q[3] < q[4] /\ q[4] <= MAX_SCORE

SetTierThresholds(q) == Ascending(q) /\ param' = [param EXCEPT !.tiers = q]

SetDecayParams(rate, floor) ==
  /\ floor <= MAX_SCORE \div 2
  /\ param' = [param EXCEPT !.decayRate = rate, !.decayFloor = floor]

SetMinScoreForJobs(m) ==
  /\ m <= MAX_SCORE
  /\ param' = [param EXCEPT !.minScoreForJobs = m]

SetMaxCustomDelta(d) ==
  /\ d > 0 /\ d <= MAX_SCORE \div 2
  /\ param' = [param EXCEPT !.maxCustomDelta = d]

OwnerStep ==
  /\ \/ \E a \in JobCompletedDeltas, b \in JobTimeoutDeltas, c \in SlashEventDeltas :
          SetDeltaParameters(a, b, c)
     \/ \E q \in Thresholds : SetTierThresholds(q)
     \/ \E r \in DecayRates, f \in DecayFloors : SetDecayParams(r, f)
     \/ \E m \in MinScores : SetMinScoreForJobs(m)
     \/ \E d \in MaxCustomDeltas : SetMaxCustomDelta(d)
  /\ UNCHANGED <<rep, now>>

Tick == now < MaxTime /\ now' = now + 1 /\ UNCHANGED <<rep, param>>

ReporterStep(p) ==
  \/ RegisterProvider(p)
  \/ RecordJobCompleted(p)
  \/ RecordJobFailed(p)
  \/ RecordSlashEvent(p)
  \/ \E d \in CustomDeltas : RecordEvent(p, d)
  \/ ApplyDecay(p)

Next == (\E p \in Providers : ReporterStep(p)) \/ OwnerStep \/ Tick

Spec == Init /\ [][Next]_vars

-----------------------------------------------------------------------------
(* Properties. *)

(* Scores stay within 0..MAX_SCORE and no timestamp lies in the future. *)
TypeOK ==
  /\ rep \in [Providers -> ReputationData]
  /\ param \in Param
  /\ now \in Nat
  /\ \A p \in Providers : rep[p].lastUpdated <= now /\ rep[p].registeredAt <= now

(* applyDecay may be called by anyone at any time: it changes no score that *)
(* getScore shows, now or at any later time (the started week is kept), and *)
(* no eligibility with it.                                                  *)
DecayCallsNeutral ==
  \A p \in Providers : ApplyDecay(p) =>
    \A t \in now .. MaxTime + WEEK : DecayedAt(rep'[p], t) = DecayedAt(rep[p], t)

(* An event moves the score from the one getScore showed, not from a stale  *)
(* stored one: the view and the stored decay agree.                         *)
EventsMoveShownScore ==
  \A p \in Providers, d \in CustomDeltas : RecordEvent(p, d) =>
    getScore(p)' = ApplyDelta(getScore(p), d)

(* While nobody reports and the owner changes nothing, a score falls no     *)
(* lower than the floor, and neither its tier nor its eligibility improves. *)
DecayStopsAtFloor ==
  \A p \in Providers : Registered(p) /\ UNCHANGED param /\
     (ApplyDecay(p) \/ UNCHANGED rep) =>
    /\ getTier(p)' <= getTier(p)
    /\ isEligibleForJobs(p)' => isEligibleForJobs(p)
    /\ getScore(p)' < getScore(p) => getScore(p)' >= param.decayFloor
=============================================================================
