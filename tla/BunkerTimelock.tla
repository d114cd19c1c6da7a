--------------------------- MODULE BunkerTimelock ---------------------------
(***************************************************************************)
(* contracts/src/BunkerTimelock.sol: the owner of the other contracts.     *)
(* Proposers announce an operation, which anyone with the executor role    *)
(* runs once its delay has passed; a guardian pauses a contract at once,   *)
(* and unpauses it after a cooldown.                                       *)
(*                                                                         *)
(* The schedule, execution and cancellation of operations are inherited    *)
(* from OpenZeppelin's TimelockController and modelled as the contract     *)
(* uses them.  An operation is a call on a target: one of the setters,     *)
(* pause(), unpause(), or - the timelock being a proposer itself - the     *)
(* scheduling of another operation.                                        *)
(***************************************************************************)
EXTENDS Integers, TLAPS

CONSTANTS Targets,       \* the contracts the timelock owns
          Values,        \* arguments of the setters
          Operations,    \* what proposers may schedule, each told apart by its salt
          Delays,        \* what the constructor or a proposer may ask for
          MIN_DELAY_FLOOR,
          Hour,          \* the cooldown of emergencyUnpause
          MaxTimestamp   \* bound on the clock

(* An operation is a call on a target, or schedules an operation. *)
ASSUME TimelockConstants ==
  /\ MIN_DELAY_FLOOR \in Nat /\ Delays \subseteq Nat /\ Hour \in Nat /\ MaxTimestamp \in Nat
  /\ \A o \in Operations : /\ o.fn \in {"pause", "unpause", "set"} => o.target \in Targets
                           /\ o.fn = "set" => o.value \in Values
                           /\ o.fn = "schedule" => o.call \in Operations

Calls == [fn : {"pause", "unpause"}, target : Targets, salt : Nat]
           \cup [fn : {"set"}, target : Targets, value : Values, salt : Nat]

VARIABLES minDelay,      \* set by the constructor; updateDelay always reverts
          readyAt,       \* operation -> when it may run; 0 for unset, Done once run
          pausedAt,
          targetPaused,  \* of the targets (OpenZeppelin's Pausable)
          setting,       \* of the targets: what their setters last wrote
          announcedAt,   \* history: when the operation was last scheduled
          pausedSince,   \* history: when the target was last paused, by anyone
          guarded,       \* history: the last pause came from the guardian
          timestamp

history == <<announcedAt, pausedSince, guarded>>
timelockVars == <<minDelay, readyAt, pausedAt, targetPaused, setting, history, timestamp>>

Done == -1

InitialDelays == {d \in Delays : d >= MIN_DELAY_FLOOR}

TimelockInit ==
  /\ minDelay \in InitialDelays
  /\ readyAt = [o \in Operations |-> 0]
  /\ pausedAt = [t \in Targets |-> 0]
  /\ targetPaused = [t \in Targets |-> FALSE]
  /\ setting \in [Targets -> Values]
  /\ announcedAt = [o \in Operations |-> 0]
  /\ pausedSince = [t \in Targets |-> 0]
  /\ guarded = [t \in Targets |-> FALSE]
  /\ timestamp = 1

----------------------------------------------------------------------------
(* The inherited scheduler. *)

MaySchedule(o, delay) == readyAt[o] = 0 /\ delay >= minDelay

Schedule(o, delay) ==
  /\ MaySchedule(o, delay)
  /\ readyAt' = [readyAt EXCEPT ![o] = timestamp + delay]
  /\ announcedAt' = [announcedAt EXCEPT ![o] = timestamp]
  /\ UNCHANGED <<minDelay, pausedAt, targetPaused, setting, pausedSince, guarded, timestamp>>

(* The scheduleSet... helpers: a setter, scheduled with the current delay. *)
ScheduleSet(o) == o.fn = "set" /\ Schedule(o, minDelay)

Cancel(o) ==
  /\ readyAt[o] > 0
  /\ readyAt' = [readyAt EXCEPT ![o] = 0]
  /\ UNCHANGED <<minDelay, pausedAt, targetPaused, setting, history, timestamp>>

(* Pausable: pause() on a paused contract reverts, and so does unpause() on *)
(* one that runs.                                                          *)
SetPaused(t, to, byGuardian) ==
  /\ targetPaused[t] # to
  /\ targetPaused' = [targetPaused EXCEPT ![t] = to]
  /\ pausedSince' = [pausedSince EXCEPT ![t] = IF to THEN timestamp ELSE @]
  /\ guarded' = [guarded EXCEPT ![t] = IF to THEN byGuardian ELSE @]

Ready(o) == readyAt[o] > 0 /\ timestamp >= readyAt[o]

(* A call that reverts undoes the execution: the operation stays ready. *)
ExecutePause(o) ==
  /\ Ready(o) /\ o.fn \in {"pause", "unpause"}
  /\ SetPaused(o.target, o.fn = "pause", FALSE)
  /\ readyAt' = [readyAt EXCEPT ![o] = Done]
  /\ UNCHANGED <<minDelay, pausedAt, setting, announcedAt, timestamp>>

ExecuteSet(o) ==
  /\ Ready(o) /\ o.fn = "set"
  /\ setting' = [setting EXCEPT ![o.target] = o.value]
  /\ readyAt' = [readyAt EXCEPT ![o] = Done]
  /\ UNCHANGED <<minDelay, pausedAt, targetPaused, history, timestamp>>

ExecuteSchedule(o) ==
  /\ Ready(o) /\ o.fn = "schedule"
  /\ \E delay \in Delays :
       /\ MaySchedule(o.call, delay)
       /\ readyAt' = [readyAt EXCEPT ![o] = Done, ![o.call] = timestamp + delay]
  /\ announcedAt' = [announcedAt EXCEPT ![o.call] = timestamp]
  /\ UNCHANGED <<minDelay, pausedAt, targetPaused, setting, pausedSince, guarded, timestamp>>

----------------------------------------------------------------------------
(* The timelock's own functions. *)

(* Mutant: the pause is not recorded. *)
RecordPauseNot(t) == pausedAt

RecordPause(t) == [pausedAt EXCEPT ![t] = timestamp]

EmergencyPause(t) ==
  /\ SetPaused(t, TRUE, TRUE)
  /\ pausedAt' = RecordPause(t)
  /\ UNCHANGED <<minDelay, readyAt, setting, announcedAt, timestamp>>

EmergencyUnpause(t) ==
  /\ timestamp >= pausedAt[t] + Hour
  /\ SetPaused(t, FALSE, TRUE)
  /\ UNCHANGED <<minDelay, readyAt, pausedAt, setting, announcedAt, timestamp>>

(* Time passes; at its bound the clock stands still. *)
Elapse == /\ timestamp' = IF timestamp < MaxTimestamp THEN timestamp + 1 ELSE timestamp
        /\ UNCHANGED <<minDelay, readyAt, pausedAt, targetPaused, setting, history>>

Operate(o) ==
  \/ \E delay \in Delays : Schedule(o, delay)
  \/ ScheduleSet(o)
  \/ Cancel(o)
  \/ ExecutePause(o)
  \/ ExecuteSet(o)
  \/ ExecuteSchedule(o)

TimelockNext ==
  \/ \E o \in Operations : Operate(o)
  \/ \E t \in Targets : EmergencyPause(t) \/ EmergencyUnpause(t)
  \/ Elapse

TimelockSpec == TimelockInit /\ [][TimelockNext]_timelockVars

----------------------------------------------------------------------------

TimelockTypeOK ==
  /\ minDelay \in Delays /\ minDelay >= MIN_DELAY_FLOOR
  /\ readyAt \in [Operations -> Nat \cup {Done}]
  /\ pausedAt \in [Targets -> 0 .. timestamp]
  /\ targetPaused \in [Targets -> BOOLEAN]
  /\ setting \in [Targets -> Values]
  /\ announcedAt \in [Operations -> 0 .. timestamp]
  /\ pausedSince \in [Targets -> 0 .. timestamp]
  /\ guarded \in [Targets -> BOOLEAN]
  /\ timestamp \in Nat

(* A setter of a target takes effect only when exactly that call was       *)
(* announced at least MIN_DELAY_FLOOR earlier, whoever scheduled it: a     *)
(* helper, a proposer who asks for a delay, or an executed operation.      *)
AdminDelayed ==
  \A t \in Targets :
    setting'[t] # setting[t] =>
      \E o \in Operations : /\ o.fn = "set" /\ o.target = t /\ o.value = setting'[t]
                            /\ readyAt[o] > 0
                            /\ timestamp >= announcedAt[o] + MIN_DELAY_FLOOR

(* The contract a guardian paused runs again within the cooldown only by   *)
(* an unpause that was announced in time.                                  *)
GuardianPauseHolds ==
  \A t \in Targets :
    targetPaused[t] /\ guarded[t] /\ ~targetPaused'[t] =>
      \/ timestamp >= pausedSince[t] + Hour
      \/ \E o \in Operations : /\ o.fn = "unpause" /\ o.target = t
                               /\ readyAt[o] > 0 /\ readyAt'[o] = Done
                               /\ timestamp >= announcedAt[o] + MIN_DELAY_FLOOR

(* Nothing the timelock guards happens ahead of its delay. *)
DelaysHold == [][AdminDelayed /\ GuardianPauseHolds]_timelockVars
----------------------------------------------------------------------------
(* Proof that the delays hold for any targets, operations and delays.      *)

(* An operation that is pending was announced the minimum delay before it  *)
(* may run, and the cooldown of a contract the guardian paused counts from *)
(* that pause.                                                             *)
TimelockInv ==
  /\ TimelockTypeOK /\ timestamp > 0
  /\ \A o \in Operations : readyAt[o] > 0 => readyAt[o] >= announcedAt[o] + minDelay
  /\ \A t \in Targets : targetPaused[t] /\ guarded[t] => pausedAt[t] = pausedSince[t]

LEMMA InitEstablishesInv == TimelockInit => TimelockInv
BY TimelockConstants DEF TimelockInit, TimelockInv, TimelockTypeOK, InitialDelays

(* Pausing or unpausing leaves the types as they are. *)
LEMMA PausedTypes ==
  ASSUME TimelockInv, NEW t \in Targets, NEW to \in BOOLEAN, NEW g \in BOOLEAN, SetPaused(t, to, g)
  PROVE  /\ targetPaused' \in [Targets -> BOOLEAN] /\ guarded' \in [Targets -> BOOLEAN]
         /\ pausedSince' \in [Targets -> 0 .. timestamp]
         /\ \A u \in Targets \ {t} : /\ targetPaused'[u] = targetPaused[u]
                                    /\ guarded'[u] = guarded[u]
                                    /\ pausedSince'[u] = pausedSince[u]
         /\ targetPaused'[t] = to
         /\ to => guarded'[t] = g /\ pausedSince'[t] = timestamp
BY DEF TimelockInv, TimelockTypeOK, SetPaused

(* What is pending was announced MIN_DELAY_FLOOR before it is ready. *)
LEMMA ReadyLate ==
  ASSUME TimelockInv, NEW o \in Operations, Ready(o)
  PROVE  timestamp >= announcedAt[o] + MIN_DELAY_FLOOR
<1>1. /\ minDelay \in Nat /\ MIN_DELAY_FLOOR \in Nat /\ minDelay >= MIN_DELAY_FLOOR
      /\ timestamp \in Nat /\ readyAt[o] \in Int /\ announcedAt[o] \in Nat
  BY TimelockConstants DEF TimelockInv, TimelockTypeOK, Done
<1>2. timestamp >= readyAt[o] /\ readyAt[o] >= announcedAt[o] + minDelay
  BY DEF Ready, TimelockInv
<1> QED BY <1>1, <1>2

LEMMA StepKeepsInv == TimelockInv /\ [TimelockNext]_timelockVars => TimelockInv'
<1> SUFFICES ASSUME TimelockInv, [TimelockNext]_timelockVars PROVE TimelockInv'
  OBVIOUS
<1> USE DEF Done
<1>0. minDelay \in Nat
  BY TimelockConstants DEF TimelockInv, TimelockTypeOK
<1>1. ASSUME NEW o \in Operations, NEW delay \in Nat, Schedule(o, delay) PROVE TimelockInv'
  BY <1>0, <1>1 DEF TimelockInv, TimelockTypeOK, Schedule, MaySchedule
<1>2. ASSUME NEW o \in Operations, Cancel(o) PROVE TimelockInv'
  BY <1>2 DEF TimelockInv, TimelockTypeOK, Cancel, history
<1>3. ASSUME NEW o \in Operations, ExecutePause(o) PROVE TimelockInv'
  <2> DEFINE t == o.target
  <2>1. t \in Targets /\ (o.fn = "pause") \in BOOLEAN /\ SetPaused(t, o.fn = "pause", FALSE)
    BY <1>3, TimelockConstants DEF ExecutePause
  <2>2. /\ targetPaused' \in [Targets -> BOOLEAN] /\ guarded' \in [Targets -> BOOLEAN]
        /\ pausedSince' \in [Targets -> 0 .. timestamp]
        /\ \A u \in Targets \ {t} : /\ targetPaused'[u] = targetPaused[u]
                                   /\ guarded'[u] = guarded[u]
                                   /\ pausedSince'[u] = pausedSince[u]
        /\ targetPaused'[t] = (o.fn = "pause")
        /\ o.fn = "pause" => guarded'[t] = FALSE
    BY <2>1, PausedTypes
  <2> HIDE DEF t
  <2>3. \A u \in Targets : targetPaused'[u] /\ guarded'[u] => pausedAt[u] = pausedSince'[u]
    BY <2>2 DEF TimelockInv
  <2> QED BY <1>3, <2>2, <2>3 DEF TimelockInv, TimelockTypeOK, ExecutePause
<1>4. ASSUME NEW o \in Operations, ExecuteSet(o) PROVE TimelockInv'
  BY <1>4, TimelockConstants DEF TimelockInv, TimelockTypeOK, ExecuteSet, history
<1>5. ASSUME NEW o \in Operations, ExecuteSchedule(o) PROVE TimelockInv'
  <2>1. PICK delay \in Nat : /\ MaySchedule(o.call, delay)
                            /\ readyAt' = [readyAt EXCEPT ![o] = Done, ![o.call] = timestamp + delay]
    BY <1>5, TimelockConstants DEF ExecuteSchedule
  <2>2. o.call \in Operations
    BY <1>5, TimelockConstants DEF ExecuteSchedule
  <2> DEFINE c == o.call
  <2>3. /\ c \in Operations /\ readyAt[c] = 0 /\ delay >= minDelay
        /\ readyAt' = [readyAt EXCEPT ![o] = Done, ![c] = timestamp + delay]
        /\ announcedAt' = [announcedAt EXCEPT ![c] = timestamp]
        /\ UNCHANGED <<minDelay, pausedAt, targetPaused, setting, pausedSince, guarded, timestamp>>
    BY <1>5, <2>1, <2>2 DEF ExecuteSchedule, MaySchedule
  <2> HIDE DEF c
  <2> QED BY <1>0, <2>3 DEF TimelockInv, TimelockTypeOK
<1>6. ASSUME NEW t \in Targets, EmergencyPause(t) PROVE TimelockInv'
  <2>1. /\ targetPaused' \in [Targets -> BOOLEAN] /\ guarded' \in [Targets -> BOOLEAN]
        /\ pausedSince' \in [Targets -> 0 .. timestamp]
        /\ \A u \in Targets \ {t} : /\ targetPaused'[u] = targetPaused[u]
                                   /\ guarded'[u] = guarded[u]
                                   /\ pausedSince'[u] = pausedSince[u]
        /\ pausedSince'[t] = timestamp
    BY <1>6, PausedTypes DEF EmergencyPause
  <2>2. \A u \in Targets : targetPaused'[u] /\ guarded'[u] => pausedAt'[u] = pausedSince'[u]
    BY <1>6, <2>1 DEF TimelockInv, TimelockTypeOK, EmergencyPause, RecordPause
  <2> QED BY <1>6, <2>1, <2>2 DEF TimelockInv, TimelockTypeOK, EmergencyPause, RecordPause
<1>7. ASSUME NEW t \in Targets, EmergencyUnpause(t) PROVE TimelockInv'
  <2>1. /\ targetPaused' \in [Targets -> BOOLEAN] /\ guarded' \in [Targets -> BOOLEAN]
        /\ pausedSince' \in [Targets -> 0 .. timestamp]
        /\ \A u \in Targets \ {t} : /\ targetPaused'[u] = targetPaused[u]
                                   /\ guarded'[u] = guarded[u]
                                   /\ pausedSince'[u] = pausedSince[u]
        /\ targetPaused'[t] = FALSE
    BY <1>7, PausedTypes DEF EmergencyUnpause
  <2>2. \A u \in Targets : targetPaused'[u] /\ guarded'[u] => pausedAt[u] = pausedSince'[u]
    BY <2>1 DEF TimelockInv
  <2> QED BY <1>7, <2>1, <2>2 DEF TimelockInv, TimelockTypeOK, EmergencyUnpause
<1>8. CASE Elapse
  BY <1>8, TimelockConstants DEF TimelockInv, TimelockTypeOK, Elapse, history
<1>9. CASE UNCHANGED timelockVars
  BY <1>9 DEF TimelockInv, TimelockTypeOK, timelockVars, history
<1>10. \A delay \in Delays : delay \in Nat
  BY TimelockConstants
<1> QED BY <1>1, <1>2, <1>3, <1>4, <1>5, <1>6, <1>7, <1>8, <1>9, <1>10, <1>0
       DEF TimelockNext, Operate, ScheduleSet

(* A setter runs only by executing an operation that was ready. *)
LEMMA SetterDelayed == TimelockInv /\ [TimelockNext]_timelockVars => AdminDelayed
<1> SUFFICES ASSUME TimelockInv, [TimelockNext]_timelockVars, NEW t \in Targets, setting'[t] # setting[t]
             PROVE  \E o \in Operations :
                      /\ o.fn = "set" /\ o.target = t /\ o.value = setting'[t]
                      /\ readyAt[o] > 0
                      /\ timestamp >= announcedAt[o] + MIN_DELAY_FLOOR
  BY DEF AdminDelayed
<1>1. PICK o \in Operations : ExecuteSet(o)
  BY DEF TimelockNext, Operate, timelockVars, history, Schedule, ScheduleSet, Cancel, ExecutePause,
         ExecuteSchedule, EmergencyPause, EmergencyUnpause, Elapse
<1>2. /\ o.fn = "set" /\ o.target = t /\ o.value = setting'[t] /\ readyAt[o] > 0
      /\ timestamp >= readyAt[o]
  BY <1>1 DEF ExecuteSet, Ready, TimelockInv, TimelockTypeOK
<1>3. timestamp >= announcedAt[o] + MIN_DELAY_FLOOR
  BY <1>1, ReadyLate DEF ExecuteSet
<1> QED BY <1>2, <1>3

(* A contract runs again by an announced unpause or by the guardian, after *)
(* the cooldown.                                                           *)
LEMMA GuardianHolds == TimelockInv /\ [TimelockNext]_timelockVars => GuardianPauseHolds
<1> SUFFICES ASSUME TimelockInv, [TimelockNext]_timelockVars, NEW t \in Targets,
                    targetPaused[t], guarded[t], ~targetPaused'[t]
             PROVE  \/ timestamp >= pausedSince[t] + Hour
                    \/ \E o \in Operations :
                         /\ o.fn = "unpause" /\ o.target = t
                         /\ readyAt[o] > 0 /\ readyAt'[o] = Done
                         /\ timestamp >= announcedAt[o] + MIN_DELAY_FLOOR
  BY DEF GuardianPauseHolds
<1>1. \/ \E o \in Operations : ExecutePause(o)
      \/ \E u \in Targets : EmergencyPause(u) \/ EmergencyUnpause(u)
  BY DEF TimelockNext, Operate, timelockVars, history, Schedule, ScheduleSet, Cancel, ExecuteSet,
         ExecuteSchedule, Elapse
<1>2. ASSUME NEW o \in Operations, ExecutePause(o)
      PROVE  /\ o.fn = "unpause" /\ o.target = t
             /\ readyAt[o] > 0 /\ readyAt'[o] = Done
             /\ timestamp >= announcedAt[o] + MIN_DELAY_FLOOR
  <2>1. o.fn = "unpause" /\ o.target = t
    BY <1>2 DEF ExecutePause, SetPaused, TimelockInv, TimelockTypeOK
  <2>2. readyAt[o] > 0 /\ timestamp >= readyAt[o] /\ readyAt'[o] = Done
    BY <1>2 DEF ExecutePause, Ready, TimelockInv, TimelockTypeOK
  <2>3. timestamp >= announcedAt[o] + MIN_DELAY_FLOOR
    BY <1>2, ReadyLate DEF ExecutePause
  <2> QED BY <2>1, <2>2, <2>3
<1>3. ASSUME NEW u \in Targets, EmergencyPause(u) PROVE FALSE
  BY <1>3 DEF EmergencyPause, SetPaused, TimelockInv, TimelockTypeOK
<1>4. ASSUME NEW u \in Targets, EmergencyUnpause(u) PROVE timestamp >= pausedSince[t] + Hour
  BY <1>4 DEF EmergencyUnpause, SetPaused, TimelockInv, TimelockTypeOK
<1> QED BY <1>1, <1>2, <1>3, <1>4

(* Whatever is scheduled, cancelled, executed or nested, a setter takes    *)
(* effect only when exactly that call was announced MIN_DELAY_FLOOR        *)
(* earlier, and what the guardian paused runs again within the cooldown    *)
(* only by an unpause announced as early.                                  *)
THEOREM DelaysAlwaysHold == TimelockSpec => DelaysHold
<1>1. TimelockInit => TimelockInv
  BY InitEstablishesInv
<1>2. TimelockInv /\ [TimelockNext]_timelockVars
        => TimelockInv' /\ [AdminDelayed /\ GuardianPauseHolds]_timelockVars
  BY StepKeepsInv, SetterDelayed, GuardianHolds
<1> QED BY <1>1, <1>2, PTL DEF TimelockSpec, DelaysHold
=============================================================================
