---------------------------- MODULE ReplicaHealth ----------------------------
(****************************************************************************)
(* The originator's view of its replicas: internal/redundancy (health       *)
(* monitor, replica sets, failover, consensus) and the parts of             *)
(* internal/daemon that feed it: the broadcast of a deployment, the acks    *)
(* and the wait for them, replica-sync messages, and the loop that reports  *)
(* unhealthy replicas on chain.  Time is abstracted to whether the last     *)
(* heartbeat is older than the timeout (late) and whether a report is less  *)
(* than ten minutes old.                                                    *)
(****************************************************************************)
EXTENDS Naturals, FiniteSets, Sequences

CONSTANTS
  Ids,          \* deployments
  Peers,        \* nodes that may host a replica
  Widths,       \* numbers of regions a deployment may have, within 1 .. 3
  MaxTracked,   \* maxTrackedContainers
  ChanCap,      \* capacity of a pending deployment's ackChan
  Nothing,
  Budgets       \* bounds on the operations of each part, one record for each choice

VARIABLES
  dep,        \* deployments: absent, running, stopped
  alive,      \* deployments whose local container runs
  health,     \* HealthMonitor.replicas
  snap,       \* the monitor's snapshot, the replicas it has not checked yet
  sets,       \* Replicator.replicas: the container in each slot
  fail,       \* CheckAndFailover in progress
  reported,   \* replicas reported within ten minutes, and whether the local container ran
  pend,       \* pendingDeployments
  wait,       \* WaitForReplicas in progress, and its answer
  cons,       \* ConsensusManager.states
  asked,      \* peers the deployment was sent to
  elig,       \* peers that are eligible for jobs
  left,       \* operations of each part still to come
  ghosts,     \* history: containers tracked again after their deletion
  acked       \* history: positive acks since the deployment began

vars == <<dep, alive, health, snap, sets, fail, reported, pend, wait, cons, asked, elig, left, ghosts, acked>>

Slots == 0 .. 2
Idle == [at |-> "idle", n |-> 0]
Waiting == [at |-> "waiting", n |-> 0]
Answer(n) == [at |-> "done", n |-> n]
NoReplicas == [i \in {} |-> Nothing]
Fresh(ok) == [ok |-> ok, late |-> FALSE]
Put(f, k, v) == [x \in DOMAIN f \cup {k} |-> IF x = k THEN v ELSE f[x]]
Tracked == {d \in Ids : health[d] # Nothing}
Spend(part) == left[part] > 0 /\ left' = [left EXCEPT ![part] = @ - 1]

Init ==
  /\ dep = [d \in Ids |-> "absent"]
  /\ alive = {}
  /\ health = [d \in Ids |-> Nothing]
  /\ snap = {}
  /\ sets = [d \in Ids |-> Nothing]
  /\ fail = Nothing
  /\ reported = {}
  /\ pend = [d \in Ids |-> Nothing]
  /\ wait = [d \in Ids |-> Idle]
  /\ cons = [d \in Ids |-> Nothing]
  /\ asked = [d \in Ids |-> {}]
  /\ elig \in SUBSET Peers
  /\ left \in Budgets
  /\ ghosts = {}
  /\ acked = [d \in Ids |-> 0]

-----------------------------------------------------------------------------
(* UpdateHealth, on a table h: at capacity the containers whose replicas    *)
(* are all late go first, and a new container that still does not fit is    *)
(* not tracked.                                                             *)
CleanStale(h) ==
  [d \in Ids |-> IF h[d] # Nothing /\ \A i \in DOMAIN h[d] : h[d][i].late THEN Nothing ELSE h[d]]

UpdateHealth(h, d, i, ok) ==
  LET full(t) == Cardinality({x \in Ids : t[x] # Nothing}) >= MaxTracked
      g == IF h[d] = Nothing /\ full(h) THEN CleanStale(h) ELSE h
  IN  IF g[d] # Nothing THEN [g EXCEPT ![d] = Put(@, i, Fresh(ok))]
      ELSE IF full(g) THEN g
      ELSE [g EXCEPT ![d] = Put(NoReplicas, i, Fresh(ok))]

(* Deploy, under an id never used before: the replica set, the deployment,  *)
(* the health of every slot and the tracker of the acks, under cm.mu.       *)
Deploy(d, w) ==
  /\ sets[d] = Nothing
  /\ Spend("deploy")
  /\ dep' = [dep EXCEPT ![d] = "running"]
  /\ alive' = alive \cup {d}
  /\ sets' = [sets EXCEPT ![d] = [i \in 0 .. w - 1 |-> Nothing]]
  /\ health' = LET h1 == UpdateHealth(health, d, 0, TRUE)
                   h2 == IF w > 1 THEN UpdateHealth(h1, d, 1, TRUE) ELSE h1
               IN  IF w > 2 THEN UpdateHealth(h2, d, 2, TRUE) ELSE h2
  /\ pend' = [pend EXCEPT ![d] = [ok |-> 0, chan |-> <<>>]]
  /\ UNCHANGED <<snap, fail, reported, wait, cons, asked, elig, ghosts, acked>>

(* broadcastDeployment: the geographic choice, or the first three peers;    *)
(* of these the eligible ones, or all when none is.                         *)
Eligible(sel) == IF sel \cap elig = {} THEN sel ELSE sel \cap elig

BroadcastDeployment(d, sel) ==
  /\ dep[d] = "running" /\ asked[d] = {}
  /\ sel # {} /\ Cardinality(sel) <= 3
  /\ asked' = [asked EXCEPT ![d] = Eligible(sel)]
  /\ UNCHANGED <<dep, alive, health, snap, sets, fail, reported, pend, wait, cons, elig, left, ghosts, acked>>

(* Slashes, stakes and unstakes change who is eligible.                     *)
EligibilityChanges(p) ==
  /\ Spend("elig")
  /\ elig' = IF p \in elig THEN elig \ {p} ELSE elig \cup {p}
  /\ UNCHANGED <<dep, alive, health, snap, sets, fail, reported, pend, wait, cons, asked, ghosts, acked>>

-----------------------------------------------------------------------------
(* handleDeployAck writes the health of slot 1, whichever replica answers,  *)
(* whether or not the deployment still exists; then the tracker, if any.    *)
(* An ack that finds the channel full is counted and not sent.              *)
HandleDeployAck(d, ok) ==
  /\ asked[d] # {}
  /\ Spend("ack")
  /\ health' = UpdateHealth(health, d, 1, ok)
  /\ ghosts' = IF dep[d] = "absent" THEN ghosts \cup {d} ELSE ghosts
  /\ pend' = IF pend[d] = Nothing THEN pend
             ELSE [pend EXCEPT ![d].ok = IF ok THEN @ + 1 ELSE @,
                               ![d].chan = IF Len(@) < ChanCap THEN Append(@, ok) ELSE @]
  /\ acked' = IF ok /\ pend[d] # Nothing THEN [acked EXCEPT ![d] = @ + 1] ELSE acked
  /\ UNCHANGED <<dep, alive, snap, sets, fail, reported, wait, cons, asked, elig>>

(* WaitForReplicas.  The answer is the number of positive acks, "error"     *)
(* after the timeout without one.  Whoever waits then drops the tracker.    *)
BeginWait(d) ==
  /\ dep[d] = "running" /\ wait[d] = Idle /\ pend[d] # Nothing
  /\ wait' = [wait EXCEPT ![d] = IF pend[d].ok > 0 THEN Answer(pend[d].ok) ELSE Waiting]
  /\ UNCHANGED <<dep, alive, health, snap, sets, fail, reported, pend, cons, asked, elig, left, ghosts, acked>>

TakeAck(d) ==
  /\ wait[d] = Waiting /\ pend[d] # Nothing /\ pend[d].chan # <<>>
  /\ pend' = [pend EXCEPT ![d].chan = Tail(@)]
  /\ wait' = [wait EXCEPT ![d] = IF Head(pend[d].chan) THEN Answer(pend[d].ok) ELSE @]
  /\ UNCHANGED <<dep, alive, health, snap, sets, fail, reported, cons, asked, elig, left, ghosts, acked>>

TimeoutIgnoresAcks(d) ==
  /\ wait[d] = Waiting /\ pend[d] # Nothing
  /\ wait' = [wait EXCEPT ![d] = Answer(0)]
  /\ UNCHANGED <<dep, alive, health, snap, sets, fail, reported, pend, cons, asked, elig, left, ghosts, acked>>

WaitTimeout(d) ==
  /\ wait[d] = Waiting /\ pend[d] # Nothing
  /\ wait' = [wait EXCEPT ![d] = Answer(pend[d].ok)]
  /\ UNCHANGED <<dep, alive, health, snap, sets, fail, reported, pend, cons, asked, elig, left, ghosts, acked>>

(* The tracker goes when the waiter is done, after its time to live, and on *)
(* Stop and Delete.  A waiter that sees its channel closed answers with the *)
(* count so far; the channel is drained first.                              *)
DropTracker(d) ==
  /\ pend' = [pend EXCEPT ![d] = Nothing]
  /\ wait' = [wait EXCEPT ![d] = IF @ = Waiting /\ pend[d] # Nothing
                                 THEN Answer(pend[d].ok) ELSE @]

CleanStalePending(d) ==
  /\ pend[d] # Nothing
  /\ DropTracker(d)
  /\ UNCHANGED <<dep, alive, health, snap, sets, fail, reported, cons, asked, elig, left, ghosts, acked>>

Stop(d) ==
  /\ dep[d] = "running"
  /\ dep' = [dep EXCEPT ![d] = "stopped"]
  /\ alive' = alive \ {d}
  /\ DropTracker(d)
  /\ UNCHANGED <<health, snap, sets, fail, reported, cons, asked, elig, left, ghosts, acked>>

(* Delete forgets the health and the consensus state; the replica set is    *)
(* not removed.                                                             *)
Delete(d) ==
  /\ dep[d] # "absent"
  /\ dep' = [dep EXCEPT ![d] = "absent"]
  /\ alive' = alive \ {d}
  /\ health' = [health EXCEPT ![d] = Nothing]
  /\ cons' = [cons EXCEPT ![d] = Nothing]
  /\ DropTracker(d)
  /\ UNCHANGED <<snap, sets, fail, reported, asked, elig, left, ghosts, acked>>

-----------------------------------------------------------------------------
(* The heartbeat of a replica grows old; the local container dies or comes  *)
(* back (Start).                                                            *)
GoesLate(d, i) ==
  /\ health[d] # Nothing /\ i \in DOMAIN health[d] /\ ~health[d][i].late
  /\ Spend("late")
  /\ health' = [health EXCEPT ![d][i].late = TRUE]
  /\ UNCHANGED <<dep, alive, snap, sets, fail, reported, pend, wait, cons, asked, elig, ghosts, acked>>

ContainerFlips(d) ==
  /\ dep[d] = "running"
  /\ Spend("flip")
  /\ alive' = IF d \in alive THEN alive \ {d} ELSE alive \cup {d}
  /\ UNCHANGED <<dep, health, snap, sets, fail, reported, pend, wait, cons, asked, elig, ghosts, acked>>

(* checkHealth: a snapshot under the read lock, then replica by replica a   *)
(* probe (slot 0) or a look at the heartbeat it copied, and a write if that *)
(* differs from the copy and the replica is still tracked.                  *)
TakeSnapshot ==
  /\ snap = {}
  /\ Spend("monitor")
  /\ snap' = {[id |-> d, i |-> i, ok |-> health[d][i].ok, late |-> health[d][i].late] :
                <<d, i>> \in {x \in Tracked \X Slots : x[2] \in DOMAIN health[x[1]]}}
  /\ UNCHANGED <<dep, alive, health, sets, fail, reported, pend, wait, cons, asked, elig, ghosts, acked>>

Verdict(e) == IF e.i = 0 THEN e.id \in alive ELSE e.ok /\ ~e.late
StillTracked(e) == health[e.id] # Nothing /\ e.i \in DOMAIN health[e.id]

CheckUntracked(e) ==
  /\ e \in snap
  /\ snap' = snap \ {e}
  /\ health' = IF Verdict(e) # e.ok
               THEN [health EXCEPT ![e.id] = Put(IF @ = Nothing THEN NoReplicas ELSE @, e.i, Fresh(Verdict(e)))]
               ELSE health
  /\ UNCHANGED <<dep, alive, sets, fail, reported, pend, wait, cons, asked, elig, left, ghosts, acked>>

CheckReplica(e) ==
  /\ e \in snap
  /\ snap' = snap \ {e}
  /\ health' = IF Verdict(e) # e.ok /\ StillTracked(e)
               THEN [health EXCEPT ![e.id][e.i] = Fresh(Verdict(e))] ELSE health
  /\ UNCHANGED <<dep, alive, sets, fail, reported, pend, wait, cons, asked, elig, left, ghosts, acked>>

Unhealthy(d) == IF health[d] = Nothing THEN {}
                ELSE {i \in DOMAIN health[d] : ~health[d][i].ok \/ health[d][i].late}

(* monitorHealthFailures: one report for each unhealthy replica of a        *)
(* running deployment, at most every ten minutes.                           *)
ReportViolation(d, i) ==
  /\ dep[d] = "running" /\ i \in Unhealthy(d) /\ ~\E r \in reported : r.id = d /\ r.i = i
  /\ Spend("report")
  /\ reported' = reported \cup {[id |-> d, i |-> i, up |-> d \in alive]}
  /\ UNCHANGED <<dep, alive, health, snap, sets, fail, pend, wait, cons, asked, elig, ghosts, acked>>

ReportAges(r) ==
  /\ r \in reported
  /\ reported' = reported \ {r}
  /\ UNCHANGED <<dep, alive, health, snap, sets, fail, pend, wait, cons, asked, elig, left, ghosts, acked>>

-----------------------------------------------------------------------------
(* CheckAndFailover, one goroutine: the unhealthy slots and a copy of the   *)
(* replica set; slot by slot a verified provider, the callback that starts  *)
(* a container, and AddReplica on the set as it is by then.  A slot the set *)
(* does not have, and a failed callback, end the round.                     *)
BeginFailover(d) ==
  /\ fail = Nothing /\ Unhealthy(d) # {} /\ sets[d] # Nothing
  /\ Spend("failover")
  /\ fail' = [id |-> d, todo |-> Unhealthy(d), width |-> Cardinality(DOMAIN sets[d]), new |-> Nothing]
  /\ UNCHANGED <<dep, alive, health, snap, sets, reported, pend, wait, cons, asked, elig, ghosts, acked>>

ReplaceAnySlot(i) ==
  /\ fail # Nothing /\ fail.new = Nothing /\ i \in fail.todo
  /\ fail' \in {Nothing, [fail EXCEPT !.todo = @ \ {i}], [fail EXCEPT !.new = i]}
  /\ UNCHANGED <<dep, alive, health, snap, sets, reported, pend, wait, cons, asked, elig, left, ghosts, acked>>

ReplaceSlot(i) ==
  /\ fail # Nothing /\ fail.new = Nothing /\ i \in fail.todo
  /\ fail' \in IF i >= fail.width THEN {Nothing}
               ELSE {Nothing, [fail EXCEPT !.todo = @ \ {i}], [fail EXCEPT !.new = i]}
  /\ UNCHANGED <<dep, alive, health, snap, sets, reported, pend, wait, cons, asked, elig, left, ghosts, acked>>

AddReplica ==
  /\ fail # Nothing /\ fail.new # Nothing
  /\ IF sets[fail.id] = Nothing \/ fail.new \notin DOMAIN sets[fail.id]
     THEN fail' = Nothing /\ UNCHANGED sets
     ELSE /\ sets' = [sets EXCEPT ![fail.id][fail.new] = "replaced"]
          /\ fail' = [fail EXCEPT !.todo = @ \ {fail.new}, !.new = Nothing]
  /\ UNCHANGED <<dep, alive, health, snap, reported, pend, wait, cons, asked, elig, left, ghosts, acked>>

EndFailover ==
  /\ fail # Nothing /\ fail.todo = {}
  /\ fail' = Nothing
  /\ UNCHANGED <<dep, alive, health, snap, sets, reported, pend, wait, cons, asked, elig, left, ghosts, acked>>

-----------------------------------------------------------------------------
(* ConsensusManager: a replica-sync message sets one replica's status and   *)
(* the overall one; a merged state replaces an older one.                   *)
NoState == [st |-> "none", reps |-> [i \in Slots |-> Nothing], ver |-> 0]

UpdateReplicaStatus(d, i, st) ==
  /\ Spend("sync")
  /\ cons' = [cons EXCEPT ![d] = LET s == IF @ = Nothing THEN NoState ELSE @
                                 IN  [st |-> st, ver |-> s.ver + 1,
                                      reps |-> IF i \in Slots THEN [s.reps EXCEPT ![i] = st] ELSE s.reps]]
  /\ UNCHANGED <<dep, alive, health, snap, sets, fail, reported, pend, wait, asked, elig, ghosts, acked>>


MergeState(d, s) ==
  /\ Spend("sync")
  /\ cons' = [cons EXCEPT ![d] = IF @ = Nothing \/ s.ver > @.ver THEN s ELSE @]
  /\ UNCHANGED <<dep, alive, health, snap, sets, fail, reported, pend, wait, asked, elig, ghosts, acked>>

(* GetConsensusStatus: what two replicas say, or the last word.             *)
ConsensusStatus(s) ==
  LET agreed == {x \in {"running", "failed"} : Cardinality({i \in Slots : s.reps[i] = x}) >= 2}
  IN  IF agreed # {} THEN CHOOSE x \in agreed : TRUE ELSE s.st

OtherStates == {[st |-> x, reps |-> [i \in Slots |-> x], ver |-> v] : x \in {"running", "failed"}, v \in 1 .. 2}

Next ==
  \/ \E d \in Ids :
       \/ \E w \in Widths : Deploy(d, w)
       \/ \E sel \in SUBSET Peers : BroadcastDeployment(d, sel)
       \/ \E ok \in BOOLEAN : HandleDeployAck(d, ok)
       \/ BeginWait(d) \/ TakeAck(d) \/ WaitTimeout(d) \/ CleanStalePending(d)
       \/ Stop(d) \/ Delete(d) \/ ContainerFlips(d) \/ BeginFailover(d)
       \/ \E i \in Slots : GoesLate(d, i) \/ ReportViolation(d, i)
       \/ \E i \in 0 .. 3, st \in {"running", "failed"} : UpdateReplicaStatus(d, i, st)
       \/ \E s \in OtherStates : MergeState(d, s)
  \/ \E p \in Peers : EligibilityChanges(p)
  \/ \E r \in reported : ReportAges(r)
  \/ TakeSnapshot
  \/ \E e \in snap : CheckReplica(e)
  \/ \E i \in Slots : ReplaceSlot(i)
  \/ AddReplica \/ EndFailover

Monitoring == TakeSnapshot \/ \E e \in snap : CheckReplica(e)

Spec == Init /\ [][Next]_vars

-----------------------------------------------------------------------------
(* The monitor writes only to replicas that are still tracked: a container  *)
(* deleted between its snapshot and its write stays forgotten, unless a     *)
(* late ack brought it back; and the table stays within its capacity.       *)
DeletedForgotten ==
  /\ \A d \in Ids : dep[d] = "absent" /\ health[d] # Nothing => d \in ghosts
  /\ Cardinality(Tracked) <= MaxTracked

(* Failover starts a replacement only for a slot the set has, although an   *)
(* ack makes slot 1 known to the monitor on sets of one region too.         *)
ReplacementsFit == fail # Nothing /\ fail.new # Nothing => fail.new \in DOMAIN sets[fail.id]

(* Two replicas that agree decide the status of the container.              *)
MajorityDecides ==
  \A d \in Ids : cons[d] # Nothing =>
    \A i, j \in Slots : i # j /\ cons[d].reps[i] # Nothing /\ cons[d].reps[i] = cons[d].reps[j]
                          => ConsensusStatus(cons[d]) = cons[d].reps[i]

(* The three together.                                                      *)
RedundancySound == DeletedForgotten /\ ReplacementsFit /\ MajorityDecides

(* Of every step: WaitForReplicas answers with every positive ack that came *)
(* before it returns, also those that found the channel full or came after  *)
(* a negative one.                                                          *)
WaitAnswers ==
  \A d \in Ids : wait[d].at # "done" /\ wait'[d].at = "done" => wait'[d].n = acked[d]

(* Of every step: a merge never takes a container back to an older version  *)
(* of its state.                                                            *)
VersionsGrow ==
  \A d \in Ids : cons[d] # Nothing /\ cons'[d] # Nothing => cons'[d].ver >= cons[d].ver

(* A downtime violation of the local replica is reported only when its      *)
(* container does not run ("checks for unhealthy replicas and reports       *)
(* violations on-chain", monitorHealthFailures).                            *)
ReportsTrue == \A r \in reported : r.i = 0 => ~r.up
=============================================================================
