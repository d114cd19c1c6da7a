-------------------------- MODULE ContainerManager --------------------------
(****************************************************************************)
(* internal/daemon/container_manager.go on the node that originates the     *)
(* deployments: Deploy, Stop, Start and Delete, the acks that activate the  *)
(* escrow, the two reconcilers, the asynchronous savers, shutdown, crash    *)
(* and restart, over the containers of containerd and the payment client.   *)
(* An API call is a thread that stops wherever the code leaves cm.mu or     *)
(* waits for containerd or for a transaction; it keeps the pointer to the   *)
(* deployment it looked up.                                                 *)
(****************************************************************************)
EXTENDS Naturals, FiniteSets

-----------------------------------------------------------------------------
(* The payment client of a node (internal/payment): the escrow calls of     *)
(* escrow_contract.go over the nonce handling of base_client.go.  A job's   *)
(* escrow call looks up the reservation in the in-memory map, takes the     *)
(* next nonce, and asks the RPC endpoint to estimate and accept the         *)
(* transaction; it returns when the transaction is accepted, not when it is *)
(* mined.  A nonce taken by a call that fails is not given back, so later   *)
(* transactions wait behind the gap until the nonce is read again.          *)
CONSTANTS
  Jobs,             \* deployments, one reservation each
  RPCFaults,        \* TRUE: the RPC endpoint may fail
  OtherOperators    \* TRUE: another holder of OPERATOR_ROLE may select providers

VARIABLES
  chain,    \* status of the job's reservation on chain
  pool,     \* settling transactions accepted and waiting to be mined
  stuck,    \* settling transactions waiting behind a nonce gap
  gap,      \* pendingNonce is ahead of what the network expects
  res,      \* jobs with an entry in reservationIDs
  sent,     \* jobs for which a settling transaction was ever accepted
  leaked,   \* a nonce was ever lost
  fault     \* the endpoint ever failed a call

payVars == <<chain, pool, stuck, gap, res, sent, leaked, fault>>

Settling == {"refund", "finalize"}
Terminal(s) == s \in {"completed", "refunded"}

PayInit ==
  /\ chain = [j \in Jobs |-> "none"]
  /\ pool = [j \in Jobs |-> {}]
  /\ stuck = [j \in Jobs |-> {}]
  /\ gap = FALSE
  /\ res = {}
  /\ sent = {}
  /\ leaked = FALSE
  /\ fault = FALSE

PayTypeOK ==
  /\ chain \in [Jobs -> {"none", "created", "active", "completed", "refunded"}]
  /\ pool \in [Jobs -> SUBSET Settling]
  /\ stuck \in [Jobs -> SUBSET Settling]
  /\ res \subseteq Jobs
  /\ sent \subseteq Jobs
  /\ {gap, leaked, fault} \subseteq BOOLEAN

(* BunkerEscrow: finalizeReservation and releasePayment need Active, refund *)
(* takes Created or Active.                                                 *)
Accepts(s, tx) ==
  IF tx = "refund" THEN s \in {"created", "active"} ELSE s = "active"

(* What an escrow call can return.  unmapped: no entry in reservationIDs.   *)
(* revert: the estimate fails on a live reservation.  terminal: it fails    *)
(* because the reservation is already settled.  unreachable: the endpoint   *)
(* failed before the nonce was taken.  unsent: it failed after.             *)
(* unanswered: it accepted the transaction and the answer was lost.         *)
Faults == IF RPCFaults THEN {"unreachable", "unsent", "unanswered"} ELSE {}

Results(j, tx) ==
  IF j \notin res THEN {"unmapped"}
  ELSE Faults \cup
       { IF Accepts(chain[j], tx) THEN "sent"
         ELSE IF Terminal(chain[j]) THEN "terminal" ELSE "revert" }

Leaks == {"revert", "terminal", "unsent"}

(* IsAlreadyTerminalEscrowErr: the typed revert that names a settled status.*)
(* A broken variant takes every failed estimate for it.                     *)
AnyRevertIsTerminal(r) == r \in {"terminal", "revert"}
IsAlreadyTerminalEscrowErr(r) == r = "terminal"

(* The client's state after a call with result r, made right after calls    *)
(* with the results in before.  The mapping goes only when the call         *)
(* returned without an error.                                               *)
Settle(j, tx, r, before) ==
  LET behind == gap \/ before \cap Leaks # {}
      accepted == r = "sent" \/ (r = "unanswered" /\ Accepts(chain[j], tx))
      add(f, b) == IF accepted /\ b THEN [f EXCEPT ![j] = @ \cup {tx}] ELSE f
  IN  /\ r \in Results(j, tx)
      /\ pool' = add(pool, ~behind)
      /\ stuck' = add(stuck, behind)
      /\ res' = IF r = "sent" THEN res \ {j} ELSE res
      /\ sent' = IF accepted THEN sent \cup {j} ELSE sent
      /\ gap' = (behind \/ r \in Leaks)
      /\ leaked' = (leaked \/ behind \/ r \in Leaks)
      /\ fault' = (fault \/ ({r} \cup before) \cap Faults # {})
      /\ UNCHANGED chain

(* Calls that settle nothing: releasePayment, selectProviders, and the      *)
(* reputation contract's, which needs no mapping.  A release may revert on  *)
(* an active reservation too (nothing left to pay).                         *)
ReleaseResults(j) ==
  IF j \notin res THEN {"unmapped"}
  ELSE Faults \cup {"revert"} \cup IF chain[j] = "active" THEN {"sent"} ELSE {}

RecordResults == Faults \cup {"sent", "revert"}

Spend(rs) ==
  /\ gap' = (gap \/ rs \cap Leaks # {})
  /\ leaked' = (leaked \/ rs \cap Leaks # {})
  /\ fault' = (fault \/ rs \cap Faults # {})
  /\ UNCHANGED <<chain, pool, stuck, res, sent>>

(* CreateEscrowAndWait.  ok: mined and the reservation ID stored.           *)
(* timedOut: mined or not, the caller gives up and gets an error; the       *)
(* resynchronisation uses the expired context and does nothing.             *)
CreateEscrow(j, r) ==
  /\ chain[j] = "none"
  /\ r \in {"ok", "timedOut", "refused"}
  /\ r = "ok" => ~gap
  /\ chain' \in IF r = "ok" THEN {[chain EXCEPT ![j] = "created"]}
                ELSE IF r = "timedOut" /\ ~gap THEN {chain, [chain EXCEPT ![j] = "created"]}
                ELSE {chain}
  /\ res' = IF r = "ok" THEN res \cup {j} ELSE res
  /\ gap' = (gap \/ r = "refused")
  /\ leaked' = (leaked \/ r = "refused")
  /\ UNCHANGED <<pool, stuck, sent, fault>>

(* RegisterExternalReservation for a reservation the requester created.     *)
RegisterExternal(j) ==
  /\ chain[j] = "none"
  /\ chain' = [chain EXCEPT ![j] = "created"]
  /\ res' = res \cup {j}
  /\ UNCHANGED <<pool, stuck, gap, sent, leaked, fault>>

(* A settling transaction is mined; it reverts there if another settled the *)
(* reservation first.                                                       *)
Mine(j, tx) ==
  /\ tx \in pool[j]
  /\ pool' = [pool EXCEPT ![j] = @ \ {tx}]
  /\ chain' = IF ~Accepts(chain[j], tx) THEN chain
              ELSE [chain EXCEPT ![j] = IF tx = "refund" THEN "refunded" ELSE "completed"]
  /\ UNCHANGED <<stuck, gap, res, sent, leaked, fault>>

(* selectProviders by an operator other than this node.                     *)
SelectElsewhere(j) ==
  /\ OtherOperators
  /\ chain[j] = "created"
  /\ chain' = [chain EXCEPT ![j] = "active"]
  /\ UNCHANGED <<pool, stuck, gap, res, sent, leaked, fault>>

(* The nonce is read from the network again (switchRPC, or Connect in a new *)
(* process).  What waited behind the gap is mined once the gap is filled or *)
(* replaced by a transaction with its nonce.                                *)
ReadNonce(keep) ==
  /\ gap' = FALSE
  /\ keep \in [Jobs -> SUBSET Settling]
  /\ \A j \in Jobs : keep[j] \subseteq stuck[j]
  /\ pool' = [j \in Jobs |-> pool[j] \cup keep[j]]
  /\ stuck' = [j \in Jobs |-> {}]

SwitchRPC ==
  /\ RPCFaults /\ gap
  /\ \E keep \in [Jobs -> SUBSET Settling] : ReadNonce(keep)
  /\ fault' = TRUE
  /\ UNCHANGED <<chain, res, sent, leaked>>

(* CleanupStaleReservations after 24 hours, and the event consumer that     *)
(* drops the mapping of a reservation settled on chain.                     *)
ForgetReservation(j) ==
  /\ j \in res
  /\ res' = res \ {j}
  /\ UNCHANGED <<chain, pool, stuck, gap, sent, leaked, fault>>

-----------------------------------------------------------------------------
(* The container manager over it.                                           *)
CONSTANTS
  Calls,        \* API calls in progress at once
  Savers,       \* save-state goroutines at once
  Peers,        \* nodes that may acknowledge a replica
  MaxRestarts,  \* bound on crashes and shutdowns
  NoDep,        \* no deployment record
  NoLook        \* the status reconciler holds no reading

VARIABLES
  dep,        \* the Deployment object of each job
  inMap,      \* jobs in cm.deployments
  disk,       \* the record of each job in the state store
  saver,      \* what each save-state goroutine has to do
  ctr,        \* the job's container in containerd
  pending,    \* the job's pendingDeployment tracker, and its activation
  call,       \* API calls in progress
  orphan,     \* jobs whose escrow-reconcile goroutine has not run
  look,       \* reading of the status reconciler, taken before cm.mu
  up,         \* the daemon runs
  restarts

cmVars == <<dep, inMap, disk, saver, ctr, pending, call, orphan, look, up, restarts>>
vars == <<payVars, cmVars>>

Statuses == {"running", "stopped", "failed"}
Record == [st : Statuses, fin : BOOLEAN]
Idle == [at |-> "idle", job |-> NoDep]
NoImage == [j \in {} |-> NoDep]
SaverIdle == [at |-> "idle", img |-> NoImage]

Init ==
  /\ PayInit
  /\ dep = [j \in Jobs |-> NoDep]
  /\ inMap = {}
  /\ disk = [j \in Jobs |-> NoDep]
  /\ saver = [s \in Savers |-> SaverIdle]
  /\ ctr = [j \in Jobs |-> "absent"]
  /\ pending = [j \in Jobs |-> "none"]
  /\ call = [c \in Calls |-> Idle]
  /\ orphan = {}
  /\ look = NoLook
  /\ up = TRUE
  /\ restarts = 0

TypeOK ==
  /\ PayTypeOK
  /\ dep \in [Jobs -> Record \cup {NoDep}]
  /\ inMap \subseteq {j \in Jobs : dep[j] # NoDep}
  /\ disk \in [Jobs -> Record \cup {NoDep}]
  /\ \A s \in Savers : /\ saver[s].at \in {"idle", "due", "writing"}
                       /\ \A j \in DOMAIN saver[s].img : saver[s].img[j] \in Record
  /\ ctr \in [Jobs -> {"absent", "running", "exited", "unknown", "stopped"}]
  /\ pending \in [Jobs -> {"none", "open", "calling", "activated"}]
  /\ orphan \subseteq Jobs
  /\ restarts \in 0 .. MaxRestarts

-----------------------------------------------------------------------------
(* saveStateAsync starts a goroutine; the goroutine copies the map under    *)
(* the read lock, and then puts the records one by one.  Two of them may    *)
(* write in either order.                                                   *)
SaveStateAsync ==
  \E s \in Savers : /\ saver[s].at = "idle"
                    /\ saver' = [saver EXCEPT ![s].at = "due"]

CopyState(s) ==
  /\ up /\ saver[s].at = "due"
  /\ saver' = [saver EXCEPT ![s] = IF inMap = {} THEN SaverIdle
                                   ELSE [at |-> "writing", img |-> [j \in inMap |-> dep[j]]]]
  /\ UNCHANGED <<payVars, dep, inMap, disk, ctr, pending, call, orphan, look, up, restarts>>

PutDeployment(s, j) ==
  LET left == DOMAIN saver[s].img \ {j}
  IN  /\ up /\ saver[s].at = "writing"
      /\ j \in DOMAIN saver[s].img
      /\ disk' = [disk EXCEPT ![j] = saver[s].img[j]]
      /\ saver' = [saver EXCEPT ![s] = IF left = {} THEN SaverIdle
                                       ELSE [@ EXCEPT !.img = [i \in left |-> @[i]]]]
      /\ UNCHANGED <<payVars, dep, inMap, ctr, pending, call, orphan, look, up, restarts>>

-----------------------------------------------------------------------------
(* Deploy, first part: the escrow, before any record exists.                *)
Goto(c, at, j) == call' = [call EXCEPT ![c] = [at |-> at, job |-> j]]
At(c, at, j) == up /\ call[c] = [at |-> at, job |-> j]
Return(c) == call' = [call EXCEPT ![c] = Idle]

DeployEscrow(c, j) ==
  /\ At(c, "idle", NoDep) /\ chain[j] = "none"
  /\ \/ \E r \in {"ok", "timedOut", "refused"} :
          /\ CreateEscrow(j, r)
          /\ IF r = "ok" THEN Goto(c, "deploy", j) ELSE UNCHANGED call
     \/ RegisterExternal(j) /\ Goto(c, "deploy", j)
  /\ UNCHANGED <<dep, inMap, disk, saver, ctr, pending, orphan, look, up, restarts>>

(* Second part, under cm.mu: deployLocally, the record, the tracker.  A     *)
(* container that was created and would not start is deleted again.         *)
DeployLocally(c, j) ==
  /\ At(c, "deploy", j)
  /\ \/ /\ ctr' = [ctr EXCEPT ![j] = "running"]
        /\ dep' = [dep EXCEPT ![j] = [st |-> "running", fin |-> FALSE]]
        /\ inMap' = inMap \cup {j}
        /\ pending' = [pending EXCEPT ![j] = "open"]
        /\ SaveStateAsync
        /\ Return(c)
        /\ UNCHANGED payVars
     \/ /\ \E r \in RecordResults : Spend({r})
        /\ Goto(c, "refund", j)
        /\ UNCHANGED <<ctr, dep, inMap, pending, saver>>
  /\ UNCHANGED <<disk, orphan, look, up, restarts>>

RefundEscrow(c, j) ==
  /\ At(c, "refund", j)
  /\ \E r \in Results(j, "refund") : Settle(j, "refund", r, {})
  /\ Return(c)
  /\ UNCHANGED <<dep, inMap, disk, saver, ctr, pending, orphan, look, up, restarts>>

-----------------------------------------------------------------------------
(* handleDeployAck on the tracker: the first successful ack takes the       *)
(* activation, with the acks known at that moment; a tracker that is gone   *)
(* ignores the ack.  What becomes of a tracker once its activation is taken *)
(* changes nothing any more.                                                *)
HandleDeployAck(j) ==
  /\ up /\ pending[j] = "open"
  /\ pending' = [pending EXCEPT ![j] = "calling"]
  /\ UNCHANGED <<payVars, dep, inMap, disk, saver, ctr, call, orphan, look, up, restarts>>

(* activateEscrow: the local wallet and those of the successful acks in the *)
(* snapshot; selectProviders refuses unless all three places are filled.    *)
Filled(acked) == 1 + Cardinality(acked) = 3

ActivateEscrow(j) ==
  /\ up /\ pending[j] = "calling"
  /\ pending' = [pending EXCEPT ![j] = "activated"]
  /\ \E p \in Peers :
       LET full == Filled({p})
       IN  \/ j \notin res /\ UNCHANGED payVars
           \/ /\ j \in res /\ full /\ chain[j] = "created" /\ ~gap
              /\ chain' = [chain EXCEPT ![j] = "active"]
              /\ UNCHANGED <<pool, stuck, gap, res, sent, leaked, fault>>
           \/ j \in res /\ (~full \/ chain[j] # "created") /\ Spend({"revert"})
           \/ j \in res /\ \E r \in Faults : Spend({r})
  /\ UNCHANGED <<dep, inMap, disk, saver, ctr, call, orphan, look, up, restarts>>

(* The tracker's other ends: cleanStalePendingDeployments after five        *)
(* minutes, and waitForReplicaAcks when its time is over.                   *)
ClosePending(j) == [pending EXCEPT ![j] = IF @ = "open" THEN "none" ELSE @]

DropPending(j) ==
  /\ up /\ pending[j] = "open"
  /\ pending' = ClosePending(j)
  /\ UNCHANGED <<payVars, dep, inMap, disk, saver, ctr, call, orphan, look, up, restarts>>

-----------------------------------------------------------------------------
(* Stop.  StopContainer succeeds on a running container and on one without  *)
(* a task; on an exited one the signal fails, and so does Stop.  It may     *)
(* also fail having killed the task.                                        *)
StopLookup(c, j) ==
  /\ At(c, "idle", NoDep) /\ j \in inMap
  /\ Goto(c, "stop", j)
  /\ UNCHANGED <<payVars, dep, inMap, disk, saver, ctr, pending, orphan, look, up, restarts>>

StopContainer(c, j) ==
  /\ At(c, "stop", j)
  /\ \/ /\ ctr[j] \in {"running", "stopped"}
        /\ ctr' = [ctr EXCEPT ![j] = "stopped"]
        /\ Goto(c, "stopRelease", j)
     \/ /\ ctr[j] # "stopped"
        /\ ctr' \in IF ctr[j] = "running" THEN {ctr, [ctr EXCEPT ![j] = "exited"]} ELSE {ctr}
        /\ Return(c)
  /\ UNCHANGED <<payVars, dep, inMap, disk, saver, pending, orphan, look, up, restarts>>

StopRelease(c, j) ==
  /\ At(c, "stopRelease", j)
  /\ \E r1 \in ReleaseResults(j), r2 \in RecordResults : Spend({r1, r2})
  /\ pending' = ClosePending(j)
  /\ Goto(c, "stopFinalize", j)
  /\ UNCHANGED <<dep, inMap, disk, saver, ctr, orphan, look, up, restarts>>

StopFinalize(c, j) ==
  /\ At(c, "stopFinalize", j)
  /\ \E r \in Results(j, "finalize") :
       /\ Settle(j, "finalize", r, {})
       /\ dep' = IF r = "sent" THEN [dep EXCEPT ![j].fin = TRUE] ELSE dep
  /\ Goto(c, "stopRecord", j)
  /\ UNCHANGED <<inMap, disk, saver, ctr, pending, orphan, look, up, restarts>>

StopRecord(c, j) ==
  /\ At(c, "stopRecord", j)
  /\ dep' = [dep EXCEPT ![j].st = "stopped"]
  /\ SaveStateAsync
  /\ Return(c)
  /\ UNCHANGED <<payVars, inMap, disk, ctr, pending, orphan, look, up, restarts>>

(* Start.  A retained volume may have expired, which fails the call.        *)
StartLookup(c, j) ==
  /\ At(c, "idle", NoDep) /\ j \in inMap
  /\ dep[j].st = "stopped"
  /\ Goto(c, "start", j)
  /\ UNCHANGED <<payVars, dep, inMap, disk, saver, ctr, pending, orphan, look, up, restarts>>

StartContainer(c, j) ==
  /\ At(c, "start", j)
  /\ \/ /\ ctr[j] = "stopped"
        /\ ctr' = [ctr EXCEPT ![j] = "running"]
        /\ Goto(c, "startRecord", j)
     \/ UNCHANGED ctr /\ Return(c)
  /\ UNCHANGED <<payVars, dep, inMap, disk, saver, pending, orphan, look, up, restarts>>

StartRecord(c, j) ==
  /\ At(c, "startRecord", j)
  /\ dep' = [dep EXCEPT ![j].st = "running"]
  /\ SaveStateAsync
  /\ Return(c)
  /\ UNCHANGED <<payVars, inMap, disk, ctr, pending, orphan, look, up, restarts>>

(* Delete, by the API or by cleanupExpiredVolumes: out of the map first,    *)
(* then the payment, then the container and the stored record.              *)
DeleteLookup(c, j) ==
  /\ At(c, "idle", NoDep) /\ j \in inMap
  /\ inMap' = inMap \ {j}
  /\ Goto(c, IF dep[j].st = "running" THEN "deleteRelease" ELSE "deleteSettle", j)
  /\ UNCHANGED <<payVars, dep, disk, saver, ctr, pending, orphan, look, up, restarts>>

DeleteRelease(c, j) ==
  /\ At(c, "deleteRelease", j)
  /\ \E r \in ReleaseResults(j) : Spend({r})
  /\ Goto(c, "deleteSettle", j)
  /\ UNCHANGED <<dep, inMap, disk, saver, ctr, pending, orphan, look, up, restarts>>

DeleteSettle(c, j) ==
  LET tx == IF dep[j].st = "failed" THEN "refund" ELSE "finalize"
  IN  /\ At(c, "deleteSettle", j)
      /\ \E r \in Results(j, tx) :
           /\ Settle(j, tx, r, {})
           /\ dep' = IF r = "sent" THEN [dep EXCEPT ![j].fin = TRUE] ELSE dep
      /\ Goto(c, "deleteContainer", j)
      /\ UNCHANGED <<inMap, disk, saver, ctr, pending, orphan, look, up, restarts>>

(* The kill is not waited for, so a running task may outlive the delete.    *)
DeleteContainer(c, j) ==
  /\ At(c, "deleteContainer", j)
  /\ \/ dep[j].st # "failed" /\ UNCHANGED payVars
     \/ dep[j].st = "failed" /\ \E r \in RecordResults : Spend({r})
  /\ pending' = ClosePending(j)
  /\ ctr' \in {[ctr EXCEPT ![j] = s] :
                 s \in IF ctr[j] \in {"running", "unknown"} THEN {"absent", "exited"} ELSE {"absent"}}
  /\ Goto(c, "deleteState", j)
  /\ UNCHANGED <<dep, inMap, disk, saver, orphan, look, up, restarts>>

DeleteDeploymentState(c, j) ==
  /\ At(c, "deleteState", j)
  /\ disk' = [disk EXCEPT ![j] = NoDep]
  /\ Return(c)
  /\ UNCHANGED <<payVars, dep, inMap, saver, ctr, pending, orphan, look, up, restarts>>

-----------------------------------------------------------------------------
(* GetContainerStatus: an error for an absent container.                    *)
Actual(s) == IF s = "running" THEN "running" ELSE IF s = "unknown" THEN "failed" ELSE "stopped"

(* A container exits, or containerd loses track of its task.  The disk      *)
(* enforcer stops one itself, without telling the manager.                  *)
ContainerFails(j) ==
  /\ ctr[j] = "running"
  /\ ctr' \in {[ctr EXCEPT ![j] = s] : s \in {"exited", "unknown", "stopped"}}
  /\ (ctr'[j] = "stopped" => up)
  /\ UNCHANGED <<payVars, dep, inMap, disk, saver, pending, call, orphan, look, up, restarts>>

(* reconcileContainerStatus: the status is read without cm.mu, the record   *)
(* is corrected and the escrow refunded under it.  A broken variant trusts  *)
(* the record and never looks at containerd.                                *)
LookNowhere(j) == FALSE

ReadStatus(j) ==
  /\ up /\ look = NoLook
  /\ j \in inMap /\ dep[j].st = "running" /\ ctr[j] # "absent"
  /\ look' = [job |-> j, actual |-> Actual(ctr[j])]
  /\ UNCHANGED <<payVars, dep, inMap, disk, saver, ctr, pending, call, orphan, up, restarts>>

ReconcileContainerStatus ==
  /\ up /\ look # NoLook
  /\ LET j == look.job
     IN  IF j \in inMap /\ dep[j].st = "running" /\ look.actual # "running"
         THEN /\ dep' = [dep EXCEPT ![j].st = look.actual]
              /\ SaveStateAsync
              /\ \E r0 \in RecordResults, r \in Results(j, "refund") : Settle(j, "refund", r, {r0})
         ELSE UNCHANGED <<payVars, dep, saver>>
  /\ look' = NoLook
  /\ UNCHANGED <<inMap, disk, ctr, pending, call, orphan, up, restarts>>

-----------------------------------------------------------------------------
(* The process dies; containers, chain and network go on.                   *)
LoseMemory ==
  /\ dep' = [j \in Jobs |-> NoDep]
  /\ inMap' = {}
  /\ saver' = [s \in Savers |-> SaverIdle]
  /\ pending' = [j \in Jobs |-> "none"]
  /\ call' = [c \in Calls |-> Idle]
  /\ orphan' = {}
  /\ look' = NoLook
  /\ up' = FALSE
  /\ restarts' = restarts + 1

Crash ==
  /\ up /\ restarts < MaxRestarts
  /\ LoseMemory
  /\ res' = {}
  /\ UNCHANGED <<chain, pool, stuck, gap, sent, leaked, fault, disk, ctr>>

(* Shutdown, when no call is in progress: FinalizeAllEscrows for what is    *)
(* recorded as running, without marking it, then Close saves the records.   *)
(* A release that fails before a finalize leaves it behind the gap.         *)
Shutdown ==
  LET running == {j \in inMap : dep[j].st = "running"}
      ok == {j \in running \cap res : Accepts(chain[j], "finalize")}
      with(f, js) == [j \in Jobs |-> IF j \in js THEN f[j] \cup {"finalize"} ELSE f[j]]
  IN  /\ up /\ restarts < MaxRestarts
      /\ \A c \in Calls : call[c] = Idle
      /\ \E done \in IF RPCFaults THEN SUBSET ok ELSE {ok} :
           \E late \in IF gap THEN {done} ELSE SUBSET done :
             /\ pool' = with(pool, done \ late)
             /\ stuck' = with(stuck, late)
             /\ sent' = sent \cup done
             /\ leaked' = (leaked \/ done # running \/ late # {})
             /\ fault' = (fault \/ done # ok)
      /\ disk' = [j \in Jobs |-> IF j \in inMap THEN dep[j] ELSE disk[j]]
      /\ LoseMemory
      /\ res' = {}
      /\ UNCHANGED <<chain, gap, ctr>>

(* NewContainerManager: loadState, reconcileOnStartup against containerd,   *)
(* and reconcileEscrowsOnStartup, which rehydrates the mapping of the       *)
(* orphans and starts a goroutine for each.  A broken variant does not      *)
(* rehydrate.                                                               *)
Reconciled(j) ==
  IF disk[j] = NoDep THEN NoDep
  ELSE IF ctr[j] = "absent"
       THEN [disk[j] EXCEPT !.st = IF @ = "running" THEN "stopped" ELSE @]
       ELSE [disk[j] EXCEPT !.st = Actual(ctr[j])]

Orphans == {j \in Jobs : LET d == Reconciled(j)
                         IN  d # NoDep /\ ~d.fin /\ d.st \in {"stopped", "failed"}}

RehydrateNothing(js) == {}
Rehydrate(js) == js

Restart ==
  /\ ~up
  /\ up' = TRUE
  /\ dep' = [j \in Jobs |-> Reconciled(j)]
  /\ disk' = [j \in Jobs |-> Reconciled(j)]
  /\ inMap' = {j \in Jobs : disk[j] # NoDep}
  /\ orphan' = Orphans
  /\ res' = Rehydrate(Orphans)
  /\ \E keep \in [Jobs -> SUBSET Settling] : ReadNonce(keep)
  /\ UNCHANGED <<chain, sent, leaked, fault, saver, ctr, pending, call, look, restarts>>

(* The escrow-reconcile goroutine of one orphan.                            *)
FinalizeOrphan(j) ==
  /\ up /\ j \in orphan
  /\ orphan' = orphan \ {j}
  /\ \E r \in Results(j, "finalize") :
       /\ Settle(j, "finalize", r, {})
       /\ IF j \in inMap /\ (r = "sent" \/ IsAlreadyTerminalEscrowErr(r))
          THEN dep' = [dep EXCEPT ![j].fin = TRUE] /\ SaveStateAsync
          ELSE UNCHANGED <<dep, saver>>
  /\ UNCHANGED <<inMap, disk, ctr, pending, call, look, up, restarts>>

(* The 24 hours of CleanupStaleReservations pass while nothing is going on. *)
Quiet == orphan = {} /\ look = NoLook /\ \A c \in Calls : call[c] = Idle

PaymentStep ==
  /\ \/ \E j \in Jobs, tx \in Settling : Mine(j, tx)
     \/ \E j \in Jobs : SelectElsewhere(j)
     \/ up /\ SwitchRPC
     \/ \E j \in Jobs : up /\ (Quiet \/ Terminal(chain[j])) /\ ForgetReservation(j)
  /\ UNCHANGED cmVars

CallStep(c) ==
  \E j \in Jobs :
    \/ DeployLocally(c, j) \/ RefundEscrow(c, j)
    \/ StopContainer(c, j) \/ StopRelease(c, j) \/ StopFinalize(c, j) \/ StopRecord(c, j)
    \/ StartContainer(c, j) \/ StartRecord(c, j)
    \/ DeleteRelease(c, j) \/ DeleteSettle(c, j) \/ DeleteContainer(c, j) \/ DeleteDeploymentState(c, j)

NewCall(c) ==
  \E j \in Jobs : DeployEscrow(c, j) \/ StopLookup(c, j) \/ StartLookup(c, j) \/ DeleteLookup(c, j)

Next ==
  \/ PaymentStep
  \/ \E c \in Calls : NewCall(c) \/ CallStep(c)
  \/ \E s \in Savers : CopyState(s) \/ \E j \in Jobs : PutDeployment(s, j)
  \/ \E j \in Jobs : \/ HandleDeployAck(j) \/ ActivateEscrow(j) \/ DropPending(j)
                      \/ ContainerFails(j) \/ ReadStatus(j) \/ FinalizeOrphan(j)
  \/ ReconcileContainerStatus
  \/ Crash \/ Shutdown \/ Restart

(* Goroutines run, the reconciler comes back every 30 seconds, accepted     *)
(* transactions are mined, and a daemon that died is started again.  A step *)
(* that starts a saver never waits for one in the code: strong fairness     *)
(* makes up for the bound on Savers.                                        *)
Fairness ==
  /\ \A s \in Savers : WF_vars(CopyState(s)) /\ \A j \in Jobs : WF_vars(PutDeployment(s, j))
  /\ \A c \in Calls : SF_vars(CallStep(c))
  /\ \A j \in Jobs : SF_vars(ReadStatus(j)) /\ SF_vars(FinalizeOrphan(j))
  /\ \A j \in Jobs, tx \in Settling : WF_vars(Mine(j, tx) /\ UNCHANGED cmVars)
  /\ SF_vars(ReconcileContainerStatus)
  /\ WF_vars(Restart)

Spec == Init /\ [][Next]_vars /\ Fairness

-----------------------------------------------------------------------------
(* EscrowFinalized, in memory, in a save under way or on disk, is set only  *)
(* when a settling transaction of the job was accepted or the reservation   *)
(* is settled: the startup sweep skips no escrow that nobody tried to       *)
(* settle, whatever order the savers write in.                              *)
Marked(j) ==
  \/ dep[j] # NoDep /\ dep[j].fin
  \/ disk[j] # NoDep /\ disk[j].fin
  \/ \E s \in Savers : j \in DOMAIN saver[s].img /\ saver[s].img[j].fin

MarksSound == \A j \in Jobs : Marked(j) => j \in sent \/ Terminal(chain[j])

(* The gap reconcileEscrowsOnStartup is for: the daemon is down, the record *)
(* on disk is that of a deployment that no longer runs, and its active      *)
(* escrow is not marked.  After the restart the escrow is settled, unless   *)
(* the endpoint failed or a nonce was lost.                                 *)
Abandoned(j) ==
  /\ ~up /\ chain[j] = "active" /\ ctr[j] # "running"
  /\ disk[j] # NoDep /\ ~disk[j].fin

SettledOrExcused(j) == Terminal(chain[j]) \/ leaked \/ fault

OrphansSettled == \A j \in Jobs : Abandoned(j) ~> SettledOrExcused(j)

(* reconcileContainerStatus: a deployment recorded as running whose         *)
(* container does not run is noticed.                                       *)
Drifted(j) ==
  /\ up /\ j \in inMap /\ dep[j].st = "running"
  /\ ctr[j] \in {"exited", "unknown", "stopped"}

DriftNoticed == \A j \in Jobs : Drifted(j) ~> ~Drifted(j)

(* "Activate escrow once on first successful ack (transition Created ->     *)
(* Active)": once that call is over, and the endpoint did not fail it, the  *)
(* reservation is no longer merely created.                                 *)
FirstAckActivates == \A j \in Jobs : pending[j] = "activated" /\ ~fault => chain[j] # "created"

=============================================================================
