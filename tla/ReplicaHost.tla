----------------------------- MODULE ReplicaHost -----------------------------
(****************************************************************************)
(* internal/daemon on a node that is asked to host a replica:               *)
(* handleDeployRequest, the deploy-replica goroutine it starts, and the     *)
(* stop and delete orders other nodes send.  Requests are delivered again   *)
(* by the sender's retries; each delivery has a handler of its own.  The    *)
(* goroutine works on a copy of the record, so nothing it writes to its     *)
(* copy reaches cm.deployments.                                             *)
(****************************************************************************)
EXTENDS Naturals, FiniteSets

CONSTANTS
  Ids,           \* deployments
  Nodes,         \* nodes that send requests and orders
  Nothing,       \* no record
  MaxRequests,   \* bound on delivered requests
  MaxOrders      \* bound on delivered stop and delete orders

VARIABLES
  rec,       \* cm.deployments: originator and status
  ctr,       \* the container in containerd
  molt,      \* deployments registered with the MoltManager
  key,       \* deployments whose exec-key file is on disk
  task,      \* the handler and goroutine of each request
  order,     \* the handler of each stop or delete order
  owned,     \* history: who was the originator of what
  deletes,   \* history: records removed
  crossed    \* history: deployments whose order overlapped a goroutine

vars == <<rec, ctr, molt, key, task, order, owned, deletes, crossed>>

Requests == 1 .. MaxRequests
Orders == 1 .. MaxOrders
Unsent == [at |-> "unsent", id |-> Nothing, from |-> Nothing]

Init ==
  /\ rec = [d \in Ids |-> Nothing]
  /\ ctr = [d \in Ids |-> "absent"]
  /\ molt = {}
  /\ key = {}
  /\ task = [n \in Requests |-> Unsent]
  /\ order = [n \in Orders |-> Unsent]
  /\ owned = {}
  /\ deletes = [d \in Ids |-> 0]
  /\ crossed = {}

(* Deliveries are numbered in the order they arrive.                        *)
Arrives(f, n) == f[n] = Unsent /\ \A m \in 1 .. n - 1 : f[m] # Unsent

Deploying(d) == \E n \in Requests : task[n].id = d /\ task[n].at \in {"seed", "create", "start", "molt"}
Ordered(d) == \E n \in Orders : order[n].id = d /\ order[n].at \notin {"unsent", "done"}

GotoT(n, at) == task' = [task EXCEPT ![n].at = at]
GotoO(n, at) == order' = [order EXCEPT ![n].at = at]

-----------------------------------------------------------------------------
(* A request that fails a check before cm.mu is taken (wallet announced,    *)
(* token balance, provider tier, job kinds accepted, minimum stake) is      *)
(* answered with a negative ack and leaves nothing behind.                  *)
RefuseRequest(n, d, o) ==
  /\ Arrives(task, n)
  /\ task' = [task EXCEPT ![n] = [at |-> "refused", id |-> d, from |-> o]]
  /\ UNCHANGED <<rec, ctr, molt, key, order, owned, deletes, crossed>>

AcceptAnything(n, d, o, next) ==
  /\ Arrives(task, n)
  /\ rec' = [rec EXCEPT ![d] = [from |-> o, st |-> "running"]]
  /\ owned' = owned \cup {<<d, o>>}
  /\ task' = [task EXCEPT ![n] = [at |-> next, id |-> d, from |-> o]]
  /\ crossed' = IF Ordered(d) THEN crossed \cup {d} ELSE crossed
  /\ UNCHANGED <<ctr, molt, key, order, deletes>>

(* The record is stored before anything is deployed, with the status the    *)
(* originator sent.  A node outside the regions keeps the record and does   *)
(* no more; without a Molt runtime it answers no and keeps the record too.  *)
AcceptRequest(n, d, o, next) ==
  /\ Arrives(task, n)
  /\ rec[d] = Nothing
  /\ rec' = [rec EXCEPT ![d] = [from |-> o, st |-> "running"]]
  /\ owned' = owned \cup {<<d, o>>}
  /\ task' = [task EXCEPT ![n] = [at |-> next, id |-> d, from |-> o]]
  /\ crossed' = IF Ordered(d) THEN crossed \cup {d} ELSE crossed
  /\ UNCHANGED <<ctr, molt, key, order, deletes>>

(* A request for a deployment that is already recorded is dropped without   *)
(* an answer.                                                               *)
DropDuplicate(n, d, o) ==
  /\ Arrives(task, n)
  /\ rec[d] # Nothing
  /\ task' = [task EXCEPT ![n] = [at |-> "dropped", id |-> d, from |-> o]]
  /\ UNCHANGED <<rec, ctr, molt, key, order, owned, deletes, crossed>>

-----------------------------------------------------------------------------
(* deployReplica.  prepareExecAgent writes the key to a file named after    *)
(* the deployment, or gives up and leaves none; a failure below removes     *)
(* that file only when this goroutine wrote it.                             *)
PrepareExecAgent(n) ==
  /\ task[n].at = "seed"
  /\ \/ /\ key' = key \cup {task[n].id}
        /\ task' = [task EXCEPT ![n] = [at |-> "create", id |-> @.id, from |-> @.from, seeded |-> TRUE]]
     \/ /\ task' = [task EXCEPT ![n] = [at |-> "create", id |-> @.id, from |-> @.from, seeded |-> FALSE]]
        /\ UNCHANGED key
  /\ UNCHANGED <<rec, ctr, molt, order, owned, deletes, crossed>>

CleanupExecKey(n) == key' = IF task[n].seeded THEN key \ {task[n].id} ELSE key

CreateReplica(n) ==
  LET d == task[n].id
  IN  /\ task[n].at = "create"
      /\ \/ /\ ctr[d] = "absent"
            /\ ctr' = [ctr EXCEPT ![d] = "created"]
            /\ GotoT(n, "start")
            /\ UNCHANGED key
         \/ /\ CleanupExecKey(n)
            /\ GotoT(n, "failed")
            /\ UNCHANGED ctr
      /\ UNCHANGED <<rec, molt, order, owned, deletes, crossed>>

(* A container that will not start is deleted again.                        *)
StartReplica(n) ==
  LET d == task[n].id
  IN  /\ task[n].at = "start"
      /\ \/ /\ ctr[d] \in {"created", "stopped"}
            /\ ctr' = [ctr EXCEPT ![d] = "running"]
            /\ GotoT(n, "acked")
            /\ UNCHANGED key
         \/ /\ ctr' = [ctr EXCEPT ![d] = "absent"]
            /\ CleanupExecKey(n)
            /\ GotoT(n, "failed")
      /\ UNCHANGED <<rec, molt, order, owned, deletes, crossed>>

DeployMoltReplica(n) ==
  /\ task[n].at = "molt"
  /\ \/ molt' = molt \cup {task[n].id} /\ GotoT(n, "acked")
     \/ GotoT(n, "failed") /\ UNCHANGED molt
  /\ UNCHANGED <<rec, ctr, key, order, owned, deletes, crossed>>

-----------------------------------------------------------------------------
(* handleRemoteStop and handleRemoteDelete: the sender is compared with the *)
(* record under the read lock, and the operation looks the record up again. *)
ObeyAnyone(n, d, o, op) ==
  /\ Arrives(order, n)
  /\ rec[d] # Nothing
  /\ order' = [order EXCEPT ![n] = [at |-> op, id |-> d, from |-> o]]
  /\ crossed' = IF Deploying(d) THEN crossed \cup {d} ELSE crossed
  /\ UNCHANGED <<rec, ctr, molt, key, task, owned, deletes>>

ReceiveOrder(n, d, o, op) ==
  /\ Arrives(order, n)
  /\ rec[d] # Nothing
  /\ rec[d].from = o
  /\ order' = [order EXCEPT ![n] = [at |-> op, id |-> d, from |-> o]]
  /\ crossed' = IF Deploying(d) THEN crossed \cup {d} ELSE crossed
  /\ UNCHANGED <<rec, ctr, molt, key, task, owned, deletes>>

(* Stop fails when the runtime does not know the container, and succeeds    *)
(* on one that was created and not started.                                 *)
RemoteStop(n) ==
  LET d == order[n].id
  IN  /\ order[n].at = "stop"
      /\ IF rec[d] = Nothing \/ ctr[d] = "absent"
         THEN GotoO(n, "done") /\ UNCHANGED ctr
         ELSE /\ ctr' = [ctr EXCEPT ![d] = IF @ = "running" THEN "stopped" ELSE @]
              /\ GotoO(n, "stopped")
      /\ UNCHANGED <<rec, molt, key, task, owned, deletes, crossed>>

(* The stored record holds the key path the originator sent; it names this  *)
(* node's file when both use one data directory.                            *)
RecordStopped(n) ==
  LET d == order[n].id
  IN  /\ order[n].at = "stopped"
      /\ rec' = [rec EXCEPT ![d] = IF @ = Nothing THEN @ ELSE [@ EXCEPT !.st = "stopped"]]
      /\ key' \in {key, key \ {d}}
      /\ GotoO(n, "done")
      /\ UNCHANGED <<ctr, molt, task, owned, deletes, crossed>>

RemoteDelete(n) ==
  LET d == order[n].id
  IN  /\ order[n].at = "delete"
      /\ IF rec[d] = Nothing
         THEN GotoO(n, "done") /\ UNCHANGED <<rec, deletes>>
         ELSE /\ rec' = [rec EXCEPT ![d] = Nothing]
              /\ deletes' = [deletes EXCEPT ![d] = @ + 1]
              /\ GotoO(n, "deleting")
      /\ UNCHANGED <<ctr, molt, key, task, owned, crossed>>

DeleteReplica(n) ==
  LET d == order[n].id
  IN  /\ order[n].at = "deleting"
      /\ ctr' = [ctr EXCEPT ![d] = "absent"]
      /\ key' \in {key, key \ {d}}
      /\ GotoO(n, "done")
      /\ UNCHANGED <<rec, molt, task, owned, deletes, crossed>>

Next ==
  \/ \E n \in Requests, d \in Ids, o \in Nodes :
       \/ RefuseRequest(n, d, o)
       \/ \E next \in {"seed", "molt", "elsewhere", "noRuntime"} : AcceptRequest(n, d, o, next)
       \/ DropDuplicate(n, d, o)
  \/ \E n \in Requests : PrepareExecAgent(n) \/ CreateReplica(n) \/ StartReplica(n) \/ DeployMoltReplica(n)
  \/ \E n \in Orders, d \in Ids, o \in Nodes, op \in {"stop", "delete"} : ReceiveOrder(n, d, o, op)
  \/ \E n \in Orders : RemoteStop(n) \/ RecordStopped(n) \/ RemoteDelete(n) \/ DeleteReplica(n)

Spec == Init /\ [][Next]_vars

-----------------------------------------------------------------------------
(* A container has a record, or a goroutine that will see to it: only an    *)
(* order that overlapped a deployment may leave one behind, since Delete    *)
(* finds no container to remove while the image is being pulled.            *)
NoOrphans ==
  \A d \in Ids : ctr[d] # "absent" /\ rec[d] = Nothing => Deploying(d) \/ Ordered(d) \/ d \in crossed

(* However often a request is delivered, one record leads to at most one    *)
(* positive ack and one container: retries are dropped, not deployed.       *)
OneReplicaEach ==
  \A d \in Ids : Cardinality({n \in Requests : task[n].id = d /\ task[n].at = "acked"}) <= 1 + deletes[d]

(* A retry that finds the replica running does not take away the exec key   *)
(* file that the running container mounts: the file goes only with the      *)
(* container, on an order of the originator.                                *)
KeyKept ==
  \A d \in Ids : /\ \E n \in Requests : task[n].id = d /\ task[n].at = "acked" /\ d \notin molt /\ task[n].seeded
                 /\ \A n \in Orders : order[n].id # d
                 => d \in key

(* Orders are obeyed only for nodes that originated the deployment,         *)
(* whatever is deployed and deleted while they are on their way.            *)
OnlyOriginators == \A n \in Orders : order[n] # Unsent => <<order[n].id, order[n].from>> \in owned

(* The four together.                                                       *)
HostSound == NoOrphans /\ OneReplicaEach /\ KeyKept /\ OnlyOriginators
=============================================================================
