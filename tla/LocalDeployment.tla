--------------------------- MODULE LocalDeployment ---------------------------
(***************************************************************************)
(* What a deployment holds on the host that runs it: the LUKS volume (its  *)
(* image and key files, the mapping, the mount), the exec key file, the    *)
(* container, the health probe and the published exposure, through         *)
(* deployLocally, Stop, Start, Delete, the sweep of expired volumes, the   *)
(* disk enforcer, and a crash of the daemon at any point of them.          *)
(*                                                                         *)
(* `have` holds the names of the things a deployment has on the host;      *)
(* deployLocally runs under the container manager's lock and its record is *)
(* stored when it is through, so nothing else touches the deployment till  *)
(* then.  A save of the record is prompt here; ContainerManager has the    *)
(* savers.                                                                 *)
(***************************************************************************)
EXTENDS Naturals, FiniteSets

CONSTANTS
  Ids,          \* deployments
  Threads,      \* concurrent API calls
  Wishes,       \* what requests may ask for: sets of "envelope", "ports"
  Nothing,
  MaxCalls, MaxFaults, MaxCrashes

VARIABLES
  rec,          \* cm.deployments: [st, vol, key, ports, due] or Nothing
  disk,         \* the saved record
  ctr,          \* "none", "made", "up" or "down", in containerd
  keyed,        \* does the container bind-mount the exec key file?
  have,         \* deployment -> what it has on the host
  volume,       \* em.volumes: "closed", "mounted" or Nothing
  deploy,       \* the deployLocally under way, or Nothing
  call,         \* thread -> its Stop, Start or Delete, or Nothing
  sweep,        \* the expired deployments the sweep has yet to delete
  used,         \* the ids given out: every Deploy takes a fresh one
  gone,         \* deployments a Delete went through for
  failed,       \* deployments whose Deploy failed
  marred,       \* deployments a failing command or a crash left unclear
  calls, faults, crashes

vars == <<rec, disk, ctr, keyed, have, volume, deploy, call, sweep, used, gone,
          failed, marred, calls, faults, crashes>>
host == <<ctr, keyed, have, volume>>
history == <<gone, failed, marred>>
budget == <<used, calls, faults, crashes>>

Init ==
  /\ rec = [d \in Ids |-> Nothing] /\ disk = rec
  /\ ctr = [d \in Ids |-> "none"] /\ keyed = {}
  /\ have = [d \in Ids |-> {}] /\ volume = [d \in Ids |-> Nothing]
  /\ deploy = Nothing /\ call = [t \in Threads |-> Nothing] /\ sweep = {}
  /\ used = {} /\ gone = {} /\ failed = {} /\ marred = {}
  /\ calls = 0 /\ faults = 0 /\ crashes = 0

Fault(d) == /\ faults < MaxFaults /\ faults' = faults + 1
            /\ marred' = marred \cup {d}
Broken == faults < MaxFaults /\ faults' = faults + 1

(***************************************************************************)
(* DeleteEncryptedVolume.  Where the volume is tracked it is unmounted and *)
(* closed first, and a failure of either is only logged: `how` is "ok",    *)
(* "busy" (it would not unmount) or "open" (it would not close).           *)
(***************************************************************************)
Leftover(d, how) ==
  IF volume[d] = Nothing \/ how = "busy" THEN have[d] \ {"img", "vkey"}
  ELSE IF how = "open" THEN have[d] \ {"img", "vkey", "mnt"}
  ELSE have[d] \ {"img", "vkey", "map", "mnt"}

(* As a bug would have it: the files go first and the volume is not closed.*)
FilesOnly(d, how) ==
  /\ have' = [have EXCEPT ![d] = @ \ {"img", "vkey"}]
  /\ volume' = [volume EXCEPT ![d] = Nothing]

DeleteEncryptedVolume(d, how) ==
  /\ have' = [have EXCEPT ![d] = Leftover(d, how)]
  /\ volume' = [volume EXCEPT ![d] = IF how = "busy" THEN @ ELSE Nothing]

Ways(d) == IF volume[d] = Nothing THEN {"ok"}
           ELSE {"ok"} \cup (IF "map" \in have[d] THEN {"open"} ELSE {})
                       \cup (IF "mnt" \in have[d] THEN {"busy"} ELSE {})

(* A deletion that works, or one that counts as a failing command.         *)
Cleanly(d, how) == how \in Ways(d) /\ IF how = "ok" THEN UNCHANGED <<faults, marred>> ELSE Fault(d)

(***************************************************************************)
(* deployLocally.                                                          *)
(***************************************************************************)
At(at) == deploy # Nothing /\ deploy.at = at
Goto(at) == deploy' = [deploy EXCEPT !.at = at]

Deploy(d, w) ==
  /\ deploy = Nothing /\ calls < MaxCalls /\ calls' = calls + 1
  /\ d \notin used /\ used' = used \cup {d}
  /\ deploy' = [d |-> d, at |-> "create", want |-> w, vol |-> FALSE]
  /\ UNCHANGED <<rec, disk, host, call, sweep, history, faults, crashes>>

CreateEncryptedVolume(ok) ==
  /\ At("create")
  /\ LET d == deploy.d IN
     \/ /\ ok /\ UNCHANGED faults
        /\ have' = [have EXCEPT ![d] = @ \cup {"img", "vkey"}]
        /\ volume' = [volume EXCEPT ![d] = "closed"] /\ Goto("open")
     \/ ~ok /\ Broken /\ Goto("agent") /\ UNCHANGED <<have, volume>>
  /\ UNCHANGED <<rec, disk, ctr, keyed, call, sweep, history, used, calls, crashes>>

OpenVolume(ok) ==
  /\ At("open")
  /\ LET d == deploy.d IN
     \/ /\ ok /\ UNCHANGED <<faults, volume>>
        /\ have' = [have EXCEPT ![d] = @ \cup {"map"}] /\ Goto("format")
     \/ ~ok /\ Broken /\ DeleteEncryptedVolume(d, "ok") /\ Goto("agent")
  /\ UNCHANGED <<rec, disk, ctr, keyed, call, sweep, history, used, calls, crashes>>

FormatVolume(ok) ==
  /\ At("format")
  /\ \/ ok /\ UNCHANGED <<faults, have, volume>> /\ Goto("mount")
     \/ ~ok /\ Broken /\ DeleteEncryptedVolume(deploy.d, "ok") /\ Goto("agent")
  /\ UNCHANGED <<rec, disk, ctr, keyed, call, sweep, history, used, calls, crashes>>

MountVolume(ok) ==
  /\ At("mount")
  /\ LET d == deploy.d IN
     \/ /\ ok /\ UNCHANGED faults
        /\ have' = [have EXCEPT ![d] = @ \cup {"mnt"}]
        /\ volume' = [volume EXCEPT ![d] = "mounted"]
        /\ deploy' = [deploy EXCEPT !.at = "agent", !.vol = TRUE]
     \/ ~ok /\ Broken /\ DeleteEncryptedVolume(d, "ok") /\ Goto("agent")
  /\ UNCHANGED <<rec, disk, ctr, keyed, call, sweep, history, used, calls, crashes>>

(* An envelope that cannot be opened leaves the deployment without it.     *)
PrepareExecAgent(ok) ==
  /\ At("agent")
  /\ IF "envelope" \in deploy.want /\ ok
     THEN have' = [have EXCEPT ![deploy.d] = @ \cup {"execkey"}] ELSE UNCHANGED have
  /\ Goto("container")
  /\ UNCHANGED <<rec, disk, ctr, keyed, volume, call, sweep, history, budget>>

(* The way out of a failed deployLocally: the volume, the exec key, the    *)
(* lock.                                                                   *)
(* As a bug would have it: the exec key stays.                             *)
UnwindKeepsKey(d, how) ==
  /\ IF deploy.vol THEN DeleteEncryptedVolume(d, how) ELSE UNCHANGED <<have, volume>>
  /\ failed' = failed \cup {d} /\ deploy' = Nothing

Unwind(d, how) ==
  /\ have' = [have EXCEPT ![d] = (IF deploy.vol THEN Leftover(d, how) ELSE @) \ {"execkey"}]
  /\ volume' = IF deploy.vol /\ how # "busy" THEN [volume EXCEPT ![d] = Nothing] ELSE volume
  /\ failed' = failed \cup {d} /\ deploy' = Nothing

CreateSecureContainer(ok, how) ==
  /\ At("container")
  /\ LET d == deploy.d IN
     \/ /\ ok /\ how = "ok" /\ UNCHANGED <<faults, marred, failed, have, volume>>
        /\ ctr' = [ctr EXCEPT ![d] = "made"]
        /\ keyed' = IF "execkey" \in have[d] THEN keyed \cup {d} ELSE keyed
        /\ Goto("start")
     \/ /\ ~ok /\ faults < MaxFaults /\ how \in Ways(d)
        /\ faults' = faults + 1 /\ marred' = IF how = "ok" THEN marred ELSE marred \cup {d}
        /\ Unwind(d, how) /\ UNCHANGED <<ctr, keyed>>
  /\ UNCHANGED <<rec, disk, call, sweep, gone, used, calls, crashes>>

(* A container that does not start is deleted; that may fail as well.      *)
StartNewContainer(ok, del, how) ==
  /\ At("start")
  /\ LET d == deploy.d IN
     \/ /\ ok /\ del /\ how = "ok" /\ UNCHANGED <<faults, marred, failed, have, volume, keyed>>
        /\ ctr' = [ctr EXCEPT ![d] = "up"] /\ Goto("publish")
     \/ /\ ~ok /\ faults < MaxFaults /\ how \in Ways(d)
        /\ faults' = faults + 1
        /\ marred' = IF del /\ how = "ok" THEN marred ELSE marred \cup {d}
        /\ IF del THEN ctr' = [ctr EXCEPT ![d] = "none"] /\ keyed' = keyed \ {d}
           ELSE UNCHANGED <<ctr, keyed>>
        /\ Unwind(d, how)
  /\ UNCHANGED <<rec, disk, call, sweep, gone, used, calls, crashes>>

(* RegisterProbe and publishServiceExposure; then the record is stored and *)
(* saved and the lock is free.                                             *)
StoreDeployment ==
  /\ At("publish")
  /\ LET d == deploy.d
         r == [st |-> "running", vol |-> deploy.vol, key |-> "execkey" \in have[d],
               ports |-> "ports" \in deploy.want, due |-> "never"]
     IN /\ have' = [have EXCEPT ![d] = @ \cup {"probe"} \cup (IF r.ports THEN {"expo"} ELSE {})]
        /\ rec' = [rec EXCEPT ![d] = r] /\ disk' = [disk EXCEPT ![d] = r]
  /\ deploy' = Nothing
  /\ UNCHANGED <<ctr, keyed, volume, call, sweep, history, budget>>

(***************************************************************************)
(* Stop, Start and Delete take the lock to look the record up and again at *)
(* the end; a record that is deleted in between is still the one they      *)
(* change, and nobody sees it.                                             *)
(***************************************************************************)
In(t, at) == call[t] # Nothing /\ call[t].at = at
Move(t, at) == call' = [call EXCEPT ![t].at = at]
Return(t) == call' = [call EXCEPT ![t] = Nothing]
Begin(t, d, at) ==
  /\ call[t] = Nothing /\ deploy = Nothing /\ calls < MaxCalls /\ calls' = calls + 1
  /\ rec[d] # Nothing
  /\ call' = [call EXCEPT ![t] = [d |-> d, at |-> at, vol |-> rec[d].vol]]

Stop(t, d) ==
  /\ Begin(t, d, "halt")
  /\ UNCHANGED <<rec, disk, host, deploy, sweep, history, used, faults, crashes>>

StopContainer(t, ok) ==
  /\ In(t, "halt")
  /\ LET d == call[t].d IN
     \/ /\ ok /\ ctr[d] # "none" /\ UNCHANGED faults
        /\ ctr' = [ctr EXCEPT ![d] = IF @ = "up" THEN "down" ELSE @]
        /\ Move(t, "withdraw")
     \/ ~ok /\ Broken /\ Return(t) /\ UNCHANGED ctr
     \/ ctr[d] = "none" /\ Return(t) /\ UNCHANGED <<ctr, faults>>
  /\ UNCHANGED <<rec, disk, keyed, have, volume, deploy, sweep, history, used, calls, crashes>>

(* removeServiceExposure finds the ports in the record of cm.deployments.  *)
Withdrawn(d) == IF rec[d] # Nothing /\ rec[d].ports THEN {"expo"} ELSE {}

StopTeardown(t) ==
  /\ In(t, "withdraw")
  /\ LET d == call[t].d IN have' = [have EXCEPT ![d] = (@ \ {"probe"}) \ Withdrawn(d)]
  /\ Move(t, "stopped")
  /\ UNCHANGED <<rec, disk, ctr, keyed, volume, deploy, sweep, history, budget>>

RecordStopped(t) ==
  /\ In(t, "stopped") /\ deploy = Nothing
  /\ LET d == call[t].d IN
     /\ have' = [have EXCEPT ![d] = @ \ {"execkey"}]
     /\ IF rec[d] = Nothing THEN UNCHANGED <<rec, disk>>
        ELSE LET r == [rec[d] EXCEPT !.st = "stopped", !.key = FALSE, !.due = "later"] IN
             rec' = [rec EXCEPT ![d] = r] /\ disk' = [disk EXCEPT ![d] = r]
  /\ Return(t)
  /\ UNCHANGED <<ctr, keyed, volume, deploy, sweep, history, budget>>

Start(t, d) ==
  /\ Begin(t, d, "boot") /\ rec[d].st = "stopped" /\ rec[d].due # "past"
  /\ UNCHANGED <<rec, disk, host, deploy, sweep, history, used, faults, crashes>>

(* The task needs the container and the source of its bind mount.          *)
StartContainer(t, ok) ==
  /\ In(t, "boot")
  /\ LET d == call[t].d
         can == ctr[d] # "none" /\ (d \in keyed => "execkey" \in have[d]) IN
     \/ ok /\ can /\ ctr' = [ctr EXCEPT ![d] = "up"] /\ Move(t, "started") /\ UNCHANGED faults
     \/ ~can /\ Return(t) /\ UNCHANGED <<ctr, faults>>
     \/ can /\ ~ok /\ Broken /\ Return(t) /\ UNCHANGED ctr
  /\ UNCHANGED <<rec, disk, keyed, have, volume, deploy, sweep, history, used, calls, crashes>>

RecordStarted(t) ==
  /\ In(t, "started") /\ deploy = Nothing
  /\ LET d == call[t].d IN
     IF rec[d] = Nothing THEN UNCHANGED <<rec, disk>>
     ELSE LET r == [rec[d] EXCEPT !.st = "running", !.due = "never"] IN
          rec' = [rec EXCEPT ![d] = r] /\ disk' = [disk EXCEPT ![d] = r]
  /\ Return(t)
  /\ UNCHANGED <<host, deploy, sweep, history, budget>>

Delete(t, d) ==
  /\ Begin(t, d, "unpublish")
  /\ rec' = [rec EXCEPT ![d] = Nothing]
  /\ UNCHANGED <<disk, host, deploy, sweep, history, used, faults, crashes>>

(* The record is gone from cm.deployments, so no exposure is withdrawn.    *)
DeleteTeardown(t) ==
  /\ In(t, "unpublish")
  /\ LET d == call[t].d IN have' = [have EXCEPT ![d] = @ \ Withdrawn(d)]
  /\ Move(t, "remove")
  /\ UNCHANGED <<rec, disk, ctr, keyed, volume, deploy, sweep, history, budget>>

DeleteContainer(t, ok) ==
  /\ In(t, "remove")
  /\ LET d == call[t].d IN
     \/ ok /\ ctr' = [ctr EXCEPT ![d] = "none"] /\ keyed' = keyed \ {d} /\ UNCHANGED <<faults, marred>>
     \/ ~ok /\ ctr[d] # "none" /\ Fault(d) /\ UNCHANGED <<ctr, keyed>>
  /\ Move(t, "volume")
  /\ UNCHANGED <<rec, disk, have, volume, deploy, sweep, gone, failed, used, calls, crashes>>

DeleteVolume(t, how) ==
  /\ In(t, "volume")
  /\ LET d == call[t].d IN
     IF call[t].vol THEN Cleanly(d, how) /\ DeleteEncryptedVolume(d, how)
     ELSE how = "ok" /\ UNCHANGED <<have, volume, faults, marred>>
  /\ Move(t, "forget")
  /\ UNCHANGED <<rec, disk, ctr, keyed, deploy, sweep, gone, failed, used, calls, crashes>>

(* cleanupExecKey, UnregisterProbe and deleteDeploymentState.              *)
Forget(t) ==
  /\ In(t, "forget") /\ deploy = Nothing
  /\ LET d == call[t].d IN
     /\ have' = [have EXCEPT ![d] = @ \ {"execkey", "probe"}]
     /\ disk' = [disk EXCEPT ![d] = Nothing]
     /\ gone' = gone \cup {d}
  /\ Return(t)
  /\ UNCHANGED <<rec, ctr, keyed, volume, deploy, sweep, failed, marred, budget>>

(***************************************************************************)
(* The retention of a stopped deployment's volume runs out, and the sweep, *)
(* which lists under the lock and deletes without it.                      *)
(***************************************************************************)
RetentionEnds(d) ==
  /\ rec[d] # Nothing /\ rec[d].due = "later"
  /\ rec' = [rec EXCEPT ![d].due = "past"] /\ disk' = [disk EXCEPT ![d].due = "past"]
  /\ UNCHANGED <<host, deploy, call, sweep, history, budget>>

CleanupExpiredVolumes ==
  /\ sweep = {} /\ deploy = Nothing
  /\ LET due == {d \in Ids : rec[d] # Nothing /\ rec[d].st = "stopped" /\ rec[d].due = "past"} IN
     due # {} /\ sweep' = due
  /\ UNCHANGED <<rec, disk, host, deploy, call, history, budget>>

SweepOne(t, d) ==
  /\ d \in sweep /\ sweep' = sweep \ {d} /\ deploy = Nothing
  /\ call[t] = Nothing
  /\ IF rec[d] = Nothing THEN UNCHANGED <<rec, call>>
     ELSE /\ call' = [call EXCEPT ![t] = [d |-> d, at |-> "unpublish", vol |-> rec[d].vol]]
          /\ rec' = [rec EXCEPT ![d] = Nothing]
  /\ UNCHANGED <<disk, host, deploy, history, budget>>

(* checkDiskUsage stops the container and leaves the record as it is.      *)
EnforceDisk(d) ==
  /\ rec[d] # Nothing /\ rec[d].st = "running" /\ ctr[d] = "up" /\ Broken
  /\ ctr' = [ctr EXCEPT ![d] = "down"]
  /\ UNCHANGED <<rec, disk, keyed, have, volume, deploy, call, sweep, history, used, calls, crashes>>

(* A crash, and the next start: LoadExistingVolumes tracks every volume    *)
(* whose two files are there, reconcileOnStartup corrects the statuses.    *)
Reconciled(d) ==
  IF disk[d] = Nothing THEN Nothing
  ELSE [disk[d] EXCEPT !.st = IF ctr[d] = "up" THEN "running" ELSE "stopped"]

Restart ==
  /\ crashes < MaxCrashes /\ crashes' = crashes + 1
  /\ rec' = [d \in Ids |-> Reconciled(d)] /\ disk' = rec'
  /\ volume' = [d \in Ids |-> IF {"img", "vkey"} \subseteq have[d]
                              THEN IF "mnt" \in have[d] THEN "mounted" ELSE "closed"
                              ELSE Nothing]
  /\ have' = [d \in Ids |-> have[d] \ {"probe", "expo"}]
  /\ deploy' = Nothing /\ call' = [t \in Threads |-> Nothing] /\ sweep' = {}
  /\ marred' = IF deploy # Nothing THEN marred \cup {deploy.d} ELSE marred
  /\ UNCHANGED <<ctr, keyed, gone, used, failed, calls, faults>>

Next ==
  \/ \E d \in Ids, w \in Wishes : Deploy(d, w)
  \/ \E ok \in BOOLEAN :
       \/ CreateEncryptedVolume(ok) \/ OpenVolume(ok) \/ FormatVolume(ok) \/ MountVolume(ok)
       \/ PrepareExecAgent(ok)
       \/ \E how \in {"ok", "busy", "open"} :
            \/ CreateSecureContainer(ok, how)
            \/ \E del \in BOOLEAN : StartNewContainer(ok, del, how)
  \/ StoreDeployment \/ CleanupExpiredVolumes \/ Restart
  \/ \E t \in Threads :
       \/ \E d \in Ids : Stop(t, d) \/ Start(t, d) \/ Delete(t, d) \/ SweepOne(t, d)
       \/ \E ok \in BOOLEAN : StopContainer(t, ok) \/ StartContainer(t, ok) \/ DeleteContainer(t, ok)
       \/ \E how \in {"ok", "busy", "open"} : DeleteVolume(t, how)
       \/ StopTeardown(t) \/ RecordStopped(t) \/ RecordStarted(t) \/ DeleteTeardown(t) \/ Forget(t)
  \/ \E d \in Ids : RetentionEnds(d) \/ EnforceDisk(d)

Spec == Init /\ [][Next]_vars

-----------------------------------------------------------------------------
Touched(d) == (deploy # Nothing /\ deploy.d = d) \/ \E t \in Threads : call[t] # Nothing /\ call[t].d = d

(* After Delete, whatever Stop, Start, sweep or restart it met on its way, *)
(* and after a failed Deploy, the host keeps nothing of the deployment but *)
(* the exposure: no container, no volume, no key, no probe.                *)
NothingLeft ==
  \A d \in (gone \cup failed) \ marred :
    ~Touched(d) => ctr[d] = "none" /\ have[d] \subseteq {"expo"} /\ volume[d] = Nothing

(* A mapping whose backing file is gone, a mount without a mapping, are    *)
(* never left by commands that work.                                       *)
VolumeWhole ==
  \A d \in Ids \ marred :
    /\ "mnt" \in have[d] => "map" \in have[d]
    /\ "map" \in have[d] => {"img", "vkey"} \subseteq have[d]
    /\ volume[d] = "mounted" <=> "mnt" \in have[d] /\ volume[d] # Nothing

(* A stopped deployment's exec key is not on disk: Stop removes it and no  *)
(* later Start brings it back.  A daemon that was killed has not stopped.  *)
KeysDestroyed ==
  \A d \in Ids : rec[d] # Nothing /\ rec[d].st = "stopped" /\ crashes = 0 /\ ~Touched(d)
                   => "execkey" \notin have[d]

(* A container that runs for a deployment on record has its volume: no     *)
(* sweep, second Delete or Delete cut short by a crash takes it away first.*)
VolumeKept ==
  \A d \in Ids \ marred :
    rec[d] # Nothing /\ rec[d].vol /\ ctr[d] = "up" => {"img", "vkey"} \subseteq have[d]

HostSound == NothingLeft /\ VolumeWhole /\ KeysDestroyed /\ VolumeKept

(* "removeServiceExposure removes all exposed service entries for a        *)
(* deployment from gossip": a deployment that is deleted is not published. *)
ExposureWithdrawn == \A d \in gone : "expo" \notin have[d]

(* "volumeRetentionDuration is how long encrypted volumes are retained     *)
(* after stop": a stopped deployment has a date at which its volume goes.  *)
RetentionBounded ==
  \A d \in Ids : rec[d] # Nothing /\ rec[d].st = "stopped" => rec[d].due # "never"
=============================================================================
