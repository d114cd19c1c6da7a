------------------------- MODULE ContainerRuntime -------------------------
(***************************************************************************)
(* The containerd client of a node (internal/runtime): containers created, *)
(* started, stopped and deleted by concurrent callers, their log files,    *)
(* their security profile kept in a sidecar file, commands executed in     *)
(* them, and what a restarted daemon finds.                                *)
(*                                                                         *)
(* real is containerd's own view, which survives the daemon; obj is the    *)
(* ManagedContainer the daemon holds and tracked the keys of cc.containers. *)
(* A call looks the container up under cc.mu, releases it, and works under *)
(* the container's own mutex (mu), so a call may hold an object that a     *)
(* deletion has already taken out of the map.                              *)
(***************************************************************************)
EXTENDS Naturals, Sequences, FiniteSets

CONSTANTS
  Ids, Callers,
  Profiles,    \* security profiles
  Sealed,      \* the profiles that disable exec
  Default,     \* DeploymentSecurityProfile
  Nothing,
  MaxCalls, MaxFaults, MaxLines,
  MaxReads     \* 0 leaves the log readers out

VARIABLES
  up,       \* the daemon is "down", "starting" or "up"
  real,     \* containerd's containers: task "none", "made", "up" or "dead", and profile
  obj,      \* ManagedContainer objects of this run of the daemon
  tracked,  \* keys of cc.containers
  mu,       \* holders of the containers' mutexes
  call,     \* the call each caller is in
  log,      \* log registered with the manager, and directory on disk
  sidecar,  \* profiles on disk
  sess,     \* commands executing in containers
  lines,    \* lines written to the stdout log of each container
  rd,       \* a log reader
  made,     \* ids already given to a container
  unsaved,  \* history: containers whose profile could not be written
  refused,  \* history: containers containerd refused to delete
  unread,   \* history: containers whose Info failed when the daemon started
  late,     \* history: starts that ran after the deletion of their container
  calls, faults, reads

vars == <<up, real, obj, tracked, mu, call, log, sidecar, sess, lines, rd, made,
          unsaved, refused, unread, late, calls, faults, reads>>
containerd == <<up, made, unsaved, refused, unread, late>>
logs == <<lines, rd, reads>>

Call(k, c, at, v) == [k |-> k, c |-> c, at |-> at, v |-> v]
At(x, k, at) == call[x] # Nothing /\ call[x].k = k /\ call[x].at = at
Goto(x, at) == call' = [call EXCEPT ![x].at = at]
Return(x) == call' = [call EXCEPT ![x] = Nothing]
Begin(x, k, c, at, v) ==
  /\ up = "up" /\ call[x] = Nothing /\ calls < MaxCalls
  /\ calls' = calls + 1
  /\ call' = [call EXCEPT ![x] = Call(k, c, at, v)]
Fault(b) == IF b THEN faults < MaxFaults /\ faults' = faults + 1 ELSE UNCHANGED faults
Unlock(c) == mu' = [mu EXCEPT ![c] = Nothing]
Running(c) == real[c] # Nothing /\ real[c].task = "up"
Task(c, t) == real' = [real EXCEPT ![c].task = t]

(* NewContainerdClient on a host with no containers.                        *)
Init ==
  /\ up = "up"
  /\ real = [c \in Ids |-> Nothing] /\ obj = [c \in Ids |-> Nothing]
  /\ tracked = {} /\ made = {} /\ sess = {}
  /\ mu = [c \in Ids |-> Nothing]
  /\ call = [x \in Callers |-> Nothing]
  /\ log = [c \in Ids |-> [open |-> FALSE, dir |-> FALSE]]
  /\ sidecar = [c \in Ids |-> Nothing]
  /\ lines = [c \in Ids |-> 0] /\ rd = Nothing
  /\ unsaved = {} /\ refused = {} /\ unread = {} /\ late = {}
  /\ calls = 0 /\ faults = 0 /\ reads = 0

-----------------------------------------------------------------------------
(* CreateSecureContainer: the image is fetched, verified, decrypted and     *)
(* scanned first; a refusal ends the call with nothing made. Ids are fresh. *)
CreateSecureContainer(x, c, p) ==
  /\ c \notin made
  /\ Begin(x, "create", c, "new", p)
  /\ made' = made \cup {c}
  /\ UNCHANGED <<up, real, obj, tracked, mu, log, sidecar, sess, logs, unsaved, refused, unread, late, faults>>

(* The image gates and client.NewContainer.                                 *)
NewContainer(x, ok) ==
  LET c == call[x].c IN
  /\ At(x, "create", "new")
  /\ Fault(~ok)
  /\ IF ok THEN /\ real' = [real EXCEPT ![c] = [task |-> "none", prof |-> call[x].v]]
                /\ Goto(x, "track")
           ELSE UNCHANGED real /\ Return(x)
  /\ UNCHANGED <<obj, tracked, mu, log, sidecar, sess, logs, containerd, calls>>

TrackContainer(x) ==
  LET c == call[x].c IN
  /\ At(x, "create", "track")
  /\ obj' = [obj EXCEPT ![c] = [task |-> FALSE, st |-> "created", prof |-> call[x].v]]
  /\ tracked' = tracked \cup {c}
  /\ Goto(x, "profile")
  /\ UNCHANGED <<real, mu, log, sidecar, sess, logs, containerd, calls, faults>>

(* ProfileStore.Write: temp file and rename; a failure is only logged.      *)
WriteProfile(x, ok) ==
  LET c == call[x].c IN
  /\ At(x, "create", "profile")
  /\ Fault(~ok)
  /\ IF ok THEN sidecar' = [sidecar EXCEPT ![c] = call[x].v] /\ UNCHANGED unsaved
           ELSE unsaved' = unsaved \cup {c} /\ UNCHANGED sidecar
  /\ Return(x)
  /\ UNCHANGED <<up, real, obj, tracked, mu, log, sess, logs, made, refused, unread, late, calls>>

-----------------------------------------------------------------------------
(* StartContainer: the lookup.                                              *)
StartContainer(x, c) ==
  /\ c \in tracked
  /\ Begin(x, "start", c, "lock", Nothing)
  /\ UNCHANGED <<real, obj, tracked, mu, log, sidecar, sess, logs, containerd, faults>>

(* The container's mutex, and CreateLog.                                    *)
CreateLog(x) ==
  LET c == call[x].c IN
  /\ At(x, "start", "lock")
  /\ mu[c] = Nothing
  /\ mu' = [mu EXCEPT ![c] = x]
  /\ log' = [log EXCEPT ![c] = [open |-> TRUE, dir |-> TRUE]]
  /\ late' = IF c \in tracked THEN late ELSE late \cup {c}
  /\ Goto(x, "task")
  /\ UNCHANGED <<up, real, obj, tracked, sidecar, sess, logs, made, unsaved, refused, unread, calls, faults>>

CloseLog(c) == log' = [log EXCEPT ![c].open = FALSE]

(* NewTask: containerd refuses a second task and an absent container.       *)
NewTask(x, ok) ==
  LET c == call[x].c
      may == real[c] # Nothing /\ real[c].task = "none"
  IN
  /\ At(x, "start", "task")
  /\ Fault(may /\ ~ok)
  /\ ok => may
  /\ IF ok THEN Task(c, "made") /\ Goto(x, "run") /\ UNCHANGED <<log, mu>>
           ELSE CloseLog(c) /\ Unlock(c) /\ Return(x) /\ UNCHANGED real
  /\ UNCHANGED <<obj, tracked, sidecar, sess, logs, containerd, calls>>

(* task.Start; when it fails the task is deleted and the log closed.        *)
StartTask(x, ok) ==
  LET c == call[x].c IN
  /\ At(x, "start", "run")
  /\ Fault(~ok)
  /\ IF ok THEN /\ Task(c, "up")
                /\ obj' = [obj EXCEPT ![c].task = TRUE, ![c].st = "running"]
                /\ UNCHANGED log
           ELSE /\ Task(c, "none")
                /\ CloseLog(c)
                /\ UNCHANGED obj
  /\ Unlock(c) /\ Return(x)
  /\ UNCHANGED <<tracked, sidecar, sess, logs, containerd, calls>>

-----------------------------------------------------------------------------
StopContainer(x, c) ==
  /\ c \in tracked
  /\ Begin(x, "stop", c, "lock", Nothing)
  /\ UNCHANGED <<real, obj, tracked, mu, log, sidecar, sess, logs, containerd, faults>>

(* The mutex, the Task check and SIGTERM, which fails on a process that has *)
(* already exited.                                                          *)
SignalTask(x, ok) ==
  LET c == call[x].c IN
  /\ At(x, "stop", "lock")
  /\ mu[c] = Nothing
  /\ Fault(obj[c].task /\ Running(c) /\ ~ok)
  /\ ok => obj[c].task /\ Running(c)
  /\ IF ok THEN mu' = [mu EXCEPT ![c] = x] /\ Goto(x, "wait")
           ELSE Return(x) /\ UNCHANGED mu
  /\ UNCHANGED <<real, obj, tracked, log, sidecar, sess, logs, containerd, calls>>

(* A stop that forgets the process before it is gone.                       *)
ForgetTask(x, dead) ==
  LET c == call[x].c IN
  /\ At(x, "stop", "wait")
  /\ obj' = [obj EXCEPT ![c].task = FALSE, ![c].st = "stopped"]
  /\ CloseLog(c) /\ Unlock(c) /\ Return(x)
  /\ UNCHANGED <<real, tracked, sidecar, sess, logs, containerd, calls, faults>>

(* The wait for the exit, SIGKILL after the timeout, five seconds more: the *)
(* call goes on once the process is dead and gives up on one that is not.   *)
AwaitExit(x, dead) ==
  LET c == call[x].c IN
  /\ At(x, "stop", "wait")
  /\ Fault(~dead)
  /\ IF dead THEN Task(c, "dead") /\ Goto(x, "clear") /\ UNCHANGED mu
             ELSE Unlock(c) /\ Return(x) /\ UNCHANGED real
  /\ UNCHANGED <<obj, tracked, log, sidecar, sess, logs, containerd, calls>>

(* Task.Delete, CloseLog and the new status.                                *)
ClearTask(x, ok) ==
  LET c == call[x].c IN
  /\ At(x, "stop", "clear")
  /\ Fault(~ok)
  /\ IF ok THEN /\ Task(c, "none")
                /\ obj' = [obj EXCEPT ![c].task = FALSE, ![c].st = "stopped"]
                /\ CloseLog(c)
           ELSE UNCHANGED <<real, obj, log>>
  /\ Unlock(c) /\ Return(x)
  /\ UNCHANGED <<tracked, sidecar, sess, logs, containerd, calls>>

-----------------------------------------------------------------------------
(* DeleteContainer takes the container out of the map before anything else. *)
DeleteContainer(x, c) ==
  /\ c \in tracked
  /\ Begin(x, "delete", c, "lock", Nothing)
  /\ tracked' = tracked \ {c}
  /\ UNCHANGED <<real, obj, mu, log, sidecar, sess, logs, containerd, faults>>

(* The mutex; SIGKILL and Task.Delete, whose failures are only logged.      *)
KillTask(x, ok) ==
  LET c == call[x].c IN
  /\ At(x, "delete", "lock")
  /\ mu[c] = Nothing
  /\ Fault(obj[c].task /\ ~ok)
  /\ mu' = [mu EXCEPT ![c] = x]
  /\ IF obj[c].task /\ ok THEN Task(c, "none") ELSE UNCHANGED real
  /\ Goto(x, "logs")
  /\ UNCHANGED <<obj, tracked, log, sidecar, sess, logs, containerd, calls>>

DeleteLog(x) ==
  LET c == call[x].c IN
  /\ At(x, "delete", "logs")
  /\ log' = [log EXCEPT ![c] = [open |-> FALSE, dir |-> FALSE]]
  /\ Goto(x, "remove")
  /\ UNCHANGED <<real, obj, tracked, mu, sidecar, sess, logs, containerd, calls, faults>>

(* Container.Delete, which containerd refuses while a task is left, and     *)
(* then ProfileStore.Delete.                                                *)
RemoveContainer(x, ok) ==
  LET c == call[x].c IN
  /\ At(x, "delete", "remove")
  /\ Fault(real[c].task = "none" /\ ~ok)
  /\ ok => real[c].task = "none"
  /\ IF ok THEN /\ real' = [real EXCEPT ![c] = Nothing]
                /\ sidecar' = [sidecar EXCEPT ![c] = Nothing]
                /\ UNCHANGED refused
           ELSE refused' = refused \cup {c} /\ UNCHANGED <<real, sidecar>>
  /\ Unlock(c) /\ Return(x)
  /\ UNCHANGED <<up, obj, tracked, log, sess, logs, made, unsaved, unread, late, calls>>

-----------------------------------------------------------------------------
ValidateExecCommand(p) == p \notin Sealed

(* ExecInContainer, ExecInteractive, ExecRaw: task and profile are read     *)
(* under the container's read lock, checked, and used after it.             *)
Exec(x, c) ==
  /\ c \in tracked
  /\ mu[c] = Nothing
  /\ ValidateExecCommand(obj[c].prof)
  /\ obj[c].task
  /\ Begin(x, "exec", c, "start", Nothing)
  /\ UNCHANGED <<real, obj, tracked, mu, log, sidecar, sess, logs, containerd, faults>>

ExecStart(x, ok) ==
  LET c == call[x].c IN
  /\ At(x, "exec", "start")
  /\ ok = Running(c)
  /\ sess' = IF ok THEN sess \cup {c} ELSE sess
  /\ Return(x)
  /\ UNCHANGED <<real, obj, tracked, mu, log, sidecar, logs, containerd, calls, faults>>

(* The process of a session ends, and the session closes.                   *)
SessionEnds(c) ==
  /\ c \in sess
  /\ sess' = sess \ {c}
  /\ UNCHANGED <<real, obj, tracked, mu, call, log, sidecar, logs, containerd, calls, faults>>

(* A container's process ends by itself.                                    *)
TaskExits(c) ==
  /\ Running(c)
  /\ faults < MaxFaults /\ faults' = faults + 1
  /\ Task(c, "dead")
  /\ UNCHANGED <<obj, tracked, mu, call, log, sidecar, sess, logs, containerd, calls>>

-----------------------------------------------------------------------------
Crash ==
  /\ up # "down" /\ faults < MaxFaults /\ faults' = faults + 1
  /\ up' = "down"
  /\ obj' = [c \in Ids |-> Nothing] /\ tracked' = {} /\ sess' = {}
  /\ mu' = [c \in Ids |-> Nothing]
  /\ call' = [x \in Callers |-> Nothing]
  /\ log' = [c \in Ids |-> [log[c] EXCEPT !.open = FALSE]]
  /\ unsaved' = unsaved \cup {c \in Ids : \E x \in Callers : call[x] # Nothing /\ call[x].c = c /\ call[x].k = "create"}
  /\ rd' = Nothing
  /\ UNCHANGED <<real, sidecar, lines, made, refused, unread, late, calls, reads>>

(* ProfileStore.Read, or the default where nothing is stored.               *)
StoredProfile(c) == IF sidecar[c] # Nothing THEN sidecar[c] ELSE Default

(* LoadExistingContainers: a container whose Info fails is passed over.     *)
LoadExistingContainers(skip) ==
  LET found == {c \in Ids : real[c] # Nothing} \ skip IN
  /\ up = "down"
  /\ skip \subseteq {c \in Ids : real[c] # Nothing}
  /\ Fault(skip # {})
  /\ up' = "starting"
  /\ tracked' = found
  /\ obj' = [c \in Ids |->
               IF c \notin found THEN Nothing
               ELSE [task |-> real[c].task # "none",
                     st |-> IF real[c].task = "up" THEN "running" ELSE "stopped",
                     prof |-> StoredProfile(c)]]
  /\ unread' = unread \cup skip
  /\ UNCHANGED <<real, mu, call, log, sidecar, sess, logs, made, unsaved, refused, late, calls>>

(* CleanupOrphaned, run when the daemon starts, before any call: what       *)
(* containerd holds and the map does not is killed and deleted. The sidecar *)
(* and the logs stay.                                                       *)
CleanupOrphaned ==
  /\ up = "starting"
  /\ up' = "up"
  /\ real' = [c \in Ids |-> IF c \in tracked THEN real[c] ELSE Nothing]
  /\ UNCHANGED <<obj, tracked, mu, call, log, sidecar, sess, logs, made, unsaved, refused, unread, late, calls, faults>>

-----------------------------------------------------------------------------
(* WriteStdout, through the writer the task was started with.               *)
WriteLine(c) ==
  /\ up = "up" /\ Running(c) /\ log[c].open
  /\ MaxReads > 0 /\ lines[c] < MaxLines
  /\ lines' = [lines EXCEPT ![c] = @ + 1]
  /\ UNCHANGED <<real, obj, tracked, mu, call, log, sidecar, sess, rd, containerd, calls, faults, reads>>

(* GetContainerLogs and ReadLogs: the reader's goroutine starts.            *)
ReadLogs(c, follow) ==
  /\ up = "up" /\ rd = Nothing /\ reads < MaxReads
  /\ c \in tracked /\ log[c].dir
  /\ rd' = [c |-> c, at |-> "existing", follow |-> follow, pos |-> 0, got |-> <<>>]
  /\ reads' = reads + 1
  /\ UNCHANGED <<real, obj, tracked, mu, call, log, sidecar, sess, lines, containerd, calls, faults>>

(* readExistingLogs: the whole file, or its last lines.                     *)
ReadExistingLogs(tail) ==
  LET n == lines[rd.c]
      from == IF tail > 0 /\ tail < n THEN n - tail ELSE 0
  IN
  /\ rd # Nothing /\ rd.at = "existing"
  /\ rd' = [rd EXCEPT !.got = [i \in 1 .. (n - from) |-> from + i],
                      !.at = IF rd.follow THEN "seek" ELSE "done"]
  /\ UNCHANGED <<real, obj, tracked, mu, call, log, sidecar, sess, lines, containerd, calls, faults, reads>>

(* A follower that starts at the beginning of the file.                     *)
FollowFromStart ==
  /\ rd # Nothing /\ rd.at = "seek"
  /\ rd' = [rd EXCEPT !.pos = 0, !.at = "follow"]
  /\ UNCHANGED <<real, obj, tracked, mu, call, log, sidecar, sess, lines, containerd, calls, faults, reads>>

(* followLogs opens the file again and seeks to its end.                    *)
FollowLogs ==
  /\ rd # Nothing /\ rd.at = "seek"
  /\ rd' = [rd EXCEPT !.pos = lines[rd.c], !.at = "follow"]
  /\ UNCHANGED <<real, obj, tracked, mu, call, log, sidecar, sess, lines, containerd, calls, faults, reads>>

(* A write event, or a tick of the polling follower: everything new.        *)
ReadNew ==
  LET n == lines[rd.c] IN
  /\ rd # Nothing /\ rd.at = "follow" /\ rd.pos < n
  /\ rd' = [rd EXCEPT !.got = @ \o [i \in 1 .. (n - rd.pos) |-> rd.pos + i], !.pos = n]
  /\ UNCHANGED <<real, obj, tracked, mu, call, log, sidecar, sess, lines, containerd, calls, faults, reads>>

(* The context of the follower is cancelled, or the reader is at the end.   *)
EndRead ==
  /\ rd # Nothing /\ rd.at \in {"follow", "done"}
  /\ rd' = Nothing
  /\ UNCHANGED <<real, obj, tracked, mu, call, log, sidecar, sess, lines, containerd, calls, faults, reads>>

Next ==
  \/ \E x \in Callers, c \in Ids :
       \/ \E p \in Profiles : CreateSecureContainer(x, c, p)
       \/ StartContainer(x, c) \/ StopContainer(x, c) \/ DeleteContainer(x, c) \/ Exec(x, c)
  \/ \E x \in Callers : TrackContainer(x) \/ CreateLog(x) \/ DeleteLog(x)
  \/ \E x \in Callers, ok \in BOOLEAN :
       \/ NewContainer(x, ok) \/ WriteProfile(x, ok) \/ NewTask(x, ok) \/ StartTask(x, ok)
       \/ SignalTask(x, ok) \/ AwaitExit(x, ok) \/ ClearTask(x, ok)
       \/ KillTask(x, ok) \/ RemoveContainer(x, ok) \/ ExecStart(x, ok)
  \/ \E c \in Ids : SessionEnds(c) \/ TaskExits(c) \/ WriteLine(c)
  \/ Crash \/ CleanupOrphaned
  \/ \E skip \in SUBSET Ids : LoadExistingContainers(skip)
  \/ \E c \in Ids, follow \in BOOLEAN : ReadLogs(c, follow)
  \/ \E tail \in 0 .. 1 : ReadExistingLogs(tail)
  \/ FollowLogs \/ ReadNew \/ EndRead

Spec == Init /\ [][Next]_vars

-----------------------------------------------------------------------------
Busy(c) == \E x \in Callers : call[x] # Nothing /\ call[x].c = c

(* No process runs behind the daemon's back: a container the daemon tracks  *)
(* as having no task has no running process, and one it does not track is   *)
(* gone, unless containerd refused its deletion.                           *)
NoStrayProcess ==
  \A c \in Ids : up = "up" /\ ~Busy(c) /\ real[c] # Nothing =>
    IF c \in tracked THEN obj[c].task \/ real[c].task # "up"
                     ELSE c \in refused

(* A container keeps the profile it was created with over restarts and      *)
(* deletions that containerd refuses, and a command runs only where that    *)
(* profile lets it, unless the profile never reached the disk.              *)
ProfilesKept ==
  \A c \in Ids : real[c] # Nothing /\ c \notin unsaved =>
    /\ c \in tracked => obj[c].prof = real[c].prof
    /\ c \in sess => ValidateExecCommand(real[c].prof)

(* A deleted container leaves no log files, unless a start that had found   *)
(* it before the deletion ran after it.                                     *)
LogsGone ==
  \A c \in Ids : up = "up" /\ ~Busy(c) /\ c \in made /\ real[c] = Nothing /\ c \notin tracked
                 /\ c \notin late \cup refused \cup unread => ~log[c].dir

(* A log reader delivers lines in the order they were written and no line   *)
(* twice, although it opens the file a second time to follow it.            *)
LinesInOrder ==
  rd # Nothing => \A i, j \in DOMAIN rd.got : i < j => rd.got[i] < rd.got[j]

(* The four together.                                                       *)
RuntimeSound == NoStrayProcess /\ ProfilesKept /\ LogsGone /\ LinesInOrder
=============================================================================
