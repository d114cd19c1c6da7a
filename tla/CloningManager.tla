--------------------------- MODULE CloningManager ---------------------------
(* Cloning a container to another node (internal/cloning): RequestClone      *)
(* starts a goroutine per clone, which waits for a slot, picks a target,     *)
(* asks the target to deploy, waits for its answer and verifies; CancelClone *)
(* and Stop act from outside. The target's side is the deploy handler of the *)
(* same package. A clone is known by its ID; its record is shared by the     *)
(* active map, the history and the goroutine, as the pointer is in the code. *)
EXTENDS Integers, Sequences, FiniteSets

CONSTANTS Clones, MaxConcurrentClones, Nothing

VARIABLES step,            \* where each clone's goroutine stands
          status,          \* clone -> CloneStatus, or Nothing before the request
          activeClones, cloneHistory, lineage,
          slots,           \* the clones that hold a place in cloneSemaphore
          stopped,         \* stopCh is closed
          gone,            \* clones whose request context is done
          pendingDeploys, answer,
          target,          \* what the target has of a clone
          acks,            \* acknowledgements on their way
          cancelled        \* clones a CancelClone call has ended

cloneVars == <<step, status, activeClones, cloneHistory, lineage, slots, stopped, gone,
               pendingDeploys, answer, target, acks, cancelled>>

Init ==
  /\ step = [c \in Clones |-> "idle"]
  /\ status = [c \in Clones |-> Nothing]
  /\ activeClones = {} /\ cloneHistory = <<>> /\ lineage = {}
  /\ slots = {} /\ stopped = FALSE /\ gone = {}
  /\ pendingDeploys = {} /\ answer = [c \in Clones |-> Nothing]
  /\ target = [c \in Clones |-> "none"] /\ acks = {}
  /\ cancelled = {}

-----------------------------------------------------------------------------
(* failClone and completeClone, with the deferred release of the slot.      *)
Finish(c, s) ==
  /\ status' = [status EXCEPT ![c] = s]
  /\ activeClones' = activeClones \ {c}
  /\ cloneHistory' = Append(cloneHistory, c)
  /\ lineage' = IF s = "complete" THEN lineage \cup {c} ELSE lineage
  /\ slots' = slots \ {c}
  /\ step' = [step EXCEPT ![c] = "done"]

MoveTo(c, where, s) ==
  /\ step' = [step EXCEPT ![c] = where]
  /\ status' = [status EXCEPT ![c] = s]
  /\ UNCHANGED <<activeClones, cloneHistory, lineage>>

(* RequestClone never refuses: a stopped manager fails the clone later.     *)
RequestClone(c) ==
  /\ step[c] = "idle"
  /\ step' = [step EXCEPT ![c] = "waiting"]
  /\ status' = [status EXCEPT ![c] = "pending"]
  /\ activeClones' = activeClones \cup {c}
  /\ UNCHANGED <<cloneHistory, lineage, slots, stopped, gone, pendingDeploys, answer, target,
                 acks, cancelled>>

(* executeClone: the select that waits for a slot.                          *)
AcquireSlot(c) ==
  /\ step[c] = "waiting" /\ Cardinality(slots) < MaxConcurrentClones
  /\ slots' = slots \cup {c}
  /\ MoveTo(c, "preparing", "preparing")
  /\ UNCHANGED <<stopped, gone, pendingDeploys, answer, target, acks, cancelled>>

GiveUpWaiting(c) ==
  /\ step[c] = "waiting" /\ (stopped \/ c \in gone)
  /\ Finish(c, "failed")
  /\ UNCHANGED <<stopped, gone, pendingDeploys, answer, target, acks, cancelled>>

(* executeClone: a missing snapshot is not fatal, a missing target is.      *)
SelectTargetNode(c, found) ==
  /\ step[c] = "preparing"
  /\ IF found THEN MoveTo(c, "transferring", "transferring") /\ UNCHANGED slots
     ELSE Finish(c, "failed")
  /\ UNCHANGED <<stopped, gone, pendingDeploys, answer, target, acks, cancelled>>

(* DeployClone up to its wait: a channel for the answer, then the request.  *)
DeployClone(c, sent) ==
  /\ step[c] = "transferring"
  /\ IF sent
     THEN /\ MoveTo(c, "deploying", "deploying")
          /\ pendingDeploys' = pendingDeploys \cup {c}
          /\ target' = [target EXCEPT ![c] = "asked"]
          /\ UNCHANGED slots
     ELSE Finish(c, "failed") /\ UNCHANGED <<pendingDeploys, target>>
  /\ UNCHANGED <<stopped, gone, answer, acks, cancelled>>

(* DeployClone's wait: the answer, or the end of the clone's 300 seconds or *)
(* of the request's context. The channel is withdrawn on the way out.       *)
ReceiveAnswer(c) ==
  /\ step[c] = "deploying" /\ answer[c] # Nothing
  /\ IF answer[c] THEN MoveTo(c, "verifying", "verifying") /\ UNCHANGED slots
     ELSE Finish(c, "failed")
  /\ pendingDeploys' = pendingDeploys \ {c}
  /\ answer' = [answer EXCEPT ![c] = Nothing]
  /\ UNCHANGED <<stopped, gone, target, acks, cancelled>>

(* Mutant: the wait for the ack has no end. *)
WaitForever(c) == FALSE

DeployTimeout(c) ==
  /\ step[c] = "deploying"
  /\ Finish(c, "failed")
  /\ pendingDeploys' = pendingDeploys \ {c}
  /\ answer' = [answer EXCEPT ![c] = Nothing]
  /\ UNCHANGED <<stopped, gone, target, acks, cancelled>>

(* VerifyDeployment sends a health request and waits for no answer.         *)
VerifyDeployment(c, sent) ==
  /\ step[c] = "verifying"
  /\ Finish(c, IF sent THEN "complete" ELSE "failed")
  /\ UNCHANGED <<stopped, gone, pendingDeploys, answer, target, acks, cancelled>>

-----------------------------------------------------------------------------
(* handleDeployRequest on the target: create and start, then answer.        *)
HandleDeployRequest(c, how, answered) ==
  /\ target[c] = "asked"
  /\ target' = [target EXCEPT ![c] = how]
  /\ acks' = IF answered THEN acks \cup {[clone |-> c, ok |-> how = "running"]} ELSE acks
  /\ UNCHANGED <<step, status, activeClones, cloneHistory, lineage, slots, stopped, gone,
                 pendingDeploys, answer, cancelled>>

(* handleDeployAck: to the clone that still waits, or nowhere.              *)
HandleDeployAck(a) ==
  /\ a \in acks
  /\ acks' = acks \ {a}
  /\ answer' = IF a.clone \in pendingDeploys /\ answer[a.clone] = Nothing
               THEN [answer EXCEPT ![a.clone] = a.ok] ELSE answer
  /\ UNCHANGED <<step, status, activeClones, cloneHistory, lineage, slots, stopped, gone,
                 pendingDeploys, target, cancelled>>

-----------------------------------------------------------------------------
(* CancelClone marks the record and moves it to the history. The goroutine  *)
(* is not told: it goes on, and finishes the same record once more.         *)
CancelClone(c) ==
  /\ c \in activeClones
  /\ status' = [status EXCEPT ![c] = "failed"]
  /\ activeClones' = activeClones \ {c}
  /\ cloneHistory' = Append(cloneHistory, c)
  /\ cancelled' = cancelled \cup {c}
  /\ UNCHANGED <<step, lineage, slots, stopped, gone, pendingDeploys, answer, target, acks>>

(* Stop closes stopCh, which only the clones still waiting for a slot see.  *)
Stop ==
  /\ ~stopped /\ stopped' = TRUE
  /\ UNCHANGED <<step, status, activeClones, cloneHistory, lineage, slots, gone,
                 pendingDeploys, answer, target, acks, cancelled>>

(* The context of an API request ends with its connection.                  *)
RequestEnds(c) ==
  /\ step[c] \notin {"idle", "done"} /\ c \notin gone
  /\ gone' = gone \cup {c}
  /\ UNCHANGED <<step, status, activeClones, cloneHistory, lineage, slots, stopped,
                 pendingDeploys, answer, target, acks, cancelled>>

Goroutine(c) ==
  \/ AcquireSlot(c) \/ GiveUpWaiting(c) \/ ReceiveAnswer(c) \/ DeployTimeout(c)
  \/ \E ok \in BOOLEAN : SelectTargetNode(c, ok) \/ DeployClone(c, ok) \/ VerifyDeployment(c, ok)

Next ==
  \/ \E c \in Clones :
       \/ RequestClone(c) \/ Goroutine(c) \/ CancelClone(c) \/ RequestEnds(c)
       \/ \E how \in {"running", "created", "refused"}, answered \in BOOLEAN :
            HandleDeployRequest(c, how, answered)
  \/ \E a \in acks : HandleDeployAck(a)
  \/ Stop

Fairness == \A c \in Clones : WF_cloneVars(Goroutine(c))

Spec == Init /\ [][Next]_cloneVars /\ Fairness

-----------------------------------------------------------------------------
Entries(c) == Cardinality({i \in DOMAIN cloneHistory : cloneHistory[i] = c})

(* GetClone finds every requested clone, in one place; the history lists it *)
(* once, and once more only after a cancellation. A clone reported complete *)
(* runs on its target. Slots are held by the goroutines at work only.       *)
ClonesAccounted ==
  /\ \A c \in Clones :
       /\ status[c] # Nothing => (c \in activeClones) # (Entries(c) > 0)
       /\ Entries(c) = (IF step[c] = "done" THEN 1 ELSE 0) + (IF c \in cancelled THEN 1 ELSE 0)
       /\ status[c] = "complete" => target[c] = "running" /\ c \in lineage
       /\ c \in slots <=> step[c] \notin {"idle", "waiting", "done"}
       /\ c \in pendingDeploys <=> step[c] = "deploying"
  /\ Cardinality(slots) <= MaxConcurrentClones

RequestedEnded ==
  \A c \in Clones : step[c] # "idle" => step[c] = "done" /\ c \notin activeClones \cup slots

(* Every requested clone comes to an end and gives its slot back, however   *)
(* the target behaves and whatever is cancelled meanwhile.                  *)
ClonesEnd == <>[]RequestedEnded
=============================================================================
