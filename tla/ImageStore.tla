----------------------------- MODULE ImageStore -----------------------------
(***************************************************************************)
(* The images of a provider node: what CreateSecureContainer does before   *)
(* containerd creates the container (get or pull, signature gate,          *)
(* decryption, scan gate) and after it (encryption at rest, the in-use     *)
(* mark), and the garbage collector that runs beside the deployments.      *)
(*                                                                         *)
(* The content store keeps one record per stored name.  A deployment names *)
(* its image by a reference, and NormalizeImageRef gives the name it is    *)
(* stored under; the marks of the collector and the cache of the scanner   *)
(* are keyed by the reference as it was written.                           *)
(***************************************************************************)
EXTENDS Naturals, FiniteSets

CONSTANTS
  Deployers,     \* the concurrent CreateSecureContainer calls
  Refs,          \* image references as deployments write them
  Stored,        \* the name each reference is stored under (NormalizeImageRef)
  Digests,       \* the contents a registry may serve
  Flawed,        \* those with a finding at or above the policy's threshold
  Signed,        \* those a trusted publisher signed
  Encrypting,    \* is image encryption enabled?
  Scanning,      \* is the scanner wired in?
  MaxSize,       \* the collector's size cap in images; 0 is no cap
  MaxAge,        \* age of a mark at which it expires
  Nothing,
  MaxDeploys, MaxFaults, MaxTicks, MaxPushes, MaxSweeps  \* bounds

VARIABLES
  registry,      \* stored name -> the content its tag points at
  image,         \* stored name -> [dig, enc] or Nothing; enc counts envelopes
  decrypted,     \* stored name -> the content of its ".moltdec" record
  mark,          \* reference or stored name -> age of its mark, or Nothing
  cache,         \* reference -> the scanner's cache entry or Nothing
  call,          \* deployer -> its CreateSecureContainer call or Nothing
  running,       \* the containers made: [x, ref, dig, req]
  gc,            \* the collector's cycle or Nothing
  moved,         \* stored names whose tag moved since the node started
  scans,         \* reference -> inner scans under way
  denied,        \* was a validly signed image refused for its signature?
  deploys, faults, ticks, pushes, sweeps

vars == <<registry, image, decrypted, mark, cache, call, running, gc, moved,
          scans, denied, deploys, faults, ticks, pushes, sweeps>>
store == <<registry, image, decrypted, moved>>
budget == <<deploys, faults, ticks, pushes, sweeps>>

Names == {Stored[r] : r \in Refs}
Keys  == Refs \cup Names

Init ==
  /\ registry \in [Names -> Digests]
  /\ image = [n \in Names |-> Nothing]
  /\ decrypted = [n \in Names |-> Nothing]
  /\ mark = [k \in Keys |-> Nothing]
  /\ cache = [r \in Refs |-> Nothing]
  /\ call = [x \in Deployers |-> Nothing]
  /\ running = {} /\ gc = Nothing /\ moved = {} /\ denied = FALSE
  /\ scans = [r \in Refs |-> 0]
  /\ deploys = 0 /\ faults = 0 /\ ticks = 0 /\ pushes = 0 /\ sweeps = 0

At(x, at) == call[x] # Nothing /\ call[x].at = at
NameOf(x) == Stored[call[x].ref]
Goto(x, at) == call' = [call EXCEPT ![x].at = at]
Leave(x) == call' = [call EXCEPT ![x] = Nothing]
Fault == faults < MaxFaults /\ faults' = faults + 1
NoFault == UNCHANGED faults

(***************************************************************************)
(* The signature gate.  `sig` says whether the request carries the         *)
(* publisher's signature of what the registry holds, `req` whether the     *)
(* trust policy requires one.  A digest is the digest of the record's      *)
(* target: the encrypted form of an image has another one.                 *)
(***************************************************************************)
Verify(c, i) == IF c.sig = Nothing THEN ~c.req ELSE i.enc = 0 /\ c.sig = i.dig /\ c.sig \in Signed
Policed(c) == c.req \/ c.sig # Nothing

CreateSecureContainer(x, r, sig, req) ==
  /\ call[x] = Nothing /\ deploys < MaxDeploys
  /\ deploys' = deploys + 1
  /\ call' = [call EXCEPT ![x] = [at |-> "get", ref |-> r, sig |-> sig, req |-> req,
                                  img |-> Nothing, rec |-> Nothing]]
  /\ UNCHANGED <<store, mark, cache, running, gc, scans, denied, faults, ticks, pushes, sweeps>>

(* As a bug would have it: an image that is already here is not verified.  *)
GetUnverified(x) ==
  /\ At(x, "get")
  /\ LET i == image[NameOf(x)] IN
     IF i = Nothing THEN Goto(x, "pull")
     ELSE call' = [call EXCEPT ![x].at = "decrypt", ![x].img = i]
  /\ UNCHANGED <<store, mark, cache, running, gc, scans, denied, budget>>

GetImage(x) ==
  /\ At(x, "get")
  /\ LET i == image[NameOf(x)] IN
     \/ i = Nothing /\ Goto(x, "pull") /\ UNCHANGED denied
     \/ /\ i # Nothing
        /\ Policed(call[x]) => Verify(call[x], i)
        /\ call' = [call EXCEPT ![x].at = "decrypt", ![x].img = i]
        /\ UNCHANGED denied
     \/ /\ i # Nothing /\ Policed(call[x]) /\ ~Verify(call[x], i)
        /\ denied' = (denied \/ (call[x].sig = i.dig /\ i.dig \in Signed))
        /\ Leave(x)
  /\ UNCHANGED <<store, mark, cache, running, gc, scans, budget>>

PullImage(x, ok) ==
  /\ At(x, "pull")
  /\ \/ /\ ok /\ NoFault
        /\ LET i == [dig |-> registry[NameOf(x)], enc |-> 0] IN
           /\ image' = [image EXCEPT ![NameOf(x)] = i]
           /\ call' = [call EXCEPT ![x].img = i,
                         ![x].at = IF Policed(call[x]) THEN "verify" ELSE "decrypt"]
     \/ ~ok /\ Fault /\ Leave(x) /\ UNCHANGED image
  /\ UNCHANGED <<registry, decrypted, moved, mark, cache, running, gc, scans, denied,
                 deploys, ticks, pushes, sweeps>>

(* PullImageVerified: a pulled image that fails the gate is deleted under  *)
(* the reference as it was written.                                        *)
PullImageVerified(x) ==
  /\ At(x, "verify")
  /\ IF Verify(call[x], call[x].img)
     THEN Goto(x, "decrypt") /\ UNCHANGED image
     ELSE /\ Leave(x)
          /\ image' = IF call[x].ref \in Names
                      THEN [image EXCEPT ![call[x].ref] = Nothing] ELSE image
  /\ UNCHANGED <<registry, decrypted, moved, mark, cache, running, gc, scans, denied, budget>>

(***************************************************************************)
(* decryptImageForRun: an encrypted image is decrypted into a record of    *)
(* its own; the collector may delete that record before it is read back.   *)
(***************************************************************************)
DecryptImageForRun(x) ==
  /\ At(x, "decrypt")
  /\ IF Encrypting /\ call[x].img.enc > 0
     THEN /\ decrypted' = [decrypted EXCEPT ![NameOf(x)] = call[x].img.dig]
          /\ Goto(x, "unpack")
     ELSE UNCHANGED decrypted /\ Goto(x, "scan")
  /\ UNCHANGED <<registry, image, moved, mark, cache, running, gc, scans, denied, budget>>

UnpackDecrypted(x) ==
  /\ At(x, "unpack")
  /\ LET d == decrypted[NameOf(x)] IN
     IF d = Nothing THEN Leave(x)
     ELSE call' = [call EXCEPT ![x].at = "scan", ![x].img = [dig |-> d, enc |-> 0]]
  /\ UNCHANGED <<store, mark, cache, running, gc, scans, denied, budget>>

(***************************************************************************)
(* CachedScanner.Scan: the first caller of a reference runs the scan, the  *)
(* others wait for its entry; an entry, an error's too, stays until the    *)
(* daemon restarts.  The scanner resolves the reference for itself, to     *)
(* what is stored or to what the registry serves.                          *)
(***************************************************************************)
Judged(r) == {registry[Stored[r]]} \cup (IF image[Stored[r]] = Nothing THEN {} ELSE {image[Stored[r]].dig})

(* As a bug would have it: the entry is registered when the scan is done.  *)
ScanUnshared(x) ==
  /\ At(x, "scan") /\ Scanning
  /\ LET r == call[x].ref IN
     /\ IF cache[r] # Nothing /\ cache[r] # "open" THEN Goto(x, "verdict") /\ UNCHANGED scans
        ELSE scans' = [scans EXCEPT ![r] = @ + 1] /\ Goto(x, "scanning")
     /\ cache' = [cache EXCEPT ![r] = IF @ = Nothing THEN "open" ELSE @]
  /\ UNCHANGED <<store, mark, running, gc, denied, budget>>

Scan(x) ==
  /\ At(x, "scan") /\ Scanning
  /\ LET r == call[x].ref IN
     IF cache[r] # Nothing THEN Goto(x, "verdict") /\ UNCHANGED <<cache, scans>>
     ELSE /\ cache' = [cache EXCEPT ![r] = "open"]
          /\ scans' = [scans EXCEPT ![r] = @ + 1]
          /\ Goto(x, "scanning")
  /\ UNCHANGED <<store, mark, running, gc, denied, budget>>

SkipScan(x) ==
  /\ At(x, "scan") /\ ~Scanning
  /\ Goto(x, "new")
  /\ UNCHANGED <<store, mark, cache, running, gc, scans, denied, budget>>

ScanDone(x, ok) ==
  /\ At(x, "scanning")
  /\ LET r == call[x].ref IN
     /\ \/ /\ ok /\ NoFault
           /\ \E d \in Judged(r) :
                cache' = [cache EXCEPT ![r] = IF d \in Flawed THEN "flawed" ELSE "clean"]
        \/ ~ok /\ Fault /\ cache' = [cache EXCEPT ![r] = "error"]
     /\ scans' = [scans EXCEPT ![r] = @ - 1]
  /\ Goto(x, "verdict")
  /\ UNCHANGED <<store, mark, running, gc, denied, deploys, ticks, pushes, sweeps>>

(* As a bug would have it: an entry whose scan is still open counts clean. *)
ApplyAtOnce(x) ==
  /\ At(x, "verdict")
  /\ IF cache[call[x].ref] \in {"clean", "open"} THEN Goto(x, "new") ELSE Leave(x)
  /\ UNCHANGED <<store, mark, cache, running, gc, scans, denied, budget>>

(* ScanPolicy.Apply on the report, once the entry's scan is done.          *)
Apply(x) ==
  /\ At(x, "verdict") /\ cache[call[x].ref] # "open"
  /\ IF cache[call[x].ref] = "clean" THEN Goto(x, "new") ELSE Leave(x)
  /\ UNCHANGED <<store, mark, cache, running, gc, scans, denied, budget>>

NewContainer(x, ok) ==
  /\ At(x, "new")
  /\ \/ /\ ok /\ NoFault
        /\ running' = running \cup {[x |-> x, ref |-> call[x].ref, dig |-> call[x].img.dig,
                                     req |-> call[x].req]}
        /\ Goto(x, IF Encrypting THEN "encrypt" ELSE "mark")
     \/ ~ok /\ Fault /\ Leave(x) /\ UNCHANGED running
  /\ UNCHANGED <<store, mark, cache, gc, scans, denied, deploys, ticks, pushes, sweeps>>

(***************************************************************************)
(* EncryptImageAtRest reads the record, encrypts the layers and re-points  *)
(* the record; every failure leaves the container running.                 *)
(***************************************************************************)
(* As a bug would have it: imageAlreadyEncrypted is not asked.             *)
EncryptAgain(x) ==
  /\ At(x, "encrypt")
  /\ LET i == image[NameOf(x)] IN
     IF i = Nothing THEN Goto(x, "mark")
     ELSE call' = [call EXCEPT ![x].at = "point", ![x].rec = [i EXCEPT !.enc = @ + 1]]
  /\ UNCHANGED <<store, mark, cache, running, gc, scans, denied, budget>>

EncryptImageAtRest(x) ==
  /\ At(x, "encrypt")
  /\ LET i == image[NameOf(x)] IN
     IF i = Nothing \/ i.enc > 0 THEN Goto(x, "mark")
     ELSE call' = [call EXCEPT ![x].at = "point", ![x].rec = [i EXCEPT !.enc = @ + 1]]
  /\ UNCHANGED <<store, mark, cache, running, gc, scans, denied, budget>>

UpdateTarget(x, ok) ==
  /\ At(x, "point")
  /\ \/ /\ ok /\ NoFault
        /\ image' = IF image[NameOf(x)] = Nothing THEN image
                    ELSE [image EXCEPT ![NameOf(x)] = call[x].rec]
     \/ ~ok /\ Fault /\ UNCHANGED image
  /\ Goto(x, "mark")
  /\ UNCHANGED <<registry, decrypted, moved, mark, cache, running, gc, scans, denied,
                 deploys, ticks, pushes, sweeps>>

MarkInUse(x) ==
  /\ At(x, "mark")
  /\ mark' = [mark EXCEPT ![call[x].ref] = 0]
  /\ Leave(x)
  /\ UNCHANGED <<store, cache, running, gc, scans, denied, budget>>

(* Stopping the deployment keeps the mark and starts its age again.        *)
UnmarkInUse(c) ==
  /\ c \in running /\ call[c.x] = Nothing
  /\ running' = running \ {c}
  /\ mark' = [mark EXCEPT ![c.ref] = 0]
  /\ UNCHANGED <<store, cache, call, gc, scans, denied, budget>>

(***************************************************************************)
(* CollectGarbage: list the images, copy the marks of the stored names,    *)
(* delete what is not in use, then the least recently used of the others   *)
(* while the total is above the cap, and prune the expired marks.  The     *)
(* deletions run outside the lock.                                         *)
(***************************************************************************)
InUse(k) == mark[k] # Nothing /\ mark[k] < MaxAge

CollectGarbage ==
  /\ gc = Nothing /\ sweeps < MaxSweeps
  /\ sweeps' = sweeps + 1
  /\ LET listed == {n \in Names : image[n] # Nothing} IN
     gc' = [todo |-> {n \in listed : ~InUse(n)},
            kept |-> {n \in listed : InUse(n)},
            temp |-> {n \in Names : decrypted[n] # Nothing},
            seen |-> mark, gone |-> {}, evict |-> Nothing]
  /\ UNCHANGED <<store, mark, cache, call, running, scans, denied, deploys, faults, ticks, pushes>>

DeleteImage(n, ok) ==
  /\ gc # Nothing /\ gc.evict = Nothing /\ n \in gc.todo
  /\ \/ /\ ok /\ NoFault
        /\ image' = [image EXCEPT ![n] = Nothing]
        /\ gc' = [gc EXCEPT !.todo = @ \ {n}, !.gone = @ \cup {n}]
     \/ ~ok /\ Fault /\ UNCHANGED image
        /\ gc' = [gc EXCEPT !.todo = @ \ {n}, !.kept = @ \cup {n}]
  /\ UNCHANGED <<registry, decrypted, moved, mark, cache, call, running, scans, denied,
                 deploys, ticks, pushes, sweeps>>

(* A decrypted record is listed like any image and never marked.           *)
DeleteDecrypted(n) ==
  /\ gc # Nothing /\ n \in gc.temp
  /\ decrypted' = [decrypted EXCEPT ![n] = Nothing]
  /\ gc' = [gc EXCEPT !.temp = @ \ {n}]
  /\ UNCHANGED <<registry, image, moved, mark, cache, call, running, scans, denied, budget>>

(* selectForEviction on the survivors: a prefix of those not active, from  *)
(* the oldest mark, one never marked first; it stops when the rest fits.   *)
Older(a, b) ==
  \/ gc.seen[a] = Nothing
  \/ gc.seen[b] # Nothing /\ gc.seen[a] >= gc.seen[b]
Idle == {n \in gc.kept : gc.seen[n] = Nothing \/ gc.seen[n] > 0}

(* As a bug would have it: one image more than the cap asks for.           *)
EvictOneMore(out) ==
  /\ out \subseteq Idle
  /\ \A a \in out, b \in Idle \ out : Older(a, b)
  /\ Cardinality(out) = IF Cardinality(gc.kept) <= MaxSize THEN 0
                        ELSE IF Cardinality(Idle) < Cardinality(gc.kept) - MaxSize + 1
                             THEN Cardinality(Idle) ELSE Cardinality(gc.kept) - MaxSize + 1

selectForEviction(out) ==
  /\ out \subseteq Idle
  /\ \A a \in out, b \in Idle \ out : Older(a, b)
  /\ Cardinality(out) = IF Cardinality(gc.kept) <= MaxSize THEN 0
                        ELSE IF Cardinality(Idle) < Cardinality(gc.kept) - MaxSize
                             THEN Cardinality(Idle) ELSE Cardinality(gc.kept) - MaxSize

SelectEvictions ==
  /\ gc # Nothing /\ gc.evict = Nothing /\ gc.todo = {} /\ gc.temp = {}
  /\ \E out \in SUBSET gc.kept :
       /\ IF MaxSize > 0 THEN selectForEviction(out) ELSE out = {}
       /\ gc' = [gc EXCEPT !.evict = out]
  /\ UNCHANGED <<store, mark, cache, call, running, scans, denied, budget>>

(* Evict them, a failed deletion being skipped, and PruneExpired.          *)
EvictAndPrune ==
  /\ gc # Nothing /\ gc.evict # Nothing
  /\ \E failed \in SUBSET gc.evict :
       /\ IF failed = {} THEN NoFault ELSE Fault
       /\ image' = [n \in Names |-> IF n \in gc.evict \ failed THEN Nothing ELSE image[n]]
  /\ mark' = [k \in Keys |-> IF InUse(k) THEN mark[k] ELSE Nothing]
  /\ gc' = Nothing
  /\ UNCHANGED <<registry, decrypted, moved, cache, call, running, scans, denied,
                 deploys, ticks, pushes, sweeps>>

Tick ==
  /\ ticks < MaxTicks /\ ticks' = ticks + 1
  /\ mark' = [k \in Keys |-> IF mark[k] = Nothing THEN Nothing
                             ELSE IF mark[k] < MaxAge THEN mark[k] + 1 ELSE mark[k]]
  /\ UNCHANGED <<store, cache, call, running, gc, scans, denied, deploys, faults, pushes, sweeps>>

(* The publisher moves the tag.                                            *)
Push(n, d) ==
  /\ pushes < MaxPushes /\ d # registry[n]
  /\ pushes' = pushes + 1
  /\ registry' = [registry EXCEPT ![n] = d]
  /\ moved' = moved \cup {n}
  /\ UNCHANGED <<image, decrypted, mark, cache, call, running, gc, scans, denied,
                 deploys, faults, ticks, sweeps>>

Next ==
  \/ \E x \in Deployers, r \in Refs, req \in BOOLEAN, sig \in Signed \cup {Nothing} :
       CreateSecureContainer(x, r, sig, req)
  \/ \E x \in Deployers, ok \in BOOLEAN :
       PullImage(x, ok) \/ ScanDone(x, ok) \/ NewContainer(x, ok) \/ UpdateTarget(x, ok)
  \/ \E x \in Deployers :
       \/ GetImage(x) \/ PullImageVerified(x) \/ DecryptImageForRun(x) \/ UnpackDecrypted(x)
       \/ Scan(x) \/ SkipScan(x) \/ Apply(x) \/ EncryptImageAtRest(x) \/ MarkInUse(x)
  \/ \E c \in running : UnmarkInUse(c)
  \/ \E n \in Names, ok \in BOOLEAN : DeleteImage(n, ok)
  \/ \E n \in Names : DeleteDecrypted(n)
  \/ \E n \in Names, d \in Digests : Push(n, d)
  \/ CollectGarbage \/ SelectEvictions \/ EvictAndPrune \/ Tick

Spec == Init /\ [][Next]_vars

-----------------------------------------------------------------------------
(* A container whose trust policy requires a signature was made from a     *)
(* content a trusted publisher signed, whoever brought the image here,     *)
(* whatever the collector and other deployments did in between.            *)
TrustEnforced == \A c \in running : c.req => c.dig \in Signed

(* A content the scan policy refuses runs only where the tag moved under   *)
(* the cached report: the scan gate, its shared cache entry and the wait   *)
(* for it let nothing else through.                                        *)
ScanEnforced ==
  Scanning => \A c \in running : c.dig \in Flawed => Stored[c.ref] \in moved

(* Concurrent deployments of one reference share one scan.                 *)
ScanShared == \A r \in Refs : scans[r] <= 1

(* However often an image is deployed, its layers are sealed once.         *)
SealedOnce == \A n \in Names : image[n] # Nothing => image[n].enc <= 1

(* Where the collector evicts for size it takes no image that was active,  *)
(* takes the oldest, and no more than the cap asks for.                    *)
EvictsLeast ==
  gc # Nothing /\ gc.evict # Nothing /\ gc.evict # {} =>
    /\ \A n \in gc.evict : gc.seen[n] # 0
    /\ Cardinality(gc.kept) - Cardinality(gc.evict) >= MaxSize

(* What an image goes through between the registry and a container.        *)
ImagesSound == TrustEnforced /\ ScanEnforced /\ ScanShared /\ SealedOnce /\ EvictsLeast

(* "As long as an image is marked in use, it will not be collected": no    *)
(* image of a running container whose mark is fresh has been deleted.      *)
MarkedKept ==
  \A c \in running :
    gc # Nothing /\ mark[c.ref] = 0 /\ gc.seen[c.ref] = 0 => Stored[c.ref] \notin gc.gone

(* A request that carries the publisher's signature of the image stored    *)
(* here is not refused for its signature.                                  *)
SignedWelcome == ~denied
=============================================================================
