---------------------------- MODULE Workloads ----------------------------
(************************************************************************)
(* What a node runs besides containers: WASM functions ("molts", in         *)
(* internal/molt and daemon/molt_manager.go) with the results their host    *)
(* calls leave behind and the canaries in their memory, JavaScript          *)
(* functions in a pool of Deno workers (internal/jsruntime), crawl jobs     *)
(* (internal/crawl), agents (internal/agent), and beside them the threat    *)
(* detector with its responder (internal/threat).  The initial state picks  *)
(* one of these parts; st is the state its goroutines share and call where  *)
(* each caller stands.                                                      *)
(************************************************************************)
EXTENDS Integers, Sequences, FiniteSets, SequencesExt

CONSTANTS
    Parts,
    Callers,       \* goroutines that serve requests
    Keys,          \* ids, CIDs, URLs
    Contents,      \* WASM modules, wallets
    Nothing,
    MaxCalls,      \* bound on the requests of a behaviour
    MaxCache,      \* cfg.MaxCacheEntries
    MaxInstances,  \* cfg.MaxInstances
    PoolSize,      \* DenoConfig.PoolSize
    MaxSpawns,     \* bound on the Deno processes of a behaviour
    MaxPerWallet   \* jobs or agents a wallet may have at once

VARIABLES part, st, call

vars == <<part, st, call>>

Idle == [pc |-> "idle"]

At(c, pc) == call[c].pc = pc

Goes(c, to) == call' = [call EXCEPT ![c] = to]

Moves(c, pc) == Goes(c, [call[c] EXCEPT !.pc = pc])

In(pcs) == {c \in Callers : call[c].pc \in pcs}

----------------------------------------------------------------------------
(* Molts.  mods are the compiled modules in the order of compiling,       *)
(* entries the cache's entry objects, cache the ones it holds from the    *)
(* least to the most recently used, deps the deployment objects and at    *)
(* the manager's map to them.                                             *)

Zero == [total |-> 0, success |-> 0, errors |-> 0, timeouts |-> 0]

NewMoltManager ==
    [ kind |-> "molts", calls |-> 0, closed |-> FALSE, ended |-> FALSE, mods |-> <<>>,
      entries |-> <<>>, cache |-> <<>>, deps |-> <<>>, at |-> [i \in Keys |-> 0],
      sem |-> 0, active |-> 0, stats |-> Zero, per |-> [i \in Keys |-> Zero] ]

Calls == st.calls < MaxCalls

\* The bytes of a replica (deployMoltReplica) are not there: Nothing.
MoltDeploy(c) ==
    /\ At(c, "idle") /\ Calls /\ ~st.closed
    /\ \E id \in Keys, cid \in Keys, b \in Contents \cup {Nothing} :
          /\ st.at[id] = 0
          /\ Goes(c, [pc |-> "compile", id |-> id, cid |-> cid, bytes |-> b])
    /\ st' = [st EXCEPT !.calls = @ + 1]

Compile(c) ==
    /\ At(c, "compile")
    /\ IF st.ended THEN Goes(c, Idle) ELSE Moves(c, "lookup")
    /\ UNCHANGED st

Held(cid) == {e \in Range(st.cache) : st.entries[e].cid = cid}

CacheGet(c) ==
    /\ At(c, "lookup")
    /\ IF Held(call[c].cid) = {}
       THEN Moves(c, "build")
       ELSE \E e \in Held(call[c].cid) :
               Goes(c, [call[c] EXCEPT !.pc = "touch"] @@ [entry |-> e])
    /\ UNCHANGED st

\* The entry may have been evicted since it was looked up.
CacheTouch(c) ==
    /\ At(c, "touch")
    /\ LET e == call[c].entry IN
       /\ st' = [st EXCEPT !.cache = IF e \in Range(@) THEN Append(Remove(@, e), e) ELSE @]
       /\ Goes(c, [call[c] EXCEPT !.pc = "register"] @@ [mod |-> st.entries[e].mod])

\* wazero (external) compiles, unless it is closed or the bytes are no module.
CompileModule(c) ==
    /\ At(c, "build")
    /\ \/ Goes(c, Idle) /\ UNCHANGED st
       \/ /\ ~st.ended /\ call[c].bytes # Nothing
          /\ st' = [st EXCEPT !.mods =
                       Append(@, [cid |-> call[c].cid, bytes |-> call[c].bytes, open |-> TRUE])]
          /\ Goes(c, [call[c] EXCEPT !.pc = "put"] @@ [mod |-> Len(st.mods) + 1])

evictOldest(s) ==
    IF Len(s.cache) < MaxCache THEN s
    ELSE [s EXCEPT !.cache = Tail(@), !.mods[s.entries[Head(s.cache)].mod].open = FALSE]

PutAgain(c) ==
    /\ At(c, "put")
    /\ st' = [evictOldest(st) EXCEPT
                !.entries = Append(@, [cid |-> call[c].cid, mod |-> call[c].mod]),
                !.cache = Append(@, Len(st.entries) + 1)]
    /\ Moves(c, "register")

\* An entry that came in meanwhile takes the new module, and the one it
\* had is not closed.
CachePut(c) ==
    /\ At(c, "put")
    /\ IF Held(call[c].cid) # {}
       THEN \E e \in Held(call[c].cid) :
               st' = [st EXCEPT !.entries[e].mod = call[c].mod,
                                !.cache = Append(Remove(@, e), e)]
       ELSE st' = [evictOldest(st) EXCEPT
                     !.entries = Append(@, [cid |-> call[c].cid, mod |-> call[c].mod]),
                     !.cache = Append(@, Len(st.entries) + 1)]
    /\ Moves(c, "register")

\* The second half of Deploy does not look again whether the id is taken
\* or the manager closed.
register(c) ==
    /\ At(c, "register")
    /\ st' = [st EXCEPT
                !.deps = Append(@, [id |-> call[c].id, cid |-> call[c].cid, mod |-> call[c].mod,
                                    bytes |-> call[c].bytes, status |-> "running"]),
                !.at[call[c].id] = Len(st.deps) + 1]
    /\ Goes(c, Idle)

MoltStop ==
    \E id \in Keys :
       /\ Calls /\ st.at[id] # 0
       /\ st' = [st EXCEPT !.calls = @ + 1, !.deps[st.at[id]].status = "stopped"]
       /\ UNCHANGED call

MoltDelete ==
    \E id \in Keys :
       /\ Calls /\ st.at[id] # 0
       /\ st' = [st EXCEPT !.calls = @ + 1, !.deps[st.at[id]].status = "stopped",
                           !.at[id] = 0]
       /\ UNCHANGED call

MoltClose ==
    /\ ~st.closed
    /\ st' = [st EXCEPT
                !.closed = TRUE, !.at = [i \in Keys |-> 0],
                !.deps = [i \in DOMAIN @ |->
                             IF i \in Range(st.at) THEN [@[i] EXCEPT !.status = "stopped"]
                             ELSE @[i]]]
    /\ UNCHANGED call

RuntimeClose ==
    /\ st.closed /\ ~st.ended
    /\ st' = [st EXCEPT !.ended = TRUE, !.cache = <<>>,
                        !.mods = [i \in DOMAIN @ |-> [@[i] EXCEPT !.open = FALSE]]]
    /\ UNCHANGED call

MoltInvoke(c) ==
    /\ At(c, "idle") /\ Calls
    /\ \E id \in Keys : st.at[id] # 0 /\ Goes(c, [pc |-> "status", dep |-> st.at[id]])
    /\ st' = [st EXCEPT !.calls = @ + 1]

\* isClosed and IncrementActive of the runtime's Invoke.
Enter(c) ==
    IF st.ended THEN Goes(c, Idle) /\ UNCHANGED st
    ELSE Moves(c, "sem") /\ st' = [st EXCEPT !.active = @ + 1]

checkStatus(c) ==
    /\ At(c, "status")
    /\ IF st.deps[call[c].dep].status = "running" THEN Enter(c)
       ELSE Goes(c, Idle) /\ UNCHANGED st

\* The handler of a deployment keeps its module and asks for no status.
ServeHTTP(c) ==
    /\ At(c, "idle") /\ Calls
    /\ \E d \in DOMAIN st.deps :
          IF st.ended THEN UNCHANGED call ELSE Goes(c, [pc |-> "sem", dep |-> d])
    /\ st' = [st EXCEPT !.calls = @ + 1, !.active = IF st.ended THEN @ ELSE @ + 1]

acquire(c) ==
    /\ At(c, "sem")
    /\ \/ /\ st.sem < MaxInstances
          /\ st' = [st EXCEPT !.sem = @ + 1]
          /\ Moves(c, "start")
       \/ /\ st' = [st EXCEPT !.active = @ - 1]  \* ctx.Done
          /\ Goes(c, Idle)

\* wazero keeps the machine code of equal modules once, until the last of
\* them is closed.
Code(b) == \E m \in Range(st.mods) : m.bytes = b /\ m.open

Tallied(stats, outcome) == [stats EXCEPT !.total = @ + 1, ![outcome] = @ + 1]

RecordInvocation(id, outcome) ==
    st' = [st EXCEPT !.stats = Tallied(@, outcome), !.per[id] = Tallied(@, outcome),
                     !.sem = @ - 1, !.active = @ - 1]

Instantiate(c) ==
    LET d == st.deps[call[c].dep] IN
    /\ At(c, "start")
    /\ IF Code(st.mods[d.mod].bytes)
       THEN Moves(c, "guest") /\ UNCHANGED st
       ELSE Goes(c, Idle) /\ RecordInvocation(d.id, "errors")

FinishLeaky(c) ==
    /\ At(c, "guest") /\ Goes(c, Idle)
    /\ \E o \in {"success", "errors", "timeouts"} :
          IF o = "timeouts"
          THEN st' = [st EXCEPT !.stats = Tallied(@, o), !.active = @ - 1,
                                !.per[st.deps[call[c].dep].id] = Tallied(@, o)]
          ELSE RecordInvocation(st.deps[call[c].dep].id, o)

Finish(c) ==
    /\ At(c, "guest")
    /\ \E o \in IF st.ended THEN {"errors", "timeouts"} ELSE {"success", "errors", "timeouts"} :
          RecordInvocation(st.deps[call[c].dep].id, o)
    /\ Goes(c, Idle)

Molts ==
    \/ \E c \in Callers :
          \/ MoltDeploy(c) \/ Compile(c) \/ CacheGet(c) \/ CacheTouch(c) \/ CompileModule(c)
          \/ CachePut(c) \/ register(c) \/ MoltInvoke(c) \/ checkStatus(c) \/ ServeHTTP(c)
          \/ acquire(c) \/ Instantiate(c) \/ Finish(c)
    \/ MoltStop \/ MoltDelete \/ MoltClose \/ RuntimeClose

----------------------------------------------------------------------------
(* Deno workers.  A process reads lines from inq and writes lines to out; *)
(* js is where its main loop stands, alive what the Go side believes.     *)
(* late marks a worker that went back to the pool with a request that was *)
(* given up.                                                              *)

NewDenoWorker ==
    [alive |-> TRUE, js |-> "loop", req |-> Nothing, inq |-> <<>>, out |-> <<>>,
     extra |-> FALSE, late |-> FALSE]

NewDenoPool ==
    [ kind |-> "deno", calls |-> 0, closed |-> FALSE, closing |-> FALSE,
      procs |-> [w \in 1..PoolSize |-> NewDenoWorker],
      available |-> [w \in 1..PoolSize |-> w], workers |-> 1..PoolSize, lost |-> 0, odd |-> {} ]

Worker(c) == st.procs[call[c].w]

\* isClosed waits for a Close under way.
Execute(c) ==
    /\ At(c, "idle") /\ Calls /\ ~st.closed
    /\ Goes(c, [pc |-> "acquire", req |-> st.calls + 1])
    /\ st' = [st EXCEPT !.calls = @ + 1]

\* A closed and empty channel hands out nil.
acquireWorker(c) ==
    /\ At(c, "acquire")
    /\ \/ /\ st.available # <<>>
          /\ Goes(c, [call[c] EXCEPT !.pc = "check"] @@ [w |-> Head(st.available)])
          /\ st' = [st EXCEPT !.available = Tail(@)]
       \/ /\ st.available = <<>> /\ st.closed
          /\ Goes(c, [pc |-> "panicked"]) /\ UNCHANGED st
       \/ Goes(c, Idle) /\ UNCHANGED st  \* 503

Spawns == Len(st.procs) < MaxSpawns

spawnWorker(c, pc) ==
    \/ /\ Spawns
       /\ st' = [st EXCEPT !.procs = Append(@, NewDenoWorker)]
       /\ Goes(c, [call[c] EXCEPT !.pc = pc, !.w = Len(st.procs) + 1])
    \/ Goes(c, Idle) /\ st' = [st EXCEPT !.lost = @ + 1]

ensureAlive(c) ==
    /\ At(c, "check")
    /\ IF Worker(c).alive THEN Moves(c, "invoke") /\ UNCHANGED st
       ELSE spawnWorker(c, "invoke")

\* WriteMessage fails when the process has gone.
Written(w, msg) ==
    IF st.procs[w].js = "exited" THEN [st EXCEPT !.procs[w].alive = FALSE]
    ELSE [st EXCEPT !.procs[w].inq = Append(@, msg)]

sendInvoke(c) ==
    /\ At(c, "invoke")
    /\ IF Worker(c).alive
       THEN /\ st' = Written(call[c].w, [type |-> "invoke", req |-> call[c].req])
            /\ Moves(c, IF Worker(c).js = "exited" THEN "release" ELSE "top")
       ELSE Moves(c, "release") /\ UNCHANGED st

\* The deadline is looked at between two messages only.
checkDeadline(c) ==
    /\ At(c, "top")
    /\ \/ Moves(c, "read") /\ UNCHANGED st
       \/ Moves(c, "release") /\ st' = [st EXCEPT !.procs[call[c].w].late = TRUE]

Rest(w) == [st EXCEPT !.procs[w].out = Tail(@)]

readMessage(c) ==
    LET w == call[c].w
        msg == Head(Worker(c).out)
    IN /\ At(c, "read")
       /\ \/ /\ Worker(c).out # <<>> /\ msg.type = "host_call"
             /\ st' = [Written(w, [type |-> "host_result", req |-> msg.req]) EXCEPT
                          !.procs[w].out = Tail(@)]
             /\ Moves(c, IF Worker(c).js = "exited" THEN "release" ELSE "top")
          \/ /\ Worker(c).out # <<>> /\ msg.type = "response"
             /\ st' = [Rest(w) EXCEPT !.odd = IF msg.req = call[c].req THEN @ ELSE @ \cup {w}]
             /\ Moves(c, "release")
          \/ /\ Worker(c).out # <<>> /\ msg.type = "print"
             /\ st' = [Rest(w) EXCEPT !.procs[w].alive = FALSE]
             /\ Moves(c, "release")
          \/ /\ Worker(c).out = <<>> /\ Worker(c).js = "exited"
             /\ st' = [st EXCEPT !.procs[w].alive = FALSE]
             /\ Moves(c, "release")

\* A send on the closed channel panics.
Back(c, s, w) ==
    IF st.closed THEN Goes(c, [pc |-> "panicked"]) /\ st' = s
    ELSE Goes(c, Idle) /\ st' = [s EXCEPT !.available = Append(@, w)]

releaseAlways(c) ==
    /\ At(c, "release")
    /\ \/ Back(c, [st EXCEPT !.procs = Append(@, NewDenoWorker)], Len(st.procs) + 1) /\ Spawns
       \/ Back(c, st, call[c].w) /\ Worker(c).alive
       \/ Goes(c, Idle) /\ UNCHANGED st

releaseWorker(c) ==
    /\ At(c, "release")
    /\ IF Worker(c).alive THEN Back(c, st, call[c].w)
       ELSE \/ Spawns /\ Back(c, [st EXCEPT !.procs = Append(@, NewDenoWorker)], Len(st.procs) + 1)
            \/ Goes(c, Idle) /\ st' = [st EXCEPT !.lost = @ + 1]

\* The mutex of a worker is held from the sending of a request to its end.
Busy(w) == \E c \in In({"top", "read"}) : call[c].w = w

WorkerClosed(w) == [w EXCEPT !.js = IF w.alive THEN "exited" ELSE @, !.alive = FALSE]

PoolClose ==
    /\ ~st.closed
    /\ st' = [st EXCEPT
                !.closed = TRUE, !.closing = TRUE, !.available = <<>>,
                !.procs = [w \in DOMAIN @ |-> IF w \in Range(st.available) THEN WorkerClosed(@[w])
                                              ELSE @[w]]]
    /\ UNCHANGED call

CloseWorkers ==
    /\ st.closing
    /\ \/ \E w \in st.workers :
             /\ ~Busy(w)
             /\ st' = [st EXCEPT !.workers = @ \ {w}, !.procs[w] = WorkerClosed(@)]
       \/ st.workers = {} /\ st' = [st EXCEPT !.closing = FALSE]
    /\ UNCHANGED call

\* The loop of bindings.ts.  It waits for the handler before it reads on,
\* so a handler that awaits a host call waits for a line nobody reads.
Says(w, type, js) ==
    st' = [st EXCEPT !.procs[w].out = Append(@, [type |-> type, req |-> st.procs[w].req]),
                     !.procs[w].js = js,
                     !.procs[w].extra = @ \/ type \in {"host_call", "print"}]

hostCall(w) ==
    /\ st.procs[w].js = "handling" /\ ~st.procs[w].extra
    /\ \E js \in {"waiting", "handling"} : Says(w, "host_call", js)

mainLoop(w) ==
    LET p == st.procs[w] IN
    \/ /\ p.js = "loop" /\ p.inq # <<>>
       /\ st' = [st EXCEPT
                   !.procs[w] = [p EXCEPT
                      !.inq = Tail(@),
                      !.js = IF Head(p.inq).type = "invoke" THEN "handling" ELSE @,
                      !.req = IF Head(p.inq).type = "invoke" THEN Head(p.inq).req ELSE @]]
    \/ p.js = "handling" /\ Says(w, "response", "loop")
    \/ p.js = "handling" /\ ~p.extra /\ Says(w, "print", "handling")
    \/ p.js # "exited" /\ st' = [st EXCEPT !.procs[w].js = "exited"]

Deno ==
    \/ \E c \in Callers :
          \/ Execute(c) \/ acquireWorker(c) \/ ensureAlive(c) \/ sendInvoke(c)
          \/ checkDeadline(c) \/ readMessage(c) \/ releaseWorker(c)
    \/ PoolClose \/ CloseWorkers
    \/ \E w \in DOMAIN st.procs : (hostCall(w) \/ mainLoop(w)) /\ UNCHANGED call

----------------------------------------------------------------------------
(* Results of host calls.  One ResultStore serves every invocation of the *)
(* runtime; handles are signed integers of HandleBits bits (32).          *)

HandleBits == 3

Wrap(n) == ((n + 2^(HandleBits - 1)) % 2^HandleBits) - 2^(HandleBits - 1)

Services == {"http", "storage", "crawl"}

\* The store may have served for long: its counter may be anywhere.
NewResultStore ==
    {[kind |-> "guests", calls |-> 0, enabled |-> on, counter |-> n, wrapped |-> FALSE,
      data |-> <<>>] : on \in SUBSET Services, n \in {0, 2^(HandleBits - 1) - 3}}

Put(s, h, result) ==
    [s EXCEPT !.counter = Wrap(@ + 1), !.wrapped = @ \/ Wrap(s.counter + 1) < s.counter,
              !.data = (h :> result) @@ @]

Store(c) ==
    LET h == Wrap(st.counter + 1) IN
    /\ st' = Put(st, h, [of |-> c, n |-> call[c].n, error |-> FALSE])
    /\ Goes(c, [pc |-> "holds", h |-> h, n |-> call[c].n, error |-> FALSE])

StoreErrorPlus(c) ==
    LET h == Wrap(st.counter + 1) IN
    /\ st' = Put(st, h, [of |-> c, n |-> call[c].n, error |-> TRUE])
    /\ Goes(c, [pc |-> "holds", h |-> h, n |-> call[c].n, error |-> TRUE])

StoreError(c) ==
    LET h == Wrap(-Wrap(st.counter + 1)) IN
    /\ st' = Put(st, h, [of |-> c, n |-> call[c].n, error |-> TRUE])
    /\ Goes(c, [pc |-> "holds", h |-> h, n |-> call[c].n, error |-> TRUE])

HostCall(c, fn) ==
    /\ At(c, "idle") /\ Calls
    /\ st' = [st EXCEPT !.calls = @ + 1]
    /\ Goes(c, [pc |-> fn, n |-> st.calls + 1])

\* Each host function answers an error when its service is off or the
\* request is no good, else what the service answers once it has.
Serves(c, fn, service) ==
    /\ At(c, fn)
    /\ \/ service \in st.enabled /\ Store(c)
       \/ StoreError(c)

hostHTTPRequest(c) == Serves(c, "http", "http")

hostCrawlPage(c) == Serves(c, "crawl", "crawl")

hostStoragePut(c) == Serves(c, "put", "storage")

hostStorageGet(c) == Serves(c, "get", "storage")

hostStorageList(c) == Serves(c, "list", "storage")

hostStorageDelete(c) ==
    /\ At(c, "delete")
    /\ \/ "storage" \in st.enabled /\ Goes(c, Idle) /\ UNCHANGED st
       \/ StoreError(c)

\* Reading frees the handle, whether or not the guest's buffer takes it.
Read(c) ==
    LET h == call[c].h IN
    /\ st' = [st EXCEPT !.data = [k \in DOMAIN @ \ {h} |-> @[k]]]
    /\ Goes(c, [pc |-> "read", h |-> h, n |-> call[c].n,
                got |-> IF h \in DOMAIN st.data THEN st.data[h] ELSE Nothing])

hostResultRead(c) == At(c, "holds") /\ call[c].h > 0 /\ Read(c)

hostErrorMessage(c) == At(c, "holds") /\ call[c].h < 0 /\ Read(c)

\* The guest ends its invocation, whatever it has read.
Return(c) ==
    /\ call[c].pc \in {"holds", "read"}
    /\ Goes(c, Idle) /\ UNCHANGED st

Guests ==
    \E c \in Callers :
       \/ \E fn \in {"http", "crawl", "put", "get", "list", "delete"} : HostCall(c, fn)
       \/ hostHTTPRequest(c) \/ hostCrawlPage(c) \/ hostStoragePut(c) \/ hostStorageGet(c)
       \/ hostStorageList(c) \/ hostStorageDelete(c)
       \/ hostResultRead(c) \/ hostErrorMessage(c) \/ Return(c)

----------------------------------------------------------------------------
(* Canaries in the linear memory of a molt, with a page of 16 cells, a    *)
(* guard zone of 4 and canaries of 2.  The random jitter is any value.    *)

Page == 16
CanaryGuardZone == 4
CanarySize == 2

NewMemoryCanarySet ==
    {[kind |-> "canaries", size |-> pages * Page, count |-> n, at |-> <<>>, planted |-> "no",
      wild |-> {}] : pages \in 0..3, n \in 1..4}

MaxOffset == st.size - CanaryGuardZone - CanarySize

Stride == (MaxOffset - Page) \div st.count

TooSmall ==
    \/ st.size = 0 \/ MaxOffset <= Page
    \/ st.count * CanarySize > MaxOffset - Page

JitterWide == 0..(Stride - 1)

\* j is a random number modulo Stride - CanarySize, which may be zero.
Jitter == 0..(Stride - CanarySize - 1)

Plant ==
    /\ st.planted = "no"
    /\ \/ TooSmall /\ st' = [st EXCEPT !.planted = "refused"]
       \/ ~TooSmall /\ Stride = CanarySize /\ st' = [st EXCEPT !.planted = "panicked"]
       \/ /\ ~TooSmall
          /\ \E j \in Jitter :
                st' = [st EXCEPT !.at = Append(@, Page + Len(st.at) * Stride + j),
                                 !.planted = IF Len(st.at) + 1 = st.count THEN "yes" ELSE @]
    /\ UNCHANGED call

\* The guest writes a cell of its own or another.
GuestWrites ==
    /\ st.planted = "yes" /\ st.wild = {}
    /\ \E o \in 0..(st.size - 1) : st' = [st EXCEPT !.wild = {o}]
    /\ UNCHANGED call

Covers(i, o) == st.at[i] <= o /\ o < st.at[i] + CanarySize

Verify ==
    LET violated == {i \in DOMAIN st.at : \E o \in st.wild : Covers(i, o)}
    IN [violated |-> Cardinality(violated), intact |-> Len(st.at) - Cardinality(violated)]

Canaries == Plant \/ GuestWrites

----------------------------------------------------------------------------
(* Crawl jobs.  The URLs are of one domain; billed is what the metering   *)
(* hook was told of a job, done how often it was completed and ended      *)
(* whether it ever reached a final status.                                *)

Interval == 2

MaxClock == 3

NewScheduler ==
    [ kind |-> "crawl", calls |-> 0, jobs |-> <<>>, seen |-> {}, visits |-> [u \in Keys |-> 0],
      clock |-> 0, fetched |-> <<>> ]

Active(items, owner, final) ==
    Cardinality({i \in DOMAIN items : items[i].owner = owner /\ items[i].status \notin final})

Finals == {"completed", "failed", "cancelled"}

CreateJobFree(c) ==
    /\ At(c, "idle") /\ Calls
    /\ \E o \in Contents \cup {Nothing} : Goes(c, [pc |-> "insert", owner |-> o])
    /\ st' = [st EXCEPT !.calls = @ + 1]

\* The count and the insertion take the lock apart from each other; a
\* request with no wallet (Nothing) is "anonymous".
CreateJob(c) ==
    /\ At(c, "idle") /\ Calls
    /\ \E o \in Contents \cup {Nothing} :
          /\ Active(st.jobs, o, Finals) < MaxPerWallet
          /\ Goes(c, [pc |-> "insert", owner |-> o])
    /\ st' = [st EXCEPT !.calls = @ + 1]

insertJob(c) ==
    /\ At(c, "insert")
    /\ st' = [st EXCEPT !.jobs = Append(@, [owner |-> call[c].owner, status |-> "pending",
                                            pages |-> 0, after |-> 0, done |-> 0, billed |-> 0,
                                            ended |-> FALSE])]
    /\ Goes(c, Idle)

StartAny(j) == st' = [st EXCEPT !.jobs[j].status = "running"] /\ UNCHANGED call

StartJob(j) ==
    /\ st.jobs[j].status = "pending"
    /\ st' = [st EXCEPT !.jobs[j].status = "running"]
    /\ UNCHANGED call

Ended(j, status) == [st EXCEPT !.jobs[j].status = status, !.jobs[j].ended = TRUE]

\* Completed whatever it was; the hook is told after the unlock.
CompleteJob(c, j) ==
    /\ At(c, "idle") /\ st.jobs[j].done < 2
    /\ st' = [Ended(j, "completed") EXCEPT !.jobs[j].done = @ + 1]
    /\ Goes(c, [pc |-> "meter", j |-> j, pages |-> st.jobs[j].pages])

RecordCrawlJob(c) ==
    /\ At(c, "meter")
    /\ st' = [st EXCEPT !.jobs[call[c].j].billed = @ + call[c].pages]
    /\ Goes(c, Idle)

FailJob(j) == st' = Ended(j, "failed") /\ UNCHANGED call

\* Through the REST handler by the wallet that owns the job.
CancelJob(j) ==
    /\ st.jobs[j].owner # Nothing
    /\ st.jobs[j].status \notin {"completed", "failed"}
    /\ st' = Ended(j, "cancelled")
    /\ UNCHANGED call

\* Seen and Mark take the lock one after the other.
ShouldCrawl(c) ==
    /\ At(c, "idle") /\ st.jobs # <<>> /\ Calls
    /\ \E u \in Keys \ st.seen : Goes(c, [pc |-> "mark", u |-> u])
    /\ st' = [st EXCEPT !.calls = @ + 1]

Mark(c) ==
    /\ At(c, "mark")
    /\ st' = [st EXCEPT !.seen = @ \cup {call[c].u}, !.visits[call[c].u] = @ + 1]
    /\ Moves(c, "rate")

AllowLate(c) ==
    /\ At(c, "rate")
    /\ st' = [st EXCEPT !.fetched = Append(@, st.clock)]
    /\ Moves(c, "add")

Allow(c) ==
    /\ At(c, "rate")
    /\ st.fetched # <<>> => st.clock - Last(st.fetched) >= Interval
    /\ st' = [st EXCEPT !.fetched = Append(@, st.clock)]
    /\ Moves(c, "add")

\* Results are taken whatever the job's status; the model crawls job 1.
AddResult(c) ==
    /\ At(c, "add")
    /\ st' = [st EXCEPT !.jobs[1].pages = @ + 1,
                        !.jobs[1].after = IF st.jobs[1].done > 0 THEN @ + 1 ELSE @]
    /\ Goes(c, Idle)

Tick == st.clock < MaxClock /\ st' = [st EXCEPT !.clock = @ + 1] /\ UNCHANGED call

Crawl ==
    \/ \E c \in Callers :
          \/ CreateJob(c) \/ insertJob(c) \/ RecordCrawlJob(c) \/ ShouldCrawl(c) \/ Mark(c)
          \/ Allow(c) \/ AddResult(c)
          \/ \E j \in DOMAIN st.jobs : CompleteJob(c, j)
    \/ \E j \in DOMAIN st.jobs : StartJob(j) \/ FailJob(j) \/ CancelJob(j)
    \/ Tick

----------------------------------------------------------------------------
(* Agents, with a budget of two tokens.  live are the ones the runtime    *)
(* tracks, memory the ones its memory store has entries of.               *)

MaxTokens == 2

NewAgentRuntime ==
    [kind |-> "agents", calls |-> 0, agents |-> <<>>, live |-> {}, memory |-> {}]

Mine(owner) == {a \in st.live : st.agents[a].owner = owner}

Off == {"stopped", "failed"}

DeployAgent(c) ==
    /\ At(c, "idle") /\ Calls
    /\ \E o \in Contents :
          /\ Cardinality({a \in Mine(o) : st.agents[a].status \notin Off}) < MaxPerWallet
          /\ Goes(c, [pc |-> "insert", owner |-> o])
    /\ st' = [st EXCEPT !.calls = @ + 1]

insertAgent(c) ==
    /\ At(c, "insert")
    /\ st' = [st EXCEPT !.agents = Append(@, [owner |-> call[c].owner, status |-> "pending",
                                              tokens |-> 0, ended |-> FALSE]),
                        !.live = @ \cup {Len(st.agents) + 1}]
    /\ Goes(c, Idle)

Set(a, status) ==
    /\ st' = [st EXCEPT !.agents[a].status = status, !.agents[a].ended = @ \/ status \in Off]
    /\ UNCHANGED call

Start(a) == st.agents[a].status \in {"pending", "starting"} /\ Set(a, "running")

\* stopAgent of the REST handler.
Stop(a) == st.agents[a].status # "stopped" /\ Set(a, "stopped")

SetError(a) == Set(a, "failed")

RecordPast(a) ==
    /\ st.agents[a].tokens <= MaxTokens
    /\ st' = [st EXCEPT
                !.agents[a] = IF @.tokens + 1 > MaxTokens
                              THEN [@ EXCEPT !.tokens = @ + 1, !.status = "stopped", !.ended = TRUE]
                              ELSE [@ EXCEPT !.tokens = @ + 1]]
    /\ UNCHANGED call

RecordTokens(a) ==
    /\ st.agents[a].tokens <= MaxTokens
    /\ st' = [st EXCEPT
                !.agents[a] = IF @.tokens + 1 >= MaxTokens
                              THEN [@ EXCEPT !.tokens = @ + 1, !.status = "stopped", !.ended = TRUE]
                              ELSE [@ EXCEPT !.tokens = @ + 1]]
    /\ UNCHANGED call

\* The entries of its memory stay.
DeleteAgent(a) ==
    /\ st.agents[a].status \notin {"running", "starting"}
    /\ st' = [st EXCEPT !.live = @ \ {a}]
    /\ UNCHANGED call

\* handleMemory looks the agent up before it reads the body.
handleMemory(c, a) ==
    /\ At(c, "idle") /\ Calls
    /\ st' = [st EXCEPT !.calls = @ + 1]
    /\ Goes(c, [pc |-> "memory", a |-> a])

writeMemory(c) ==
    /\ At(c, "memory")
    /\ \/ st' = [st EXCEPT !.memory = @ \cup {call[c].a}]
       \/ st' = [st EXCEPT !.memory = @ \ {call[c].a}]
    /\ Goes(c, Idle)

Agents ==
    \/ \E c \in Callers :
          \/ DeployAgent(c) \/ insertAgent(c) \/ writeMemory(c)
          \/ \E a \in st.live : handleMemory(c, a)
    \/ \E a \in st.live : Start(a) \/ Stop(a) \/ SetError(a) \/ RecordTokens(a) \/ DeleteAgent(a)

----------------------------------------------------------------------------
(* The threat detector, its probes and the responder (internal/threat).   *)
(* Scores are in thousandths; entered is when the level last rose to high *)
(* or critical, cloned the times of the clones asked for.                 *)

Decay == 1
CloneCooldown == 2
NetworkFailThreshold == 2

\* Weight times confidence, for some of what each probe may record.
Scores ==
    [ network |-> {800}, shutdown |-> {950}, files |-> {680}, processes |-> {390},
      disk |-> {500}, memory |-> {550} ]

NewDetector ==
    [ kind |-> "threat", calls |-> 0, clock |-> 0, signals |-> <<>>, score |-> 0, entered |-> 0,
      run |-> "new", cloned |-> <<>>, prepared |-> FALSE, failures |-> 0, watched |-> TRUE,
      file |-> TRUE ]

Level(score) ==
    CASE score >= 850 -> "critical" [] score >= 650 -> "high"
      [] score >= 400 -> "medium" [] OTHER -> "low"

Worrying == {"high", "critical"}

\* The highest score, and half, a quarter... of the next ones on the rest.
Compound(scores) ==
    FoldLeft(LAMBDA acc, s : <<acc[1] + (s * (1000 - acc[1])) \div (1000 * 2^acc[2]), acc[2] + 1>>,
             <<0, 0>>, scores)[1]

AggregateUnsorted(signals) ==
    LET ids == SetToSeq(DOMAIN signals)
    IN Compound([i \in DOMAIN ids |-> signals[ids[i]].score])

Aggregate(signals) ==
    LET ids == SortSeq(SetToSeq(DOMAIN signals),
                       LAMBDA a, b : signals[a].score > signals[b].score)
    IN Compound([i \in DOMAIN ids |-> signals[ids[i]].score])

\* next is where the caller goes on after the recalculation.
RecordSignal(c, id, s, next) ==
    /\ \E v \in Scores[id] :
          st' = [s EXCEPT !.signals = (id :> [score |-> v, at |-> st.clock]) @@ @]
    /\ Goes(c, [pc |-> "recalculate", next |-> next])

Probes(c, id) ==
    At(c, "idle") /\ Calls /\ RecordSignal(c, id, [st EXCEPT !.calls = @ + 1], "idle")

\* Of any kind, through the API.
RecordExternalSignal(c) == \E id \in DOMAIN Scores : Probes(c, id)

handleSignal(c) == Probes(c, "shutdown")

checkSuspiciousProcesses(c) == Probes(c, "processes")

Then(next) ==
    CASE next \in {"idle", "done"} -> Idle
      [] next = "memory" -> [pc |-> "memory"]
      [] next = "last" -> [pc |-> "recalculate", next |-> "done"]

\* The callbacks run after the unlock.
recalculateThreatLevel(c) ==
    LET new == Aggregate(st.signals) IN
       /\ At(c, "recalculate")
       /\ st' = [st EXCEPT !.score = new,
                           !.entered = IF Level(st.score) \notin Worrying THEN st.clock ELSE @]
       /\ Goes(c, IF Level(new) = Level(st.score) THEN Then(call[c].next)
                  ELSE [pc |-> "respond", score |-> new, next |-> call[c].next])

handleCloneAlways(s, emergency) ==
    [s EXCEPT !.cloned = Append(@, [at |-> s.clock, emergency |-> emergency]), !.prepared = FALSE]

handleClone(s, emergency) ==
    IF ~emergency /\ s.cloned # <<>> /\ s.clock - Last(s.cloned).at < CloneCooldown THEN s
    ELSE [s EXCEPT !.cloned = Append(@, [at |-> s.clock, emergency |-> emergency]),
                   !.prepared = FALSE]

\* The alert of a score from 400 has no state but its cooldown.
handleThreatChange(c) ==
    /\ At(c, "respond")
    /\ st' = CASE call[c].score >= 900 -> handleClone(st, TRUE)
               [] call[c].score \in 650..899 -> handleClone(st, FALSE)
               [] call[c].score \in 500..649 -> [st EXCEPT !.prepared = TRUE]
               [] OTHER -> st
    /\ Goes(c, Then(call[c].next))

Monitors ==
    In({"check", "memory"}) \cup {c \in In({"recalculate", "respond"}) : call[c].next # "idle"}

\* performCheck of the monitor loop: decaySignals first, then the resources.
decaySignals(c) ==
    LET fresh == {id \in DOMAIN st.signals : st.clock - st.signals[id].at <= Decay} IN
    /\ At(c, "idle") /\ Calls /\ st.run = "on" /\ Monitors = {}
    /\ st' = [st EXCEPT !.calls = @ + 1, !.signals = [id \in fresh |-> @[id]]]
    /\ Goes(c, [pc |-> "check"])

checkResourcePressure(c) ==
    /\ At(c, "check")
    /\ \/ RecordSignal(c, "disk", st, "memory")
       \/ Goes(c, Then("memory")) /\ UNCHANGED st

checkMemoryPressure(c) ==
    /\ At(c, "memory")
    /\ \/ RecordSignal(c, "memory", st, "last")
       \/ Goes(c, Then("last")) /\ UNCHANGED st

checkNetworkConnectivity(c) ==
    /\ At(c, "idle") /\ Calls
    /\ \/ st' = [st EXCEPT !.failures = 0, !.calls = @ + 1] /\ UNCHANGED call
       \/ LET counted == [st EXCEPT !.failures = @ + 1, !.calls = @ + 1] IN
          IF counted.failures >= NetworkFailThreshold
          THEN RecordSignal(c, "network", counted, "idle")
          ELSE st' = counted /\ UNCHANGED call

\* A deletion is told once: what is gone is not missed again.
checkFileChanges(c) ==
    /\ At(c, "idle") /\ st.watched # st.file
    /\ LET seen == [st EXCEPT !.watched = st.file] IN
       IF st.watched THEN RecordSignal(c, "files", seen, "idle")
       ELSE st' = seen /\ UNCHANGED call

FileChanges ==
    /\ Calls
    /\ st' = [st EXCEPT !.calls = @ + 1, !.file = ~@]
    /\ UNCHANGED call

\* The level stays as it was until the next recalculation.
ClearSignal ==
    /\ Calls
    /\ \E id \in DOMAIN st.signals :
          st' = [st EXCEPT !.calls = @ + 1, !.signals = [k \in DOMAIN @ \ {id} |-> @[k]]]
    /\ UNCHANGED call

ClearAllSignals ==
    /\ Calls /\ DOMAIN st.signals # {}
    /\ st' = [st EXCEPT !.calls = @ + 1, !.signals = <<>>, !.score = 0]
    /\ UNCHANGED call

\* A detector started again finds its stop channel closed, and a second
\* Stop closes it again.
StartDetector ==
    /\ Calls /\ st.run \in {"new", "stopped"}
    /\ st' = [st EXCEPT !.calls = @ + 1, !.run = IF @ = "new" THEN "on" ELSE "idle"]
    /\ UNCHANGED call

StopDetector ==
    /\ Calls /\ st.run \in {"on", "idle"}
    /\ st' = [st EXCEPT !.calls = @ + 1, !.run = IF @ = "on" THEN "stopped" ELSE "panicked"]
    /\ UNCHANGED call

Threat ==
    \/ \E c \in Callers :
          \/ RecordExternalSignal(c) \/ handleSignal(c) \/ checkSuspiciousProcesses(c)
          \/ checkNetworkConnectivity(c) \/ checkFileChanges(c)
          \/ recalculateThreatLevel(c) \/ handleThreatChange(c)
          \/ decaySignals(c) \/ checkResourcePressure(c) \/ checkMemoryPressure(c)
    \/ FileChanges \/ ClearSignal \/ ClearAllSignals \/ StartDetector \/ StopDetector \/ Tick

----------------------------------------------------------------------------

Init ==
    /\ part \in Parts
    /\ call = [c \in Callers |-> Idle]
    /\ \/ part = "molts" /\ st = NewMoltManager
       \/ part = "deno" /\ st = NewDenoPool
       \/ part = "guests" /\ st \in NewResultStore
       \/ part = "canaries" /\ st \in NewMemoryCanarySet
       \/ part = "crawl" /\ st = NewScheduler
       \/ part = "agents" /\ st = NewAgentRuntime
       \/ part = "threat" /\ st = NewDetector

Next ==
    /\ UNCHANGED part
    /\ \/ part = "molts" /\ Molts
       \/ part = "deno" /\ Deno
       \/ part = "guests" /\ Guests
       \/ part = "canaries" /\ Canaries
       \/ part = "crawl" /\ Crawl
       \/ part = "agents" /\ Agents
       \/ part = "threat" /\ Threat

Spec == Init /\ [][Next]_vars

----------------------------------------------------------------------------

Inside == In({"sem", "start", "guest"})

(* Runtime.Invoke, module_cache.go and the manager: the instances running *)
(* are the ones the semaphore counts and no more than allowed; the gauge  *)
(* counts the callers inside.  The cache keeps within its capacity, one   *)
(* entry per CID, and what it holds is open; a module still open has been *)
(* cached, or its entry was given a later module of the CID.  As long as  *)
(* the node has seen no more CIDs than it can cache, every deployment can *)
(* be invoked until the runtime closes.  The totals add up and are the    *)
(* sum of those per deployment.  A deployment runs the module it brought  *)
(* unless one of its CID was compiled from other bytes before.            *)
MoltsSound ==
    /\ st.sem = Cardinality(In({"start", "guest"})) /\ st.sem <= MaxInstances
    /\ st.active = Cardinality(Inside)
    /\ Len(st.cache) <= MaxCache
    /\ \A e, f \in Range(st.cache) :
          /\ ~st.ended => st.mods[st.entries[e].mod].open
          /\ st.entries[e].cid = st.entries[f].cid => e = f
    /\ \A m \in DOMAIN st.mods : st.mods[m].open =>
          \/ \E e \in Range(st.cache) : st.entries[e].mod = m
          \/ \E c \in In({"put"}) : call[c].mod = m
          \/ \E n \in DOMAIN st.mods \ {m} : st.mods[n].cid = st.mods[m].cid
    /\ Cardinality({m.cid : m \in Range(st.mods)}) <= MaxCache /\ ~st.ended =>
          \A d \in Range(st.deps) : Code(st.mods[d.mod].bytes)
    /\ st.stats.total = st.stats.success + st.stats.errors + st.stats.timeouts
    /\ st.stats.total = FoldSet(LAMBDA i, sum : sum + st.per[i].total, 0, Keys)
    /\ \A d \in Range(st.deps) :
          /\ st.mods[d.mod].cid = d.cid
          /\ st.mods[d.mod].bytes # d.bytes =>
                \E m \in Range(st.mods) : m.cid = d.cid /\ m.bytes # d.bytes

Holding == In({"check", "invoke", "top", "read", "release"})

(* DenoPool and DenoWorker: every worker is in the channel, with one      *)
(* caller, or was given up when no replacement could be started.  An      *)
(* answer goes to the request it is for unless its worker came back after *)
(* a request that was given up.  A caller that waits for a line will get  *)
(* one, unless the handler awaits the answer to a host call, which the    *)
(* loop of bindings.ts reads only after the handler.  No caller panics    *)
(* unless it met a Close.                                                 *)
DenoSound ==
    /\ ~st.closed => Len(st.available) + Cardinality(Holding) + st.lost = PoolSize
    /\ \A c, d \in Holding : call[c].w = call[d].w => c = d
    /\ \A c \in Holding : call[c].w \notin Range(st.available)
    /\ \A w \in st.odd : st.procs[w].late
    /\ \A c \in In({"read"}) :
          \/ Worker(c).out # <<>> \/ Worker(c).inq # <<>>
          \/ Worker(c).js \in {"handling", "exited", "waiting"}
    /\ In({"panicked"}) # {} => st.closed

(* ResultStore shared by all invocations: until its counter wraps, a      *)
(* result's handle is positive and an error's negative, no two guests     *)
(* hold the same handle, what a guest holds is there and what it reads is *)
(* the answer to its own call.                                            *)
GuestsSound ==
    ~st.wrapped =>
       /\ \A c \in In({"holds"}) :
             /\ IF call[c].error THEN call[c].h < 0 ELSE call[c].h > 0
             /\ call[c].h \in DOMAIN st.data /\ st.data[call[c].h].of = c
       /\ \A c \in In({"read"}) :
             call[c].got # Nothing /\ call[c].got.of = c /\ call[c].got.n = call[c].n

(* MemoryCanarySet.Plant: the canaries lie after the first page and       *)
(* before the guard zone and do not overlap, so that a wild write spoils  *)
(* at most one and Verify accounts for each.                              *)
CanariesSound ==
    /\ \A i \in DOMAIN st.at :
          st.at[i] >= Page /\ st.at[i] + CanarySize <= st.size - CanaryGuardZone
    /\ \A i, j \in DOMAIN st.at : i < j => st.at[i] + CanarySize <= st.at[j]
    /\ st.planted = "yes" =>
          Verify.intact + Verify.violated = st.count /\ Verify.violated <= Cardinality(st.wild)

(* Scheduler: a wallet has no more active jobs than allowed, plus one per *)
(* other request that counted at the same time; a job that ended does not *)
(* become active again; a URL is crawled at most once per crawler that    *)
(* asked at the same time; the domain is left alone for the interval; and *)
(* a job completed once, with no result after, is billed for its pages.   *)
CrawlSound ==
    /\ \A o \in Contents \cup {Nothing} :
          Active(st.jobs, o, Finals) < MaxPerWallet + Cardinality(Callers)
    /\ \A j \in Range(st.jobs) : j.ended => j.status \in Finals
    /\ \A u \in Keys : st.visits[u] <= Cardinality(Callers)
    /\ \A i \in 2..Len(st.fetched) : st.fetched[i] - st.fetched[i - 1] >= Interval
    /\ \A j \in DOMAIN st.jobs :
          /\ st.jobs[j].done = 1 /\ st.jobs[j].after = 0 /\ (\A c \in In({"meter"}) : call[c].j # j)
                => st.jobs[j].billed = st.jobs[j].pages
          /\ st.jobs[j].done = 0 => st.jobs[j].billed = 0

(* AgentRuntime: a wallet has no more agents that are not off than        *)
(* allowed, plus one per other request that counted at the same time; an  *)
(* agent that used its budget is off, and one that is off never runs.     *)
AgentsSound ==
    /\ \A o \in Contents :
          Cardinality({a \in Mine(o) : st.agents[a].status \notin Off})
             < MaxPerWallet + Cardinality(Callers)
    /\ \A a \in Range(st.agents) :
          /\ a.tokens >= MaxTokens => a.status \in Off
          /\ a.ended => a.status \in Off

Settled == In({"recalculate", "respond"}) = {}

(* Detector, ProbeManager and Responder: the score is at least that of    *)
(* the worst signal it was computed from and never above one.  Clones     *)
(* that are no emergency keep the cooldown from the one before.  When the *)
(* level is high or critical and every callback has returned, a clone was *)
(* asked for since the level rose, or in the cooldown before.             *)
ThreatSound ==
    /\ st.score \in 0..1000
    /\ LET all == Aggregate(st.signals) IN
       \A id \in DOMAIN st.signals : st.signals[id].score <= all
    /\ \A i \in 2..Len(st.cloned) :
          ~st.cloned[i].emergency => st.cloned[i].at - st.cloned[i - 1].at >= CloneCooldown
    /\ Settled /\ Level(st.score) \in Worrying =>
          st.cloned # <<>> /\ st.entered - Last(st.cloned).at < CloneCooldown

(* The workloads of a node keep their books; each part states its own.    *)
WorkloadsSound ==
    /\ part = "molts" => MoltsSound
    /\ part = "deno" => DenoSound
    /\ part = "guests" => GuestsSound
    /\ part = "canaries" => CanariesSound
    /\ part = "crawl" => CrawlSound
    /\ part = "agents" => AgentsSound
    /\ part = "threat" => ThreatSound
==========================================================================
