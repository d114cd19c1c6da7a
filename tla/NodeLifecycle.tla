---------------------------- MODULE NodeLifecycle ----------------------------
(* The life of a node on its host: the daemon's main (cmd/daemon) from its  *)
(* first check to its last deferred call, and the commands that start, stop *)
(* and set it up (cmd/cli/commands), with the keys, wallet, passwords and   *)
(* certificates they keep (internal/identity, internal/security) and the    *)
(* doctor.  The parts share no state; a behaviour exercises one of them.    *)
(*   processes  daemons that start, serve, stop and die beside one another  *)
(*   setup      what init, install, wallet, keys and config leave behind    *)
(*   certs      the certificate rotator across crashes and days             *)
(*   doctor     the checks, their fixes and the report                      *)
EXTENDS Naturals, Sequences, FiniteSets

CONSTANTS
  Parts,      \* the parts exercised, one in each behaviour
  Procs,      \* daemon processes, each started at most once
  Terminals,  \* terminals in which a command is typed
  Nothing,
  MaxCalls,   \* bound on commands typed
  MaxFaults   \* bound on kills, crashes and reboots

VARIABLES
  part,       \* the part exercised
  node,       \* what is on the host: processes and files
  cli,        \* the command being typed
  calls,      \* commands typed so far
  faults      \* faults so far

lifecycle == <<part, node, cli, calls, faults>>

Quiet == [op |-> "", pc |-> "idle", p |-> Nothing, end |-> ""]

CanType == cli.pc = "idle" /\ calls < MaxCalls

Typed(c) == cli' = c /\ calls' = calls + 1 /\ UNCHANGED faults

Told(end) == cli' = [cli EXCEPT !.pc = "idle", !.end = end] /\ UNCHANGED <<calls, faults>>

----------------------------------------------------------------------------
(* Processes.  node.pc is what a process does next; pid, sock, lock and     *)
(* port are the owners of the PID file, the socket's path, the database's   *)
(* file lock and the P2P port.  term marks a SIGTERM on its way, crossed    *)
(* (a record for the properties) the processes that wrote their PID file    *)
(* beside another daemon, or lost it to a stop that was meant for another.  *)

\* signal.Notify comes after these: SIGTERM still ends the process at once.
Unguarded == {"load", "check", "stale", "write", "open", "prepare"}

\* From apiServer.Start to apiServer.Stop.
Listening == {"ingress", "certs", "snapshots", "http", "run", "quiet", "unserve"}

\* The shutdown goroutine, which 30 seconds bound.
Stopping == {"quiet", "unserve", "settle", "save", "leave", "unmark"}

NewHost ==
  [pc |-> [p \in Procs |-> "unborn"], exit |-> [p \in Procs |-> ""], term |-> {}, crossed |-> {},
   pid |-> Nothing, sock |-> Nothing, lock |-> Nothing, port |-> Nothing,
   unit |-> FALSE, main |-> Nothing]

IsAlive(p) == p \in Procs /\ node.pc[p] \notin {"unborn", "dead"}

Untouched == UNCHANGED <<cli, calls, faults>>

Goes(n, p, step) == node' = [n EXCEPT !.pc[p] = step]

\* The end of a process frees its lock and port; its files stay behind.
Dead(n, p, how) ==
  [n EXCEPT !.pc[p] = "dead", !.exit[p] = how, !.term = @ \ {p},
            !.lock = IF @ = p THEN Nothing ELSE @, !.port = IF @ = p THEN Nothing ELSE @]

\* log.Fatalf: no deferred call runs.
Fatal(p) == node' = Dead(node, p, "fatal")

\* os.Remove(pidPath) removes whatever is there.
RemovePIDFile(n) == [n EXCEPT !.pid = Nothing]

loadConfig(p) ==
  /\ node.pc[p] = "load"
  /\ Goes(node, p, "check") \/ Fatal(p)

checkNoProcess(p) ==
  /\ node.pc[p] = "check"
  /\ Goes(node, p, IF node.pid = Nothing THEN "write" ELSE "stale")

\* checkAndWritePIDFile reads the file and asks for the process, removes a
\* stale file, and writes its own.
checkPIDFile(p) ==
  /\ node.pc[p] = "check"
  /\ IF IsAlive(node.pid) THEN Fatal(p)
     ELSE Goes(node, p, IF node.pid = Nothing THEN "write" ELSE "stale")

removeStale(p) == node.pc[p] = "stale" /\ Goes(RemovePIDFile(node), p, "write")

writePIDFile(p) ==
  /\ node.pc[p] = "write"
  /\ \/ Goes([node EXCEPT !.pid = p,
                           !.crossed = IF \E q \in Procs \ {p} : IsAlive(q) THEN @ \cup {p} ELSE @],
               p, "open")
     \/ Fatal(p)

\* state.LoadOrCreateStateKey and NewBboltStore, which waits one second for
\* the lock of the file.
openState(p) ==
  /\ node.pc[p] = "open"
  /\ \/ node.lock = Nothing /\ Goes([node EXCEPT !.lock = p], p, "prepare")
     \/ Fatal(p)

\* The AppArmor profile, the migration and the rotation sweep only warn.
prepare(p) == node.pc[p] = "prepare" /\ Goes(node, p, "create")

NewNodeWithConfig(p) ==
  /\ node.pc[p] = "create"
  /\ Goes(node, p, "unlock") \/ Fatal(p)

\* Then the ban list, address book and pins, which only warn.
loadWallet(p) ==
  /\ node.pc[p] = "unlock"
  /\ Goes(node, p, "listen") \/ Fatal(p)

startNode(p) ==
  /\ node.pc[p] = "listen"
  /\ \/ node.port = Nothing /\ Goes([node EXCEPT !.port = p], p, "pay")
     \/ Fatal(p)

\* NewPaymentService and Start: fatal, or the mock where the config has it.
startPayments(p) ==
  /\ node.pc[p] = "pay"
  /\ Goes(node, p, "serve") \/ Fatal(p)

\* APIServer.Start removes whatever socket is there.  Without a container
\* manager it closes its listener again, which removes the path.
serveSocket(p) ==
  /\ node.pc[p] = "serve"
  /\ \/ Goes([node EXCEPT !.sock = p], p, "ingress")
     \/ node' = Dead([node EXCEPT !.sock = Nothing], p, "fatal")
     \/ Fatal(p)

\* The event consumers, the tunnels and the ingress only warn.
startIngress(p) == node.pc[p] = "ingress" /\ Goes(node, p, "certs")

startCerts(p) ==
  /\ node.pc[p] = "certs"
  /\ Goes(node, p, "snapshots") \/ Fatal(p)

\* Threat detection, snapshots and their keys, checkpoints, cloning.
startSnapshots(p) ==
  /\ node.pc[p] = "snapshots"
  /\ Goes(node, p, "http") \/ Fatal(p)

\* Storage, proxy and the HTTP server, whose failure to bind goes unnoticed.
startHTTP(p) ==
  /\ node.pc[p] = "http"
  /\ Goes(node, p, "run") \/ Fatal(p)

receiveSignal(p) ==
  /\ p \in node.term
  /\ \/ node.pc[p] \in Unguarded /\ node' = Dead(node, p, "killed")
     \/ node.pc[p] = "run" /\ Goes(node, p, "quiet")

\* The shutdown goroutine: edge traffic and HTTP, the socket, escrows and
\* payments, the lists on disk, the node, the PID file; then the deferred
\* calls in reverse order.
stopTraffic(p) == node.pc[p] = "quiet" /\ Goes(node, p, "unserve")

stopSocket(p) ==
  /\ node.pc[p] = "unserve"
  /\ Goes([node EXCEPT !.sock = Nothing], p, "settle")

finalizeEscrows(p) == node.pc[p] = "settle" /\ Goes(node, p, "save")

saveLists(p) == node.pc[p] = "save" /\ Goes(node, p, "leave")

shutdownNode(p) ==
  /\ node.pc[p] = "leave"
  /\ Goes([node EXCEPT !.port = Nothing], p, "unmark")

unmark(p) == node.pc[p] = "unmark" /\ Goes(RemovePIDFile(node), p, "close")

closeState(p) == node.pc[p] = "close" /\ Goes([node EXCEPT !.lock = Nothing], p, "return")

returnMain(p) ==
  /\ node.pc[p] = "return"
  /\ node' = Dead(RemovePIDFile(node), p, "clean")

forceExit(p) == node.pc[p] \in Stopping /\ node' = Dead(node, p, "forced")

main(p) ==
  \/ loadConfig(p) \/ checkPIDFile(p) \/ removeStale(p) \/ writePIDFile(p) \/ openState(p)
  \/ prepare(p) \/ NewNodeWithConfig(p) \/ loadWallet(p) \/ startNode(p) \/ startPayments(p)
  \/ serveSocket(p) \/ startIngress(p) \/ startCerts(p) \/ startSnapshots(p) \/ startHTTP(p)
  \/ receiveSignal(p) \/ stopTraffic(p) \/ stopSocket(p) \/ finalizeEscrows(p) \/ saveLists(p)
  \/ shutdownNode(p) \/ unmark(p) \/ closeState(p) \/ returnMain(p) \/ forceExit(p)

Kill(p) ==
  /\ IsAlive(p) /\ faults < MaxFaults
  /\ node' = Dead(node, p, "killed")
  /\ faults' = faults + 1 /\ UNCHANGED <<cli, calls>>

\* The daemons that answer on the socket; one that is shutting down may.
Answering == {p \in Procs : node.sock = p /\ node.pc[p] \in Listening}

Spawn(n, p) == [n EXCEPT !.pc[p] = "load"]

runStart ==
  /\ CanType
  /\ \/ Answering # {} /\ Typed([Quiet EXCEPT !.op = "start", !.end = "already"])
     \/ /\ \A p \in Answering : node.pc[p] # "run"
        /\ Typed([Quiet EXCEPT !.op = "start", !.pc = "start"])
  /\ UNCHANGED node

\* The PID file, node.key, preflightWalletCheck; then systemd or a process.
startBackgroundDaemon ==
  /\ cli.pc = "start"
  /\ \/ IsAlive(node.pid) /\ Told("already") /\ UNCHANGED node
     \/ ~IsAlive(node.pid) /\ Told("refused") /\ UNCHANGED node
     \/ /\ ~IsAlive(node.pid) /\ ~node.unit
        /\ \E p \in Procs :
             /\ node.pc[p] = "unborn" /\ node' = Spawn(node, p)
             /\ cli' = [cli EXCEPT !.pc = "wait", !.p = p]
             /\ UNCHANGED <<calls, faults>>
     \/ /\ ~IsAlive(node.pid) /\ node.unit
        /\ IF IsAlive(node.main) THEN UNCHANGED node
           ELSE \E p \in Procs :
                  node.pc[p] = "unborn" /\ node' = [Spawn(node, p) EXCEPT !.main = p]
        /\ Told("started")

\* The daemon's binary, started by hand.
launch ==
  /\ CanType
  /\ \E p \in Procs : node.pc[p] = "unborn" /\ node' = Spawn(node, p)
  /\ Typed([Quiet EXCEPT !.op = "launch"])

\* startDaemonProcess after two seconds, and three more.
startDaemonProcess ==
  /\ cli.pc = "wait"
  /\ \/ Answering # {} /\ Told("started")
     \/ Answering = {} /\ IsAlive(cli.p) /\ Told("starting")
     \/ Answering = {} /\ ~IsAlive(cli.p) /\ Told("failed")
  /\ UNCHANGED node

\* Restart=always of the installed unit.
Supervise ==
  /\ node.unit /\ node.main # Nothing /\ ~IsAlive(node.main)
  /\ \E p \in Procs : node.pc[p] = "unborn" /\ node' = [Spawn(node, p) EXCEPT !.main = p]
  /\ Untouched

\* stopWithSystemd: the unit is no longer wanted and its process told.
stopWithSystemd ==
  /\ CanType /\ IsAlive(node.main)
  /\ node' = [node EXCEPT !.term = @ \cup {node.main}, !.main = Nothing]
  /\ Typed([Quiet EXCEPT !.op = "stop", !.end = "stopped"])

\* stopDaemonProcess up to the signal ...
stopDaemonProcess ==
  /\ CanType /\ ~IsAlive(node.main)
  /\ LET c == [Quiet EXCEPT !.op = "stop"]
     IN  \/ node.pid = Nothing /\ Typed([c EXCEPT !.end = "not running"]) /\ UNCHANGED node
         \/ /\ node.pid # Nothing /\ ~IsAlive(node.pid)
            /\ Typed([c EXCEPT !.end = "error"]) /\ UNCHANGED node
         \/ /\ IsAlive(node.pid)
            /\ node' = [node EXCEPT !.term = @ \cup {node.pid}]
            /\ Typed([c EXCEPT !.pc = "remove", !.p = node.pid])

\* ... and the PID file, whoever it belongs to by now.
stopRemove ==
  /\ cli.pc = "remove"
  /\ node' = [RemovePIDFile(node) EXCEPT !.crossed = @ \cup ({node.pid} \ {cli.p, Nothing})]
  /\ Told("stopped")

Processes ==
  \/ \E p \in Procs : main(p) /\ Untouched
  \/ \E p \in Procs : Kill(p)
  \/ runStart \/ startBackgroundDaemon \/ launch \/ startDaemonProcess \/ Supervise
  \/ stopWithSystemd \/ stopDaemonProcess \/ stopRemove

\* A daemon that listens keeps its socket until it closes it itself: neither
\* a second daemon's start nor the end of an earlier one takes the path away.
SocketKept == \A p \in Procs : node.pc[p] \in Listening => node.sock = p

\* A daemon that ended as it should leaves neither socket nor PID file.
CleanExit == \A p \in Procs : node.exit[p] = "clean" => node.sock # p /\ node.pid # p

\* A serving daemon that started alone keeps its PID file, by which stop finds
\* it, until it is told to stop: no later start gets past it.
PIDFileKept ==
  \A p \in Procs \ (node.crossed \cup node.term) : node.pc[p] = "run" => node.pid = p

ProcessesSound == SocketKept /\ CleanExit /\ PIDFileKept

----------------------------------------------------------------------------
(* Setup.  Two terminals, each with one command.  A file is "none", "empty" *)
(* (os.WriteFile truncates before it writes), "old", or what a terminal     *)
(* wrote; accounts are in the order of their files, each with its password. *)
(* init and install take a directory; only ~/.moltbunker ("home") is where  *)
(* the other commands look.                                                 *)

Dirs == {"home", "other"}
Sources == {"env", "file", "platform", "kernel"}
Ready == [cmd |-> "", pc |-> "idle", dir |-> "home", had |-> FALSE, ow |-> FALSE, gen |-> FALSE,
          held |-> FALSE, made |-> FALSE, end |-> ""]

\* pass is where a password is kept, rings which keyrings answer, consent the
\* files somebody agreed to give up, raced the files two commands were
\* creating at once, auto whose wallet was promised to open by itself, was
\* what was there at first.
NewSetup(cfg, key, req, wallets, stale, rings) ==
  [cfg |-> cfg, key |-> key, req |-> req, wallets |-> wallets,
   pass |-> [x \in Sources |-> IF x \in stale THEN "lost" ELSE Nothing], rings |-> rings,
   auto |-> Nothing, consent |-> {}, raced |-> FALSE,
   was |-> [cfg |-> cfg, key |-> key, req |-> req, wallets |-> wallets]]

Existing == {"none", "old"}

\* A host with some of the files, or one with all but a wallet, where earlier
\* passwords and missing keyrings matter.
SetupInit ==
  /\ \/ \E c, k \in Existing, e \in {"none", "empty"}, w \in BOOLEAN :
          /\ k = "old" => e = "none"
          /\ node = NewSetup([d \in Dirs |-> c], [home |-> k, other |-> e], k,
                             IF w THEN <<"old">> ELSE <<>>, {}, {"platform", "kernel"})
     \/ \E held \in {<<"env", {}>>, <<"env", {"kernel"}>>, <<"file", {"kernel"}>>,
                     <<"platform", {"platform", "kernel"}>>} :
          node = NewSetup([d \in Dirs |-> "old"], [d \in Dirs |-> "old"], "old", <<>>, {held[1]}, held[2])
  /\ cli = [t \in Terminals |-> Ready]

Step(t, pc) == cli' = [cli EXCEPT ![t].pc = pc]
Ends(t, how) == cli' = [cli EXCEPT ![t].pc = "done", ![t].end = how]
Still == UNCHANGED node

\* Who has a file of this directory open; its text is lost with the name.
Writing(dir, pc) == {t \in Terminals : cli[t].dir = dir /\ cli[t].pc = pc}
Unlinked(ts) == [t \in Terminals |-> [cli[t] EXCEPT !.held = @ /\ t \notin ts]]
Opens(t, pc) == cli' = [cli EXCEPT ![t].pc = pc, ![t].held = TRUE]

Types(t, job) == cli[t].pc = "idle" /\ cli' = [cli EXCEPT ![t] = job]

\* The form of runInit: what exists is looked up before it is filled in.
runInit(t) ==
  \E dir \in Dirs, gen, ow, make \in BOOLEAN :
    /\ ow => node.cfg.home # "none"
    /\ make => node.wallets = <<>>
    /\ Types(t, [Ready EXCEPT !.cmd = "init", !.pc = IF make THEN "wallet" ELSE "config", !.dir = dir,
                              !.had = node.cfg.home # "none", !.ow = ow, !.gen = gen])
    /\ node' = [node EXCEPT !.consent = IF ow THEN @ \cup {dir} ELSE @]

\* A wallet is created or imported unless one is there: at most three
\* attempts at a key and three at a password, then the account.
newWalletCreateCmd(t) ==
  /\ Types(t, IF node.wallets = <<>> THEN [Ready EXCEPT !.cmd = "wallet", !.pc = "wallet"]
              ELSE [Ready EXCEPT !.pc = "done", !.end = "wallet already exists"])
  /\ Still

newWalletImportCmd(t) ==
  /\ node.wallets = <<>>
  /\ \E good \in BOOLEAN :
       Types(t, IF good THEN [Ready EXCEPT !.cmd = "wallet", !.pc = "wallet"]
                ELSE [Ready EXCEPT !.pc = "done", !.end = "too many failed attempts"])
  /\ Still

AfterWallet(t, how) == IF cli[t].cmd = "init" THEN Step(t, "config") ELSE Ends(t, how)

readPasswords(t) ==
  /\ cli[t].pc = "wallet"
  /\ Step(t, "look") \/ AfterWallet(t, "too many failed attempts")
  /\ Still

\* CreateWalletManager and ImportWalletManager look ...
CreateWalletManager(t) ==
  /\ cli[t].pc = "look"
  /\ IF node.wallets = <<>> THEN Step(t, "account") ELSE AfterWallet(t, "wallet already exists")
  /\ Still

\* ... and write.
NewAccount(t) ==
  /\ cli[t].pc = "account"
  /\ node' = [node EXCEPT !.wallets = Append(@, t), !.raced = @ \/ node.wallets # <<>>]
  /\ Step(t, "store")

StoreKernelOnly(t) ==
  /\ cli[t].pc = "store"
  /\ node' = IF "kernel" \in node.rings THEN [node EXCEPT !.pass["kernel"] = t, !.auto = t] ELSE node
  /\ AfterWallet(t, "created")

\* The platform's keyring, else the kernel's, else a hint.
storePasswordInKeyring(t) ==
  /\ cli[t].pc = "store"
  /\ node' = IF "platform" \in node.rings THEN [node EXCEPT !.pass["platform"] = t, !.auto = t]
             ELSE IF "kernel" \in node.rings THEN [node EXCEPT !.pass["kernel"] = t, !.auto = t]
             ELSE node
  /\ AfterWallet(t, "created")

\* Step 2 of runInit, by what the form saw in ~/.moltbunker.
writeConfig(t) ==
  /\ cli[t].cmd = "init" /\ cli[t].pc = "config"
  /\ \/ /\ cli[t].had => cli[t].ow
        /\ node' = [node EXCEPT !.cfg[cli[t].dir] = "empty"] /\ Step(t, "configured")
     \/ /\ cli[t].had => cli[t].ow
        /\ Ends(t, "failed to write config") /\ Still
     \/ /\ cli[t].had /\ ~cli[t].ow
        /\ Step(t, IF cli[t].gen THEN "remove" ELSE "close") /\ Still

configWritten(t) ==
  /\ cli[t].pc = "configured"
  /\ node' = [node EXCEPT !.cfg[cli[t].dir] = t]
  /\ CASE cli[t].cmd = "init" -> Step(t, IF cli[t].gen THEN "remove" ELSE "close")
       [] OTHER -> Ends(t, "done")

\* Step 3: an empty key file is removed first.
removeEmptyKey(t) ==
  /\ cli[t].pc = "remove"
  /\ IF node.key[cli[t].dir] = "empty"
     THEN /\ node' = [node EXCEPT !.key[cli[t].dir] = "none", !.raced = @ \/ Writing(cli[t].dir, "save") # {}]
          /\ cli' = [Unlinked(Writing(cli[t].dir, "save")) EXCEPT ![t].pc = "key"]
     ELSE Step(t, "key") /\ Still

GenerateAlways(t) ==
  /\ cli[t].pc = "key"
  /\ Step(t, "generate") /\ Still

\* A key that cannot be read is an error; only a missing one is generated.
NewKeyManager(t) ==
  /\ cli[t].pc = "key"
  /\ CASE node.key[cli[t].dir] = "none" -> Step(t, "generate")
       [] node.key[cli[t].dir] = "empty" ->
            IF cli[t].cmd = "init" THEN Step(t, "close") ELSE Ends(t, "failed to generate keys")
       [] OTHER -> Step(t, IF cli[t].cmd = "install" THEN "installed" ELSE "close")
  /\ Still

SaveKeys(t) ==
  \/ /\ cli[t].pc = "generate"
     /\ node' = [node EXCEPT !.key[cli[t].dir] = "empty",
                             !.raced = @ \/ node.key[cli[t].dir] # "none"]
     /\ Opens(t, "save")
  \/ /\ cli[t].pc = "save"
     /\ node' = IF cli[t].held THEN [node EXCEPT !.key[cli[t].dir] = t] ELSE node
     /\ cli' = [cli EXCEPT ![t].pc = IF cli[t].cmd = "install" THEN "installed" ELSE "close", ![t].made = TRUE]

closeInit(t) == cli[t].pc = "close" /\ Ends(t, "done") /\ Still

\* runInstall: keys and a default configuration where there are none.
runInstall(t) ==
  /\ \E dir \in Dirs :
       Types(t, [Ready EXCEPT !.cmd = "install", !.dir = dir,
                              !.pc = IF node.key[dir] = "none" THEN "key" ELSE "installed"])
  /\ Still

installConfig(t) ==
  /\ cli[t].pc = "installed"
  /\ IF node.cfg[cli[t].dir] = "none"
     THEN node' = [node EXCEPT !.cfg[cli[t].dir] = "empty"] /\ Step(t, "configured")
     ELSE Ends(t, "done") /\ Still

\* An empty file parses to a nil map, on which setNestedValue panics.
NewConfigSetCmd(t) ==
  /\ CASE node.cfg.home = "none" -> Types(t, [Ready EXCEPT !.pc = "done", !.end = "failed to read"]) /\ Still
       [] node.cfg.home = "empty" -> Types(t, [Ready EXCEPT !.pc = "done", !.end = "panic"]) /\ Still
       [] OTHER -> /\ Types(t, [Ready EXCEPT !.cmd = "set", !.pc = "set"])
                   /\ node' = [node EXCEPT !.consent = @ \cup {"home"}]

saveConfigFile(t) ==
  /\ cli[t].pc = "set"
  /\ node' = [node EXCEPT !.cfg.home = "empty"] /\ Step(t, "configured")

newRequesterKeysInitCmd(t) ==
  /\ Types(t, IF node.req = "none" THEN [Ready EXCEPT !.cmd = "keys", !.pc = "passphrase"]
              ELSE [Ready EXCEPT !.pc = "done", !.end = "keys already exist"])
  /\ Still

\* The passphrases, the keys and the file.
saveRequesterKeys(t) ==
  \/ cli[t].pc = "passphrase" /\ Ends(t, "refused") /\ Still
  \/ /\ cli[t].pc = "passphrase"
     /\ node' = [node EXCEPT !.req = "empty", !.raced = @ \/ node.req # "none"]
     /\ Opens(t, "sealed")
  \/ /\ cli[t].pc = "sealed"
     /\ node' = IF cli[t].held THEN [node EXCEPT !.req = t] ELSE node
     /\ Ends(t, "done")

newRequesterKeysDeleteCmd(t) ==
  /\ cli[t].pc = "idle"
  /\ \/ /\ cli' = [cli EXCEPT ![t] = [Ready EXCEPT !.pc = "done", !.end = "warned"]] /\ Still
     \/ /\ node.req = "none"
        /\ cli' = [cli EXCEPT ![t] = [Ready EXCEPT !.pc = "done", !.end = "no keys found"]] /\ Still
     \/ /\ node.req # "none"
        /\ node' = [node EXCEPT !.req = "none", !.consent = @ \cup {"req"}]
        /\ cli' = [Unlinked(Writing("home", "sealed"))
                     EXCEPT ![t] = [Ready EXCEPT !.pc = "done", !.end = "deleted"]]

newWalletForgetPasswordCmd(t) ==
  /\ Types(t, [Ready EXCEPT !.pc = "done", !.end = "forgotten"])
  /\ node' = [node EXCEPT !.pass = [x \in Sources |-> IF x \in node.rings THEN Nothing ELSE @[x]],
                          !.auto = Nothing]

\* The kernel's keyring is memory, and a command dies where it stands.
Reboot ==
  /\ faults < MaxFaults /\ faults' = faults + 1 /\ UNCHANGED calls
  /\ node' = [node EXCEPT !.pass["kernel"] = Nothing, !.auto = IF node.pass["kernel"] = @ THEN Nothing ELSE @]
  /\ cli' = [t \in Terminals |-> IF cli[t].pc = "idle" THEN cli[t]
                                ELSE [cli[t] EXCEPT !.pc = "done", !.end = "rebooted"]]

\* The password the daemon (cmd/daemon) and the commands settle on.
FirstOf(order) ==
  LET held == {i \in 1..Len(order) : node.pass[order[i]] # Nothing}
  IN  IF held = {} THEN Nothing ELSE node.pass[order[CHOOSE i \in held : \A j \in held : i <= j]]

resolveWalletPassword == FirstOf(<<"env", "file", "platform", "kernel">>)

resolveCLIPassword == FirstOf(<<"platform", "kernel", "env", "file">>)

\* What start looks for before it starts a daemon, to hand it on.
preflightWalletCheck == FirstOf(<<"platform", "kernel", "env">>)

Setup ==
  \/ /\ \E t \in Terminals :
          \/ runInit(t) \/ newWalletCreateCmd(t) \/ newWalletImportCmd(t) \/ readPasswords(t)
          \/ CreateWalletManager(t) \/ NewAccount(t)
          \/ storePasswordInKeyring(t) \/ writeConfig(t) \/ configWritten(t) \/ removeEmptyKey(t)
          \/ NewKeyManager(t) \/ SaveKeys(t) \/ closeInit(t) \/ runInstall(t) \/ installConfig(t)
          \/ NewConfigSetCmd(t) \/ saveConfigFile(t) \/ newRequesterKeysInitCmd(t) \/ saveRequesterKeys(t)
          \/ newRequesterKeysDeleteCmd(t) \/ newWalletForgetPasswordCmd(t)
     /\ UNCHANGED <<calls, faults>>
  \/ Reboot

\* No command replaces the wallet or a node's key; requester keys go only
\* with delete --confirm, and the configuration in ~/.moltbunker only where
\* init's question was answered so, or by config set.
NothingLost ==
  /\ \A d \in Dirs : node.was.key[d] = "old" => node.key[d] = "old"
  /\ node.was.wallets # <<>> => node.wallets = node.was.wallets
  /\ node.was.req = "old" => node.req = "old" \/ "req" \in node.consent
  /\ node.was.cfg.home = "old" => node.cfg.home = "old" \/ "home" \in node.consent

\* The identity a command generated is the one the node has from then on,
\* unless two commands were generating it at once.
IdentityKept ==
  \A t \in Terminals : cli[t].made /\ ~node.raced => node.key[cli[t].dir] = t

\* A wallet that was promised to open by itself does, for the commands; for
\* the daemon too, unless its environment or password file holds another
\* wallet's password.
OpensByItself ==
  node.auto # Nothing /\ ~node.raced =>
    /\ resolveCLIPassword = node.wallets[1] /\ preflightWalletCheck = node.wallets[1]
    /\ resolveWalletPassword = node.wallets[1] \/ "lost" \in {node.pass["env"], node.pass["file"]}

SetupSound == NothingLost /\ IdentityKept /\ OpensByItself

----------------------------------------------------------------------------
(* Certificates.  Days are check intervals; the certificate and its key are *)
(* two files, written one after the other.  id is the node's key, which an  *)
(* operator may have replaced while the daemon was down.                    *)

Lifetime == 3     \* days a certificate is valid (365)
RenewBefore == 1  \* days before its end at which it is renewed (30)
LastDay == 6      \* bound on the days that pass

NewCerts == [now |-> 0, id |-> 1, cert |-> Nothing, key |-> 0, cur |-> Nothing, since |-> 0,
             up |-> FALSE, pc |-> "idle", failed |-> FALSE]

\* NewCertRotator takes what the two files hold; Start rotates at once only
\* when there was nothing to take.
startRotator ==
  /\ ~node.up
  /\ LET none == node.cert = Nothing \/ node.key = 0
     IN  node' = [node EXCEPT !.up = TRUE, !.since = node.now, !.failed = FALSE,
                              !.cur = IF none THEN Nothing ELSE [node.cert EXCEPT !.key = node.key],
                              !.pc = IF none THEN "rotate" ELSE "idle"]
  /\ Untouched

\* Rotate: the certificate's file, the key's file, then the one in use.
Rotate ==
  /\ \/ /\ node.pc = "rotate"
        /\ node' = [node EXCEPT !.cert = [id |-> node.id, key |-> node.id, end |-> node.now + Lifetime],
                                !.pc = "key"]
     \/ node.pc = "key" /\ node' = [node EXCEPT !.key = node.id, !.pc = "use"]
     \/ node.pc \in {"rotate", "key"} /\ node' = [node EXCEPT !.pc = "idle", !.failed = TRUE]
     \/ node.pc = "use" /\ node' = [node EXCEPT !.cur = node.cert, !.pc = "idle", !.failed = FALSE]
  /\ Untouched

RenewsAtEnd(now) == node.cur = Nothing \/ now > node.cur.end

NeedsRenewal(now) == node.cur = Nothing \/ now + RenewBefore > node.cur.end

\* A day passes, and the rotator of a daemon that is up checks.
tick ==
  /\ node.now < LastDay /\ node.pc = "idle"
  /\ node' = [node EXCEPT !.now = @ + 1,
                          !.pc = IF node.up /\ NeedsRenewal(node.now + 1) THEN "rotate" ELSE @]
  /\ Untouched

stopRotator ==
  /\ node.up /\ faults < MaxFaults
  /\ \E id \in {node.id, 2} : node' = [node EXCEPT !.up = FALSE, !.pc = "idle", !.cur = Nothing, !.id = id]
  /\ faults' = faults + 1 /\ UNCHANGED <<cli, calls>>

Certs == startRotator \/ Rotate \/ tick \/ stopRotator

\* The first daily check since the start is over.
Checked == node.now > node.since + 1 \/ (node.now > node.since /\ node.pc = "idle")

\* Once its first daily check is over, a daemon does not use an expired
\* certificate unless a renewal failed, and while the node's key stays the same the
\* certificate in use fits its key, wherever a crash cut a rotation short.
CertsSound ==
  /\ node.up /\ node.cur # Nothing /\ ~node.failed => node.now <= node.cur.end \/ ~Checked
  /\ node.cur # Nothing /\ node.id = 1 => node.cur.id = node.cur.key

----------------------------------------------------------------------------
(* The doctor: each check in turn, its repair where one was asked for, and  *)
(* the counts it adds up on the way.                                        *)

MaxChecks == 3  \* checks that pass the filter

NewDoctor(fix, dry, json, pm) ==
  [checks |-> <<>>, repaired |-> {}, fix |-> fix, dry |-> dry, json |-> json, pm |-> pm,
   sum |-> [passed |-> 0, failed |-> 0, warned |-> 0, skipped |-> 0, fixable |-> 0]]

updateSummary(sum, r) ==
  LET more == IF r.fixable /\ r.status \in {"failed", "warned"} THEN 1 ELSE 0
  IN  [sum EXCEPT ![r.status] = @ + 1, !.fixable = @ + more]

\* A repair whose recheck is fine moves the check from one count to another.
RecountAll(sum, r) == [sum EXCEPT ![r.status] = @ - 1, !.passed = @ + 1]

Recount(sum, r) == [sum EXCEPT ![r.status] = @ - 1, !.passed = @ + 1, !.fixable = @ - 1]

runDoctor ==
  /\ Len(node.checks) < MaxChecks
  /\ \E status \in {"passed", "failed", "warned", "skipped"}, fixable, canFix \in BOOLEAN :
       LET r == [status |-> status, fixable |-> fixable]
           shouldFix == node.fix /\ canFix /\ fixable /\ status \in {"failed", "warned"}
           seen == [node EXCEPT !.checks = Append(@, r), !.sum = updateSummary(@, r)]
       IN  IF node.json \/ ~shouldFix \/ node.dry \/ ~node.pm
           THEN node' = seen
           ELSE \/ node' = [seen EXCEPT !.repaired = @ \cup {Len(seen.checks)}]
                \/ \E left \in BOOLEAN :
                     node' = [seen EXCEPT !.repaired = @ \cup {Len(seen.checks)},
                                          !.checks[Len(seen.checks)] = [status |-> "passed", fixable |-> left],
                                          !.sum = Recount(@, r)]
  /\ Untouched

\* The summary says what the list of results says, repairs included, and
\* only a real run that was asked to repair does.
DoctorSound ==
  /\ \A st \in {"passed", "failed", "warned", "skipped"} :
       node.sum[st] = Cardinality({i \in DOMAIN node.checks : node.checks[i].status = st})
  /\ node.sum.fixable = Cardinality({i \in DOMAIN node.checks :
       node.checks[i].fixable /\ node.checks[i].status \in {"failed", "warned"}})
  /\ node.repaired # {} => node.fix /\ ~node.dry /\ ~node.json

----------------------------------------------------------------------------
Init ==
  /\ part \in Parts /\ calls = 0 /\ faults = 0
  /\ \/ part = "processes" /\ cli = Quiet /\ \E u \in BOOLEAN : node = [NewHost EXCEPT !.unit = u]
     \/ part = "setup" /\ SetupInit
     \/ part = "certs" /\ cli = Quiet /\ node = NewCerts
     \/ part = "doctor" /\ cli = Quiet /\ \E f, d, j, m \in BOOLEAN : node = NewDoctor(f, d, j, m)

Next ==
  /\ UNCHANGED part
  /\ \/ part = "processes" /\ Processes
     \/ part = "setup" /\ Setup
     \/ part = "certs" /\ Certs
     \/ part = "doctor" /\ runDoctor

Spec == Init /\ [][Next]_lifecycle

\* Daemons and the commands beside them keep what is theirs: see the parts.
LifecycleSound ==
  /\ part = "processes" => ProcessesSound
  /\ part = "setup" => SetupSound
  /\ part = "certs" => CertsSound
  /\ part = "doctor" => DoctorSound
==============================================================================
