------------------------- MODULE ManagementPlane -------------------------
(************************************************************************)
(* The way a request takes from the person who makes it to the daemon that  *)
(* carries it out: a command of the CLI (cmd/cli/commands), the client      *)
(* library (internal/client), the daemon's socket dispatcher and its        *)
(* handlers (internal/daemon/api_*.go), and the REST routes that reach the  *)
(* same dispatcher through the bridge (internal/api).  Every layer names    *)
(* the same operation in its own words: a command calls methods of the      *)
(* client, a method sends a method name and fields, a handler reads fields  *)
(* and calls a manager.  Each of them is a row here, a record with exactly  *)
(* what the next layer looks at, and the actions move one request through   *)
(* the rows while the daemon dies and restarts and connections break.       *)
(************************************************************************)
EXTENDS SocketApi

CONSTANTS
    Ids,         \* identifiers of containers, snapshots, clones, names...
    Nothing,
    MaxRestarts  \* bound on deaths and restarts of the daemon

VARIABLES
    daemon,  \* up, its life, the managers it has, the objects it knows
    web,     \* the HTTP server's bridge and its pooled connection
    ask      \* the request on its way

vars == <<daemon, web, ask>>

----------------------------------------------------------------------------
(* The CLI.  A command reaches the daemon over its socket ("socket"),     *)
(* through the smart client that insists on it ("daemon"), through the    *)
(* smart client on the socket or else the HTTP API ("any"), or through    *)
(* the API alone ("api").  calls are the requests it makes in turn, soft  *)
(* the ones whose failure it passes over, meant what it tells the user it *)
(* does when it ends well.                                                *)

Command(via, calls, soft, does, kind) ==
    [via |-> via, calls |-> calls, soft |-> soft, does |-> does, kind |-> kind]

Shows(via, call) == Command(via, <<call>>, {}, "show", "")

Does(via, call, does, kind) == Command(via, <<call>>, {}, does, kind)

Rows(table) == {table[k] : k \in DOMAIN table}

runStatus == Command("any", <<node.Status, node.GetPeers>>, {2}, "show", "")
runPs == Shows("any", containers.List)
runPeers == Shows("any", node.GetPeers)
runLogs == Shows("any", node.GetLogs)
runBalance == Shows("api", snapshots.RequesterBalanceMap)
runDeployDirect == Command("any", <<containers.GetExecPubKey, node.Deploy>>, {1}, "make", "container")
runExecWebSocket == Shows("socket", containers.GetContainerDetail)
runOutputs == Shows("daemon", containers.GetContainerDetail)
fetchData == Command("socket", <<node.Status, node.GetPeers, containers.List>>, {2, 3}, "show", "")
NewConfigGetCmd == Command("any", <<node.ConfigGet>>, {1}, "show", "")

cloneMaking ==
    [ runCloneCreate |-> Does("socket", clones.Clone, "make", "clone"),
      runCloneStatus |-> Shows("socket", clones.CloneStatus) ]

cloneTracking ==
    [ runCloneList |-> Shows("socket", clones.CloneList),
      runCloneCancel |-> Does("socket", clones.CloneCancel, "alter", "clone") ]

snapshotMaking ==
    [ runSnapshotCreate |-> Does("socket", snapshots.SnapshotCreate, "make", "snapshot"),
      runSnapshotList |-> Shows("socket", snapshots.SnapshotList) ]

snapshotUse ==
    [ runSnapshotGet |-> Shows("socket", snapshots.SnapshotGet),
      runSnapshotRestore |-> Does("socket", snapshots.SnapshotRestore, "alter", "snapshot"),
      runSnapshotDelete |-> Does("socket", snapshots.SnapshotDelete, "drop", "snapshot") ]

threat ==
    [ runThreatLevel |-> Shows("socket", threats.ThreatLevel),
      runThreatSignals |-> Shows("socket", threats.ThreatLevel),
      clearType |-> Does("socket", ThreatClear(TRUE, FALSE, FALSE), "clear", "signal"),
      clearContainer |-> Does("socket", ThreatClear(FALSE, TRUE, FALSE), "clear", "signal"),
      clearAll |-> Does("socket", ThreatClear(FALSE, FALSE, TRUE), "clear", "signal") ]

providing ==
    [ newProviderEnableCmd |->
          Command("daemon", <<node.ConfigSet, node.ConfigSet, provider.ProviderRegister>>, {3}, "alter", "provider"),
      newProviderDisableCmd |->
          Command("daemon", <<node.ConfigSet, node.ConfigSet>>, {}, "alter", "provider") ]

providerEntry ==
    [ runProviderRegister |-> Does("daemon", provider.ProviderRegister, "try", "provider"),
      runProviderStatus |-> Shows("daemon", provider.ProviderStatus) ]

providerStake ==
    [ newProviderStakeAddCmd |-> Does("daemon", provider.ProviderStakeAdd, "alter", "stake"),
      newProviderStakeWithdrawCmd |->
          Does("daemon", provider.ProviderStakeWithdraw, "alter", "stake") ]

providerWork ==
    [ newProviderEarningsCmd |-> Shows("daemon", provider.ProviderEarnings),
      newProviderJobsCmd |-> Shows("daemon", provider.ProviderJobs),
      newProviderMaintenanceCmd |->
          Does("daemon", provider.ProviderMaintenanceMode, "alter", "provider") ]

requesterWork ==
    [ runRequesterJobs |-> Shows("socket", requester.RequesterJobs) ]

requesterResults ==
    [ runRequesterOutputs |-> Shows("socket", requester.RequesterOutputs),
      newRequesterBalanceCmd |-> Shows("socket", requester.RequesterBalance) ]

storageBuckets ==
    [ runStorageMb |-> Does("daemon", storage.StorageCreateBucket, "enter", "bucket"),
      runStorageRb |-> Does("daemon", storage.StorageDeleteBucket, "drop", "bucket"),
      runStorageLs |-> Shows("daemon", storage.StorageListBuckets),
      runStorageLsBucket |-> Shows("daemon", storage.StorageListObjects) ]

storageObjects ==
    [ runStoragePut |-> Does("daemon", storage.StoragePutObject, "add", "object"),
      runStorageGet |-> Shows("daemon", storage.StorageGetObject),
      runStorageRm |-> Does("daemon", storage.StorageDeleteObject, "drop", "object"),
      runStorageUsage |-> Shows("daemon", storage.StorageUsage) ]

proxying ==
    [ runProxyStatus |-> Shows("daemon", proxy.ProxyStatus),
      runProxySessions |-> Shows("daemon", proxy.ProxySessions),
      runProxyUsage |-> Shows("daemon", proxy.ProxyUsage),
      runProxyClose |-> Does("daemon", proxy.ProxyCloseSession, "drop", "session") ]

naming ==
    [ runSubdomainRegister |-> Does("daemon", subdomains.SubdomainRegister, "enter", "name"),
      runSubdomainList |-> Shows("daemon", subdomains.SubdomainList),
      runSubdomainRelease |-> Does("daemon", subdomains.SubdomainRelease, "drop", "name"),
      runSubdomainResolve |-> Shows("daemon", subdomains.SubdomainResolve) ]

nameOwning ==
    [ runSubdomainTransfer |-> Does("daemon", subdomains.SubdomainTransfer, "alter", "name"),
      runSubdomainUpdate |-> Does("daemon", subdomains.SubdomainUpdate, "alter", "name") ]

nameHolding ==
    [ runSubdomainRenew |-> Does("daemon", subdomains.SubdomainRenew, "alter", "name"),
      runSubdomainReserve |-> Does("daemon", subdomains.SubdomainReserve, "enter", "name"),
      runSubdomainClaim |-> Does("daemon", subdomains.SubdomainClaim, "alter", "name"),
      runSubdomainCancel |-> Does("daemon", subdomains.SubdomainCancel, "drop", "name"),
      runSubdomainMetadata |-> Does("daemon", subdomains.SubdomainSetMetadata, "alter", "name") ]

nameChoosing ==
    [ runSubdomainPrimary |-> Does("daemon", subdomains.SubdomainSetPrimary, "alter", "name"),
      runSubdomainReclaim |-> Does("daemon", subdomains.SubdomainReclaim, "drop", "name") ]

moltMaking ==
    [ runMoltDeploy |-> Does("daemon", molts.MoltDeploy, "make", "molt"),
      runMoltList |-> Shows("daemon", molts.MoltList),
      runMoltGet |-> Shows("daemon", molts.MoltGet) ]

moltUse ==
    [ runMoltStop |-> Does("daemon", molts.MoltStop, "alter", "molt"),
      runMoltDelete |-> Does("daemon", molts.MoltDelete, "drop", "molt"),
      runMoltInvoke |-> Does("daemon", molts.MoltInvoke, "alter", "molt") ]

tor ==
    [ NewTorStartCmd |-> Does("any", node.TorStart, "alter", "tor"),
      NewTorStatusCmd |-> Shows("any", node.TorStatus),
      NewTorOnionCmd |-> Shows("any", node.TorStatus),
      NewTorRotateCmd |-> Does("any", node.TorRotate, "alter", "tor") ]

NewSubdomainCmd == Rows(naming) \cup Rows(nameOwning)

\* newSubdomainRenewCmd and the ones after it.
LaterSubdomainCmds == Rows(nameHolding) \cup Rows(nameChoosing)

NewStorageCmd == Rows(storageBuckets) \cup Rows(storageObjects)

NewMoltCmd == Rows(moltMaking) \cup Rows(moltUse)

\* The methods of the library that no command calls, as a program would.
Library ==
    {Does("socket", containers.TorStop, "alter", "tor"), Does("socket", containers.Stop, "alter", "container"),
     Does("socket", containers.Start, "alter", "container"), Shows("socket", containers.Health),
     Does("socket", containers.Delete, "drop", "container"),
     Does("socket", threats.ThreatSignal, "add", "signal"), Shows("socket", clones.CloneGetStats),
     Does("socket", snapshots.SnapshotDeleteAll, "drop", "snapshot"), Shows("socket", snapshots.SnapshotGetStats),
     Does("socket", snapshots.SnapshotRotateKey, "alter", "key"), Shows("socket", snapshots.SnapshotExport),
     Does("socket", snapshots.SnapshotImport, "make", "snapshot"),
     Does("socket", requester.RequesterSubmitJob, "make", "container")}

Commands ==
    {runStatus, runPs, runPeers, runLogs, runBalance, runDeployDirect, runExecWebSocket,
     runOutputs, fetchData, NewConfigGetCmd}
      \cup Rows(cloneMaking) \cup Rows(cloneTracking) \cup Rows(snapshotMaking)
      \cup Rows(snapshotUse) \cup Rows(threat) \cup Rows(providing) \cup Rows(providerEntry)
      \cup Rows(providerStake) \cup Rows(providerWork) \cup Rows(requesterWork)
      \cup Rows(requesterResults) \cup NewStorageCmd \cup Rows(proxying) \cup NewSubdomainCmd
      \cup LaterSubdomainCmds \cup NewMoltCmd \cup Rows(tor) \cup Library

----------------------------------------------------------------------------
(* The REST routes.  perm is the permission the router asks for, wants    *)
(* the fields without which the handler answers 400, call what it sends   *)
(* over the bridge (Nothing when it answers by itself), ok, fail and bare *)
(* the status codes when that call ends well, when it fails and when the  *)
(* server has no bridge; does and kind are what a good answer tells.      *)

Route(perm, wants, call, ok, fail, bare, does, kind) ==
    [perm |-> perm, wants |-> wants, call |-> <<call>>, ok |-> ok, fail |-> fail,
     bare |-> bare, does |-> does, kind |-> kind]

\* A route that answers from what it has, whatever the daemon says.
Tells(perm, call) == Route(perm, {}, call, 200, 200, 200, "show", "")

\* A route that answers without asking anyone.
Stub(perm, wants, ok, does, kind) ==
    [Route(perm, wants, node.Status, ok, ok, ok, does, kind) EXCEPT !.call = <<>>]

handleStatus == Tells("read", node.Status)

handleDeploy ==
    Route("write", {"image"}, node.Deploy, 201, 500, 503, "make", "container")

reserveRoutes ==
    [ handleReserve |-> Stub("write", {}, 201, "make", "reservation"),
      handleClone |-> Route("write", {}, clones.Clone, 202, 500, 503, "make", "clone") ]

moveRoutes ==
    [ handleMigrate |->
          Stub("write", {"container_id", "target_region"}, 202, "alter", "container"),
      handleBalance |-> Tells("read", snapshots.RequesterBalanceMap) ]

snapshotRoutes ==
    [ handleSnapshot |->
          Route("write", {"container_id"}, snapshots.SnapshotCreate, 201, 500, 503, "make", "snapshot"),
      handleRestore |->
          Route("write", {"snapshot_id"}, snapshots.SnapshotRestore, 202, 500, 503, "alter", "snapshot") ]

healthRoutes ==
    [ handleThreat |-> Tells("read", threats.ThreatLevel),
      handleHealth |-> Stub("public", {}, 200, "show", ""),
      handleHealthz |-> Stub("public", {}, 200, "show", ""),
      handleReadyz |-> Stub("public", {}, 200, "show", "") ]

botRoutes ==
    [ listBots |-> Tells("read", containers.List),
      createBot |-> Stub("write", {"name", "image"}, 201, "make", "bot"),
      getBot |-> Route("read", {}, containers.List, 200, 503, 404, "show", ""),
      updateBot |-> Stub("write", {}, 200, "alter", "bot") ]

botCalls ==
    [ deleteBot |-> Route("write", {}, containers.Delete, 204, 500, 204, "drop", "container"),
      handleBotCloning |-> Stub("write", {}, 200, "alter", "bot"),
      handleBotStatus |-> Stub("read", {}, 200, "show", ""),
      handleBotClones |-> Stub("read", {}, 200, "show", ""),
      handleBotSyncClones |-> Stub("write", {}, 200, "alter", "bot") ]

runtimeRoutes ==
    [ handleRuntimeReserve |-> Stub("write", {"bot_id"}, 201, "make", "runtime"),
      getRuntime |-> Stub("read", {}, 404, "show", ""),
      dropRuntime |-> Stub("write", {}, 204, "drop", "runtime"),
      handleRuntimeExtend |-> Stub("write", {}, 200, "alter", "runtime"),
      handleRuntimeStatus |-> Stub("read", {}, 200, "show", "") ]

deploymentRoutes ==
    [ listDeployments |-> Stub("read", {}, 200, "show", ""),
      createDeployment |-> Stub("read", {"runtime_id"}, 201, "make", "deployment"),
      handleDeploymentByID |-> Stub("read", {}, 404, "show", ""),
      handleDeploymentStop |-> Stub("write", {}, 204, "alter", "deployment") ]

storedRoutes ==
    [ listSnapshots |-> Stub("read", {}, 200, "show", ""),
      makeSnapshot |-> [snapshotRoutes.handleSnapshot EXCEPT !.perm = "read"],
      getSnapshot |-> Stub("read", {}, 404, "show", ""),
      dropSnapshot |-> Stub("write", {}, 204, "drop", "snapshot"),
      handleSnapshotData |-> Route("read", {}, snapshots.SnapshotGet, 200, 404, 404, "show", ""),
      listClones |-> Stub("read", {}, 200, "show", ""),
      makeClone |-> [reserveRoutes.handleClone EXCEPT !.perm = "read"],
      handleCloneByID |-> Stub("read", {}, 404, "show", ""),
      handleCloneCancel |-> Stub("write", {}, 204, "alter", "clone") ]

handleContainers == Tells("read", containers.List)

containerRoutes ==
    [ handleContainerLogs |-> Route("read", {}, node.GetLogs, 200, 503, 503, "show", ""),
      handleContainerCloning |-> Stub("write", {}, 200, "alter", "container"),
      handleContainerCheckpoints |-> Stub("write", {}, 200, "alter", "container"),
      handleBootstrap |-> Tells("public", node.Status) ]

nameRoutes ==
    [ listNames |-> Route("read", {}, subdomains.SubdomainList, 200, 500, 503, "show", ""),
      registerName |->
          Route("write", {"name", "deployment_id"}, subdomains.SubdomainRegister, 201, 500, 503, "enter", "name"),
      resolveName |-> Route("read", {}, subdomains.SubdomainResolve, 200, 404, 503, "show", ""),
      releaseName |->
          Route("write", {}, subdomains.SubdomainRelease, 200, 403, 503, "drop", "name"),
      transferName |->
          Route("write", {"new_owner"}, subdomains.SubdomainTransfer, 200, 403, 503, "alter", "name"),
      updateName |->
          Route("write", {"deployment_id"}, subdomains.SubdomainUpdate, 200, 403, 503, "alter", "name") ]

buildRouter ==
    {handleStatus, handleDeploy, handleContainers}
      \cup Rows(reserveRoutes) \cup Rows(moveRoutes) \cup Rows(snapshotRoutes)
      \cup Rows(healthRoutes) \cup Rows(botRoutes) \cup Rows(botCalls) \cup Rows(runtimeRoutes)
      \cup Rows(deploymentRoutes) \cup Rows(storedRoutes) \cup Rows(containerRoutes)
      \cup Rows(nameRoutes)

----------------------------------------------------------------------------
(* The request on its way.  over is how it travels ("socket", "http" for a *)
(* command on the API, "web" for a request to a route), conn the life of   *)
(* the daemon its connection belongs to (0 once the client closed it).     *)

Managers == {"node", "payment", "molt", "threat", "cloning", "snapshots"}

\* What the socket server is given: a node alone, what cmd/daemon gives it,
\* and every manager its setters take.
Wirings == {{"node"}, {"node", "payment", "molt"}, Managers}

Unasked ==
    [pc |-> "idle", over |-> "", row |-> runStatus, route |-> handleStatus, id |-> Nothing,
     cred |-> "", sent |-> {}, step |-> 1, conn |-> 0, good |-> FALSE, why |-> "", code |-> 0,
     did |-> {}, broke |-> FALSE, end |-> ""]

Init ==
    /\ \E m \in Wirings, there \in SUBSET Ids, up \in BOOLEAN :
           daemon = [up |-> up, life |-> 1, managers |-> m, there |-> there,
                     restarts |-> 0]
    /\ web \in {[bridge |-> TRUE, endpoint |-> TRUE, local |-> TRUE, pooled |-> 0],
               [bridge |-> TRUE, endpoint |-> TRUE, local |-> TRUE, pooled |-> 1],
               [bridge |-> FALSE, endpoint |-> TRUE, local |-> TRUE, pooled |-> 0],
               [bridge |-> FALSE, endpoint |-> FALSE, local |-> FALSE, pooled |-> 0]}
    /\ ask = Unasked

Ends(end, why) == ask' = [ask EXCEPT !.pc = "done", !.end = end, !.why = why]

\* One call of a command is answered: a failure ends the command unless it
\* passes over it.
Answered(c, good, why) ==
    LET fatal == ~good /\ c.step \notin c.row.soft
    IN  ask' = IF fatal \/ c.step = Len(c.row.calls)
               THEN [c EXCEPT !.pc = "done", !.why = why, !.end = IF fatal THEN "error" ELSE "ok"]
               ELSE [c EXCEPT !.pc = "call", !.step = @ + 1]


\* The HTTP server has its status code: the request is over, or one call of
\* the command behind it (APIClient.do takes 400 and more for an error).
do(c, code, why) ==
    IF c.over = "web"
    THEN ask' = [c EXCEPT !.pc = "done", !.code = code, !.why = why,
                          !.end = IF code < 400 THEN "ok" ELSE "error"]
    ELSE Answered(c, code < 400, why)

Type(row, id) ==
    /\ ask' = [ask EXCEPT !.pc = "connect", !.row = row, !.id = id]
    /\ UNCHANGED <<daemon, web>>

\* The last question of the wizard: the same request, or none.
wizardConfirm ==
    \/ ask' = [ask EXCEPT !.pc = "connect", !.row = runDeployDirect]
    \/ Ends("cancelled", "")

\* The form, which wants a terminal and may be left.
runDeployWizard ==
    /\ wizardConfirm \/ Ends("error", "")
    /\ UNCHANGED <<daemon, web>>

Request(route, id, cred, sent) ==
    /\ ask' = [ask EXCEPT !.pc = "http", !.over = "web", !.route = route, !.id = id,
                          !.cred = cred, !.sent = sent]
    /\ UNCHANGED <<daemon, web>>

\* Two commands have something to say without any connection: status
\* reports that the daemon is down and config get reads the file.
Alone == {runStatus, NewConfigGetCmd}

NoConnection == Ends(IF ask.row \in Alone THEN "ok" ELSE "error", "down")

\* SmartClient.Connect and RequireDaemon; a command on the socket dials it.
Connect ==
    /\ ask.pc = "connect"
    /\ CASE ask.row.via = "api" ->
              IF web.endpoint THEN ask' = [ask EXCEPT !.pc = "call", !.over = "http"]
              ELSE NoConnection
         [] ask.row.via # "api" /\ daemon.up ->
              ask' = [ask EXCEPT !.pc = "call", !.over = "socket", !.conn = daemon.life]
         [] ask.row.via = "any" /\ ~daemon.up /\ web.endpoint ->
              ask' = [ask EXCEPT !.pc = "call", !.over = "http"]
         [] OTHER -> NoConnection
    /\ UNCHANGED <<daemon, web>>

\* The routes APIClient knows, by the socket method they stand in for.
ViaApi ==
    [status |-> handleStatus, deploy |-> handleDeploy, list |-> handleContainers,
     logs |-> containerRoutes.handleContainerLogs, requester_balance |-> moveRoutes.handleBalance]

Alive(c) == daemon.up /\ c.conn = daemon.life

\* The command sends its next call.  A client whose connection failed once
\* has closed it and stays unconnected.
Call ==
    /\ ask.pc = "call"
    /\ LET q == ask.row.calls[ask.step]
       IN  CASE ask.over = "http" /\ q.method \in DOMAIN ViaApi ->
                  \E cred \in {"none", "wallet"} :
                      ask' = [ask EXCEPT !.pc = "http", !.route = ViaApi[q.method], !.cred = cred,
                                         !.sent = ViaApi[q.method].wants]
             [] ask.over = "http" /\ q.method \notin DOMAIN ViaApi ->
                  Answered(ask, FALSE, "down")
             [] ask.over = "socket" /\ Alive(ask) -> ask' = [ask EXCEPT !.pc = "sent"]
             [] ask.over = "socket" /\ ~Alive(ask) ->
                  Answered([ask EXCEPT !.conn = 0], FALSE, "down")
    /\ UNCHANGED <<daemon, web>>

\* withPermissionMiddleware: authentication, permission, rate limit.
Admits(perm, cred) ==
    CASE perm = "public" -> TRUE
      [] perm = "read" -> cred # "none"
      [] perm = "write" -> cred \in {"wallet", "writer"}

\* The middleware and what the handler does before it needs the daemon.
Route_ ==
    /\ ask.pc = "http"
    /\ LET r == ask.route
       IN  \/ ~Admits(r.perm, ask.cred) /\ do(ask, IF ask.cred = "none" THEN 401 ELSE 403, "refused")
           \/ r.perm # "public" /\ do(ask, 429, "limited")
           \/ /\ Admits(r.perm, ask.cred)
              /\ \/ ~(r.wants \subseteq ask.sent) /\ do(ask, 400, "incomplete")
                 \/ /\ r.wants \subseteq ask.sent
                    /\ \/ r.call = <<>> /\ do(ask, r.ok, "")
                       \/ r.call # <<>> /\ web.bridge /\ ask' = [ask EXCEPT !.pc = "bridge"]
                       \/ /\ r.call # <<>> /\ ~web.bridge
                          /\ ~(web.local /\ r.call[1] \in {clones.Clone, snapshots.SnapshotCreate})
                          /\ do(ask, r.bare, "down")
    /\ UNCHANGED <<daemon, web>>

\* Without a bridge the server clones and snapshots with managers of its own.
LocalManager ==
    /\ ask.pc = "http" /\ ~web.bridge /\ web.local
    /\ ask.route.call \in {<<clones.Clone>>, <<snapshots.SnapshotCreate>>}
    /\ Admits(ask.route.perm, ask.cred) /\ ask.route.wants \subseteq ask.sent
    /\ \/ /\ do(ask, 500, "refused")
          /\ UNCHANGED daemon
       \/ \E new \in Ids \ daemon.there :
              /\ do([ask EXCEPT !.did = {[does |-> "make", kind |-> ask.route.kind, id |-> new]}],
                    ask.route.ok, "")
              /\ daemon' = [daemon EXCEPT !.there = @ \cup {new}]
    /\ UNCHANGED web

\* DaemonBridge.getClient: a pooled connection as it is, or a new one.
getClient ==
    /\ ask.pc = "bridge"
    /\ IF web.pooled # 0 \/ daemon.up
       THEN ask' = [ask EXCEPT !.pc = "sent", !.conn = IF web.pooled # 0 THEN web.pooled ELSE daemon.life]
       ELSE do(ask, ask.route.fail, "down")
    /\ web' = [web EXCEPT !.pooled = 0]
    /\ UNCHANGED daemon

Asked == IF ask.over = "socket" THEN ask.row.calls[ask.step] ELSE ask.route.call[1]

Fields(q) == ({q.at} \cup q.also) \ {""}

\* What a handler may do with a request: the answer, the objects there are
\* afterwards and what was done.
Works(h, q) ==
    LET named == IF q.at # "" /\ q.at = h.reads THEN ask.id ELSE Nothing
        there == daemon.there
        Done(id, objs) ==
            [good |-> TRUE, why |-> "", there |-> objs,
             did |-> {[does |-> h.does, kind |-> h.kind, id |-> id]}]
        Silent == [good |-> TRUE, why |-> "", there |-> there, did |-> {}]
        Not(why) == [good |-> FALSE, why |-> why, there |-> there, did |-> {}]
    IN  CASE h.by \notin daemon.managers -> {IF h.spare THEN Silent ELSE Not("unavailable")}
          [] h.by \in daemon.managers /\ \A w \in h.wants : ~(w \subseteq Fields(q)) -> {Not("params")}
          [] OTHER ->
               CASE h.does = "show" ->
                      {Silent, Not("refused")} \ (IF named \in Ids \ there THEN {Silent} ELSE {})
                 [] h.does = "say" -> {Silent}
                 [] h.does = "try" -> {Silent, Done(Nothing, there)}
                 [] h.does = "make" -> {Not("refused")} \cup {Done(n, there \cup {n}) : n \in Ids \ there}
                 [] h.does = "enter" ->
                      {Not("refused")} \cup {Done(n, there \cup {n}) : n \in {named} \ there}
                 [] h.does = "add" -> {Done(named, there \cup {named})}
                 [] h.does \in {"drop", "clear"} /\ named = Nothing ->
                      {Done(Nothing, {})} \cup (IF h.does = "drop" THEN {Not("refused")} ELSE {})
                 [] h.does = "drop" /\ named # Nothing ->
                      {Not("refused")} \cup {Done(n, there \ {n}) : n \in {named} \cap there}
                 [] h.does = "clear" /\ named # Nothing -> {Done(named, there \ {named})}
                 [] h.does = "alter" ->
                      {Not("refused")}
                        \cup {Done(n, there) : n \in {named} \cap (there \cup {Nothing})}

Refused(why) == [good |-> FALSE, why |-> why, there |-> daemon.there, did |-> {}]

\* handleConnection and handleRequest: the rate limits (an error and the end
\* of the connection), the switch, the handler.
handleRequest ==
    /\ ask.pc = "sent" /\ Alive(ask)
    /\ \/ ask' = [ask EXCEPT !.pc = "served", !.good = FALSE, !.why = "limited"]
          /\ UNCHANGED daemon
       \/ \E o \in LET cases == Dispatch
                   IN  IF Asked.method \in DOMAIN cases THEN Works(cases[Asked.method], Asked)
                       ELSE {Refused("unknown")} :
              /\ ask' = [ask EXCEPT !.pc = "served", !.good = o.good, !.why = o.why, !.did = @ \cup o.did]
              /\ daemon' = [daemon EXCEPT !.there = o.there]
    /\ UNCHANGED web

\* The answer reaches the client.  The bridge keeps the connection of a good
\* answer (withClient) and closes any other; a command keeps its own, and
\* after a rate limit the daemon has closed it.
withClient ==
    /\ ask.pc = "served" /\ Alive(ask)
    /\ IF ask.over = "socket"
       THEN /\ Answered([ask EXCEPT !.conn = IF ask.why = "limited" THEN 0 ELSE @], ask.good, ask.why)
            /\ UNCHANGED web
       ELSE /\ do(ask, IF ask.good THEN ask.route.ok ELSE ask.route.fail, ask.why)
            /\ web' = [web EXCEPT !.pooled = IF ask.good THEN ask.conn ELSE @]
    /\ UNCHANGED daemon

\* The connection is gone before the answer: the client closes its side and
\* reports an error, whatever the daemon did.
Broken ==
    /\ ask.pc \in {"sent", "served"} /\ ~Alive(ask)
    /\ LET c == [ask EXCEPT !.conn = 0, !.broke = ask.did # {}]
       IN  IF ask.over = "socket" THEN Answered(c, FALSE, "down")
           ELSE do(c, ask.route.fail, "down")
    /\ UNCHANGED <<daemon, web>>

\* The daemon stops, or starts again with what it kept.
Die ==
    /\ ask.pc \notin {"idle", "done"} /\ daemon.up /\ daemon.restarts < MaxRestarts
    /\ daemon' = [daemon EXCEPT !.up = FALSE, !.restarts = @ + 1]
    /\ UNCHANGED <<web, ask>>

Rise ==
    /\ ask.pc \notin {"idle", "done"} /\ ~daemon.up
    /\ \E kept \in SUBSET daemon.there :
           daemon' = [daemon EXCEPT !.up = TRUE, !.life = @ + 1, !.there = kept]
    /\ UNCHANGED <<web, ask>>

Asks ==
    /\ ask.pc = "idle"
    /\ \/ \E row \in Commands, id \in Ids : Type(row, id)
       \/ runDeployWizard
       \/ \E route \in buildRouter, id \in Ids, cred \in {"none", "reader", "writer", "wallet"} :
              \E sent \in {{}, route.wants} : Request(route, id, cred, sent)

Next ==
    \/ Asks \/ Connect \/ Call \/ Route_ \/ LocalManager \/ getClient \/ handleRequest
    \/ withClient \/ Broken \/ Die \/ Rise

Spec == Init /\ [][Next]_vars

----------------------------------------------------------------------------
(* Properties                                                             *)

\* What the person who asked was told the request is for.
Meaning == IF ask.over = "web" THEN ask.route ELSE ask.row

\* The commands and routes that answer well and leave the work for later:
\* the daemon's staking, maintenance, configuration and restore handlers and
\* the REST routes that have no manager behind them yet.
Acknowledged(m) ==
    \/ ask.over = "web" /\ m.call = <<>>
    \/ m \in Rows(providing)
    \/ m \in {snapshotUse.runSnapshotRestore, providerStake.newProviderStakeAddCmd, providerWork.newProviderMaintenanceCmd,
               providerEntry.runProviderRegister, snapshotRoutes.handleRestore}
    \/ m = botCalls.deleteBot /\ ~web.bridge

\* The commands whose request the dispatcher or the handler cannot read: a
\* method it has no case for, or a field it wants and the client never sends.
Unserved ==
    NewStorageCmd \cup Rows(proxying)
      \cup {providerEntry.runProviderRegister, providing.newProviderEnableCmd, providerStake.newProviderStakeWithdrawCmd,
            threat.clearContainer,
            Does("socket", snapshots.SnapshotRotateKey, "alter", "key"), Shows("socket", snapshots.SnapshotExport),
            Does("socket", snapshots.SnapshotImport, "make", "snapshot"),
            Does("socket", requester.RequesterSubmitJob, "make", "container")}

\* A command or a route that reports success has done what it names, to the
\* object it was given, once: not a different thing, not to another object,
\* not twice over two connections, and not nothing (but for Acknowledged).
HonestSuccess ==
    /\ Cardinality(ask.did) <= 1
    /\ \A e \in ask.did : /\ e.does = Meaning.does /\ e.kind = Meaning.kind
                          /\ e.does = "make" \/ e.id \in {ask.id, Nothing}
    /\ ask.end = "ok" /\ ask.did = {} /\ Meaning.does # "show" => Acknowledged(Meaning)

\* One that reports an error, or was cancelled, has changed nothing, unless
\* the connection broke between the daemon's work and its answer.
KnownOutcome == ask.end \in {"error", "cancelled"} /\ ask.did # {} => ask.broke

\* Every layer speaks the language of the next: the dispatcher knows every
\* method the commands send and the handlers find the fields they want.
Understood == ask.why \in {"unknown", "params"} /\ ask.pc = "done" => Meaning \in Unserved

PlaneSound == HonestSuccess /\ KnownOutcome /\ Understood
============================================================================
