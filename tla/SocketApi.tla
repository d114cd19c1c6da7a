---------------------------- MODULE SocketApi ----------------------------
(************************************************************************)
(* The daemon's socket API as its two ends see it: what each method of  *)
(* the client library (internal/client) sends, and what each handler    *)
(* behind the dispatcher (internal/daemon/api_*.go) wants and does.     *)
(* Every method and every handler is a row of a table, with what the    *)
(* other layers look at; ManagementPlane moves requests through them.   *)
(************************************************************************)
EXTENDS Naturals, Sequences, FiniteSets, TLC

(* The client library: what each method sends.  at is the field that      *)
(* carries the identifier the caller gave, also the other fields.         *)

Sends(method, at, also) == [method |-> method, at |-> at, also |-> also]

Plain(method) == Sends(method, "", {})

node ==
    [ Status |-> Plain("status"),
      Deploy |-> Sends("deploy", "", {"image"}),
      GetLogs |-> Sends("logs", "container_id", {"follow", "tail"}),
      TorStart |-> Plain("tor_start"),
      TorStatus |-> Plain("tor_status"),
      TorRotate |-> Plain("tor_rotate"),
      GetPeers |-> Plain("peers"),
      ConfigGet |-> Sends("config_get", "", {"key"}),
      ConfigSet |-> Sends("config_set", "", {"key", "value"}) ]

containers ==
    [ List |-> Plain("list"),
      Stop |-> Sends("stop", "container_id", {}),
      Start |-> Sends("start", "container_id", {}),
      Delete |-> Sends("delete", "container_id", {}),
      Health |-> Sends("health", "container_id", {}),
      TorStop |-> Plain("tor_stop"),
      GetContainerDetail |-> Sends("container_detail", "container_id", {}),
      GetExecPubKey |-> Plain("exec_pubkey") ]

threats ==
    [ ThreatLevel |-> Plain("threat_level"),
      ThreatSignal |-> Sends("threat_signal", "type", {"confidence", "source", "details"}) ]

ThreatClear(type, container, all) ==
    Sends("threat_clear", IF type THEN "type" ELSE IF container THEN "container_id" ELSE "",
          IF all THEN {"all"} ELSE {})

clones ==
    [ Clone |-> Sends("clone", "source_id", {"target_region", "reason"}),
      CloneStatus |-> Sends("clone_status", "clone_id", {}),
      CloneList |-> Sends("clone_list", "", {"active", "limit"}),
      CloneCancel |-> Sends("clone_cancel", "clone_id", {}),
      CloneGetStats |-> Plain("clone_stats") ]

snapshots ==
    [ SnapshotCreate |-> Sends("snapshot_create", "container_id", {}),
      SnapshotGet |-> Sends("snapshot_get", "snapshot_id", {}),
      SnapshotList |-> Sends("snapshot_list", "container_id", {}),
      SnapshotDelete |-> Sends("snapshot_delete", "snapshot_id", {}),
      SnapshotDeleteAll |-> Sends("snapshot_delete", "container_id", {"all"}),
      SnapshotRestore |->
          Sends("snapshot_restore", "snapshot_id", {"target_region", "new_container"}),
      SnapshotGetStats |-> Plain("snapshot_stats"),
      RequesterBalanceMap |-> Plain("requester_balance"),
      SnapshotRotateKey |-> Plain("snapshot_rotate_key"),
      SnapshotExport |-> Sends("snapshot_export", "snapshot_id", {"output_path"}),
      SnapshotImport |-> Sends("snapshot_import", "", {"input_path"}) ]

molts ==
    [ MoltDeploy |-> Sends("molt_deploy", "", {"wasm_bytes"}),
      MoltList |-> Plain("molt_list"),
      MoltGet |-> Sends("molt_get", "deployment_id", {}),
      MoltStop |-> Sends("molt_stop", "deployment_id", {}),
      MoltDelete |-> Sends("molt_delete", "deployment_id", {}),
      MoltInvoke |-> Sends("molt_invoke", "deployment_id", {"method", "path"}) ]

provider ==
    [ ProviderRegister |-> Sends("provider_register", "", {"declared_cpu", "target_tier"}),
      ProviderStatus |-> Plain("provider_status"),
      ProviderStakeAdd |-> Sends("provider_stake_add", "", {"amount"}),
      ProviderStakeWithdraw |-> Plain("provider_stake_withdraw"),
      ProviderEarnings |-> Plain("provider_earnings"),
      ProviderJobs |-> Plain("provider_jobs"),
      ProviderMaintenanceMode |-> Sends("provider_maintenance", "", {"enabled"}) ]

proxy ==
    [ ProxyStatus |-> Plain("proxy_status"),
      ProxySessions |-> Plain("proxy_sessions"),
      ProxyUsage |-> Plain("proxy_usage"),
      ProxyCloseSession |-> Sends("proxy_close_session", "session_id", {}) ]

requester ==
    [ RequesterJobs |-> Plain("requester_jobs"),
      RequesterOutputs |-> Sends("requester_outputs", "job_id", {}),
      RequesterBalance |-> Plain("requester_balance"),
      RequesterSubmitJob |-> Sends("requester_submit_job", "", {"image", "requester_pub_key"}) ]

storage ==
    [ StorageCreateBucket |-> Sends("storage_create_bucket", "name", {}),
      StorageDeleteBucket |-> Sends("storage_delete_bucket", "name", {}),
      StorageListBuckets |-> Plain("storage_list_buckets"),
      StorageListObjects |-> Sends("storage_list_objects", "bucket", {"prefix"}),
      StorageDeleteObject |-> Sends("storage_delete_object", "key", {"bucket"}),
      StorageUsage |-> Plain("storage_usage"),
      StoragePutObject |-> Sends("storage_put_object", "key", {"bucket", "data"}),
      StorageGetObject |-> Sends("storage_get_object", "key", {"bucket"}) ]

subdomains ==
    [ SubdomainRegister |-> Sends("subdomain_register", "name", {"deployment_id"}),
      SubdomainRelease |-> Sends("subdomain_release", "name", {}),
      SubdomainList |-> Plain("subdomain_list"),
      SubdomainResolve |-> Sends("subdomain_resolve", "name", {}),
      SubdomainTransfer |-> Sends("subdomain_transfer", "name", {"new_owner"}),
      SubdomainUpdate |-> Sends("subdomain_update", "name", {"deployment_id"}),
      SubdomainRenew |-> Sends("subdomain_renew", "name", {}),
      SubdomainReserve |-> Sends("subdomain_reserve", "name", {}),
      SubdomainClaim |-> Sends("subdomain_claim", "name", {"deployment_id"}),
      SubdomainCancel |-> Sends("subdomain_cancel", "name", {}),
      SubdomainSetMetadata |->
          Sends("subdomain_metadata", "name", {"description", "avatar_url"}),
      SubdomainSetPrimary |-> Sends("subdomain_primary", "name", {}),
      SubdomainReclaim |-> Sends("subdomain_reclaim", "name", {}) ]

----------------------------------------------------------------------------
(* The daemon's handlers.  by is the manager a handler needs, and spare   *)
(* says that it answers without it too; reads is the field it takes the   *)
(* identifier from; wants are the field sets it accepts, one of which has *)
(* to be there; does is what happens to the object of that kind:          *)
(*   show    nothing (an object that was named has to exist)              *)
(*   make    a new object with an identifier of the daemon's choosing     *)
(*   enter   the named object, which is not there yet                     *)
(*   add     the named object, there already or not                       *)
(*   drop    the named object goes; with no name, all of them             *)
(*   clear   the same, and nothing to remove is no error                  *)
(*   alter   the named object, or the service, changes                    *)
(*   try     the service changes, and a failure is only logged            *)
(*   say     nothing, although the answer speaks of a change              *)

Handler(by, spare, reads, wants, does, kind) ==
    [by |-> by, spare |-> spare, reads |-> reads, wants |-> wants, does |-> does, kind |-> kind]

Reports(by) == Handler(by, FALSE, "", {{}}, "show", "")

OnContainer(does) == Handler("node", FALSE, "container_id", {{"container_id"}}, does, "container")

OnName(also, does) == Handler("payment", FALSE, "name", {{"name"} \cup also}, does, "name")

OnMolt(wants, does) == Handler("molt", FALSE, "deployment_id", {wants}, does, "molt")

StatusHandlers ==
    [ status |-> Reports("node"),
      deploy |-> Handler("node", FALSE, "", {{"image"}}, "make", "container") ]

LifeHandlers ==
    [ stop |-> OnContainer("alter"),
      start |-> OnContainer("alter"),
      delete |-> OnContainer("drop") ]

LogHandlers ==
    [ logs |-> OnContainer("show"),
      list |-> Reports("node"),
      tor_start |-> Handler("node", FALSE, "", {{}}, "alter", "tor"),
      tor_stop |-> Handler("node", FALSE, "", {{}}, "alter", "tor"),
      tor_status |-> Reports("node") ]

SettingHandlers ==
    [ tor_rotate |-> Handler("node", FALSE, "", {{}}, "alter", "tor"),
      peers |-> Reports("node"),
      health |-> Handler("node", FALSE, "container_id", {{}}, "show", "container"),
      config_get |-> Reports("node"),
      config_set |-> Handler("node", FALSE, "", {{}}, "say", "setting"),
      healthz |-> Reports("node") ]

DetailHandlers ==
    [ readyz |-> Reports("node"),
      metrics |-> Reports("node"),
      container_detail |-> OnContainer("show"),
      exec_pubkey |-> Reports("node") ]

SubdomainHandlers ==
    [ subdomain_register |-> OnName({"deployment_id"}, "enter"),
      subdomain_release |-> OnName({}, "drop"),
      subdomain_list |-> Reports("payment") ]

OwnershipHandlers ==
    [ subdomain_resolve |-> OnName({}, "show"),
      subdomain_transfer |-> OnName({"new_owner"}, "alter"),
      subdomain_update |-> OnName({"deployment_id"}, "alter") ]

ReservationHandlers ==
    [ subdomain_renew |-> OnName({}, "alter"),
      subdomain_reserve |-> OnName({}, "enter"),
      subdomain_claim |-> OnName({"deployment_id"}, "alter"),
      subdomain_cancel |-> OnName({}, "drop"),
      subdomain_metadata |-> OnName({}, "alter") ]

PrimaryHandlers ==
    [ subdomain_primary |-> OnName({}, "alter"),
      subdomain_reclaim |-> OnName({}, "drop") ]

ThreatHandlers ==
    [ threat_level |-> Handler("threat", TRUE, "", {{}}, "show", ""),
      threat_signal |-> Handler("threat", FALSE, "type", {{"type"}}, "add", "signal"),
      threat_clear |-> Handler("threat", FALSE, "type", {{"all"}, {"type"}}, "clear", "signal") ]

CloneHandlers ==
    [ clone |-> Handler("cloning", FALSE, "", {{}}, "make", "clone"),
      clone_status |-> Handler("cloning", FALSE, "clone_id", {{"clone_id"}}, "show", "clone") ]

CloneListHandlers ==
    [ clone_list |-> Reports("cloning"),
      clone_cancel |-> Handler("cloning", FALSE, "clone_id", {{"clone_id"}}, "alter", "clone"),
      clone_stats |-> Reports("cloning") ]

SnapshotHandlers ==
    [ snapshot_create |->
          Handler("snapshots", FALSE, "", {{"container_id"}}, "make", "snapshot"),
      snapshot_get |->
          Handler("snapshots", FALSE, "snapshot_id", {{"snapshot_id"}}, "show", "snapshot") ]

SnapshotListHandlers ==
    [ snapshot_list |-> Handler("snapshots", FALSE, "", {{"container_id"}}, "show", "snapshot"),
      snapshot_delete |->
          Handler("snapshots", FALSE, "snapshot_id", {{"snapshot_id"}, {"container_id", "all"}}, "drop", "snapshot") ]

RestoreHandlers ==
    [ snapshot_restore |->
          Handler("snapshots", FALSE, "snapshot_id", {{"snapshot_id"}}, "say", "snapshot"),
      snapshot_stats |-> Reports("snapshots") ]

ProviderHandlers ==
    [ provider_register |->
          Handler("node", FALSE, "", {{"wallet_address", "cpu_cores"}}, "try", "provider"),
      provider_status |-> Reports("node") ]

StakeHandlers ==
    [ provider_stake_add |-> Handler("node", FALSE, "", {{"amount"}}, "say", "stake"),
      provider_stake_withdraw |-> Handler("node", FALSE, "", {{"amount"}}, "say", "stake"),
      provider_earnings |-> Reports("node"),
      provider_jobs |-> Reports("node") ]

MaintenanceHandlers ==
    [ provider_maintenance |-> Handler("node", FALSE, "", {{}}, "say", "provider") ]

RequesterHandlers ==
    [ requester_jobs |-> Reports("node"),
      requester_outputs |-> Handler("node", FALSE, "job_id", {{"job_id"}}, "show", "container") ]

BalanceHandlers ==
    [ requester_balance |-> Reports("node"),
      requester_deposit |-> Handler("node", FALSE, "", {{"amount"}}, "say", "deposit"),
      requester_withdraw |-> Handler("node", FALSE, "", {{"amount"}}, "say", "deposit") ]

EstimateHandlers ==
    [ requester_estimate |-> Reports("node") ]

MoltHandlers ==
    [ molt_deploy |-> Handler("molt", FALSE, "", {{"wasm_bytes"}}, "make", "molt"),
      molt_list |-> Handler("molt", TRUE, "", {{}}, "show", ""),
      molt_get |-> OnMolt({}, "show"),
      molt_stop |-> OnMolt({}, "alter") ]

InvokeHandlers ==
    [ molt_delete |-> OnMolt({}, "drop"),
      molt_invoke |-> OnMolt({"deployment_id"}, "alter") ]

----------------------------------------------------------------------------
(* The dispatcher's switch over the method name (handleRequest).          *)

Dispatch ==
    StatusHandlers @@ LifeHandlers @@ LogHandlers @@ SettingHandlers @@
      DetailHandlers @@ SubdomainHandlers @@ OwnershipHandlers @@
      ReservationHandlers @@ PrimaryHandlers @@ ThreatHandlers @@
      CloneHandlers @@ CloneListHandlers @@ SnapshotHandlers @@
      SnapshotListHandlers @@ RestoreHandlers @@ ProviderHandlers @@
      StakeHandlers @@ MaintenanceHandlers @@ RequesterHandlers @@
      BalanceHandlers @@ EstimateHandlers @@ MoltHandlers @@ InvokeHandlers
==========================================================================
