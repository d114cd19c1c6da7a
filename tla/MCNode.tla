----------------------------- MODULE MCNode -------------------------------
(* Small instances of what a node does: its messages, peers and tunnels,    *)
(* its stores, its containers, the payment client, exec sessions, the API.  *)
(* A behaviour runs one scenario, chosen in its initial state.  The         *)
(* variables v1, v2, ... hold the state of that scenario's component, in    *)
(* the order its module declares it; those it does not need are None.       *)
(* NonceTracker and ConnectionSlots, which this module extends, have their  *)
(* own variables, and stand still in the scenarios of others.               *)
EXTENDS NonceTracker, ConnectionSlots, Sequences, TLC

CONSTANTS Scenarios,        \* the scenarios this model runs
          None,
          x1, x2,           \* callers, threads, peers
          w1, w2,           \* wallets, values
          d1, d2, d3,       \* what a component numbers: deployments, jobs, endpoints
          k1, k2, k3        \* keys, names

VARIABLES scenario,
          v1, v2, v3, v4, v5, v6, v7, v8, v9, v10, v11, v12, v13, v14, v15, v16, v17, v18,
          v19, v20, v21, v22, v23, v24

others == <<v1, v2, v3, v4, v5, v6, v7, v8, v9, v10, v11, v12, v13, v14, v15, v16, v17,
            v18, v19, v20, v21, v22, v23, v24>>
mcVars == <<scenario, others, vars, slotVars>>

(* A component with n variables leaves the others None.                     *)
Spare(n) ==
  /\ (IF n < 1 THEN v1 = None ELSE TRUE) /\ (IF n < 2 THEN v2 = None ELSE TRUE)
  /\ (IF n < 3 THEN v3 = None ELSE TRUE) /\ (IF n < 4 THEN v4 = None ELSE TRUE)
  /\ (IF n < 5 THEN v5 = None ELSE TRUE) /\ (IF n < 6 THEN v6 = None ELSE TRUE)
  /\ (IF n < 7 THEN v7 = None ELSE TRUE) /\ (IF n < 8 THEN v8 = None ELSE TRUE)
  /\ (IF n < 9 THEN v9 = None ELSE TRUE) /\ (IF n < 10 THEN v10 = None ELSE TRUE)
  /\ (IF n < 11 THEN v11 = None ELSE TRUE) /\ (IF n < 12 THEN v12 = None ELSE TRUE)
  /\ (IF n < 13 THEN v13 = None ELSE TRUE) /\ (IF n < 14 THEN v14 = None ELSE TRUE)
  /\ (IF n < 15 THEN v15 = None ELSE TRUE) /\ (IF n < 16 THEN v16 = None ELSE TRUE)
  /\ (IF n < 17 THEN v17 = None ELSE TRUE) /\ (IF n < 18 THEN v18 = None ELSE TRUE)
  /\ (IF n < 19 THEN v19 = None ELSE TRUE) /\ (IF n < 20 THEN v20 = None ELSE TRUE)
  /\ (IF n < 21 THEN v21 = None ELSE TRUE) /\ (IF n < 22 THEN v22 = None ELSE TRUE)
  /\ (IF n < 23 THEN v23 = None ELSE TRUE) /\ (IF n < 24 THEN v24 = None ELSE TRUE)

(* A component with n variables leaves those from v(n+1) on alone.          *)
from20 == <<v20, v21, v22, v23, v24>>
from17 == <<v17, v18, v19, from20>>
from16 == <<v16, from17>>
from12 == <<v12, v13, v14, v15, from16>>
from11 == <<v11, from12>>
from10 == <<v10, from11>>
from7 == <<v7, v8, v9, from10>>
from6 == <<v6, from7>>
from4 == <<v4, v5, from6>>

-----------------------------------------------------------------------------
Durations == [t \in {"gold", "unstaked", "unknown"} |-> IF t = "gold" THEN 1 ELSE 3]
Located == [p \in {d1, d2, d3, k1} |-> IF p \in {d1, d2} THEN "eu" ELSE IF p = d3 THEN "us" ELSE "?"]
Addressed == [p \in {d1, d2, d3, k1} |-> IF p \in {d1, d3} THEN "a" ELSE IF p = d2 THEN "b" ELSE "?"]

NoFolders == [k \in {k1, k2, k3} |-> None]
Folders == [NoFolders EXCEPT ![k2] = "f"]

Nobody == [deploy |-> 1, elig |-> 0, ack |-> 0, late |-> 0, flip |-> 0, monitor |-> 0,
           report |-> 0, failover |-> 0, sync |-> 0]
Budgets ==
  {[Nobody EXCEPT !.elig = 1, !.ack = 2, !.sync = 1],
   [Nobody EXCEPT !.ack = 1, !.late = 1, !.failover = 1],
   [Nobody EXCEPT !.sync = 3],
   [Nobody EXCEPT !.ack = 1, !.late = 1, !.flip = 1, !.monitor = 1, !.report = 1]}

Policy(peers, closed, allow, deny) ==
  [peers |-> peers, closed |-> closed, allow |-> allow, deny |-> deny]
Policies ==
  [d \in {d1, d2, d3} |->
     IF d = d1 THEN {Policy({d2}, FALSE, << >>, <<{1}, {2, 3}>>), Policy({d2}, TRUE, <<{1, 2}>>, <<{2}>>)}
     ELSE IF d = d2 THEN {Policy({d1}, FALSE, <<{1}>>, <<{1, 2}>>)}
     ELSE {Policy({}, TRUE, <<{3}>>, << >>)}]

(* MessageRouter: one peer's messages on two connections; the same through  *)
(* a restart, with the scorer wired as the daemon does; and a wallet whose  *)
(* stake comes and goes.                                                    *)
Banning ==
  INSTANCE MessageRouter WITH
    Peers <- {d1}, Conns <- {x1, x2}, Wallets <- {}, Tiers <- {"gold"},
    BanDuration <- Durations, ScoreBan <- 3, ScorerBans <- TRUE, InitialScores <- {None},
    Kinds <- BOOLEAN, CacheTTL <- 2, NegativeTTL <- 1, ErrorTTL <- 1,
    ViolationWindow <- 2, MaxMessages <- 4, MaxRestarts <- 0, MaxTime <- 3,
    clock <- v1, chain <- v2, lostAt <- v3, events <- v4, ps <- v5, peers <- v6,
    wallet <- v7, cache <- v8, limiters <- v9, viol <- v10, score <- v11, bans <- v12,
    saved <- v13, frame <- v14, messages <- v15, restarts <- v16

Restarting ==
  INSTANCE MessageRouter WITH
    Peers <- {d1}, Conns <- {w1}, Wallets <- {}, Tiers <- {"gold"},
    BanDuration <- Durations, ScoreBan <- 3, ScorerBans <- FALSE, InitialScores <- {None},
    Kinds <- BOOLEAN, CacheTTL <- 2, NegativeTTL <- 1, ErrorTTL <- 1,
    ViolationWindow <- 2, MaxMessages <- 4, MaxRestarts <- 1, MaxTime <- 3,
    clock <- v1, chain <- v2, lostAt <- v3, events <- v4, ps <- v5, peers <- v6,
    wallet <- v7, cache <- v8, limiters <- v9, viol <- v10, score <- v11, bans <- v12,
    saved <- v13, frame <- v14, messages <- v15, restarts <- v16

Staking ==
  INSTANCE MessageRouter WITH
    Peers <- {d1}, Conns <- {d2}, Wallets <- {w1}, Tiers <- {"gold"},
    BanDuration <- Durations, ScoreBan <- 3, ScorerBans <- TRUE, InitialScores <- {None,
    140}, Kinds <- {TRUE}, CacheTTL <- 2, NegativeTTL <- 1, ErrorTTL <- 1,
    ViolationWindow <- 2, MaxMessages <- 2, MaxRestarts <- 0, MaxTime <- 3,
    clock <- v1, chain <- v2, lostAt <- v3, events <- v4, ps <- v5, peers <- v6,
    wallet <- v7, cache <- v8, limiters <- v9, viol <- v10, score <- v11, bans <- v12,
    saved <- v13, frame <- v14, messages <- v15, restarts <- v16


(* PeerTable: four peers, two of a region and two of a subnet, for a table  *)
(* of three.  The code starts testing shares at four peers, here at two.    *)
Table ==
  INSTANCE PeerTable WITH
    Peers <- {d1, d2, d3, k1}, Region <- Located, Subnet <- Addressed, Unknown <- "?",
    MaxPeers <- 3, Bootstrapping <- 2, RegionShare <- 50, SubnetShare <- 67,
    MaxSends <- 2,
    table <- v1, connected <- v2, regions <- v3, subnets <- v4, total <- v5, node <- v6,
    sending <- v7, bypassed <- v8, drifted <- v9, sends <- v10


(* SnapshotManager: chains of one container's snapshots with a restart, one *)
(* of whose states is shorter; two containers under one total; and an       *)
(* import and a rotation over two keys.                                     *)
Chains ==
  INSTANCE SnapshotManager WITH
    Containers <- {w1}, States <- {<<k1, k1>>, <<k1, k2>>, <<k1>>}, Keys <- {d1},
    MaxSnapshots <- 3, MaxTotalSize <- 7, MaxCalls <- 4, MaxRestarts <- 1,
    MaxImports <- 0, Nothing <- None,
    snapshots <- v1, totalSize <- v2, blockHashes <- v3, key <- v4, files <- v5,
    exported <- v6, calls <- v7, restarts <- v8, imports <- v9, spoiled <- v10

Shared ==
  INSTANCE SnapshotManager WITH
    Containers <- {w1, w2}, States <- {<<k1, k1>>, <<k1, k2>>}, Keys <- {d1},
    MaxSnapshots <- 2, MaxTotalSize <- 5, MaxCalls <- 3, MaxRestarts <- 0,
    MaxImports <- 0, Nothing <- None,
    snapshots <- v1, totalSize <- v2, blockHashes <- v3, key <- v4, files <- v5,
    exported <- v6, calls <- v7, restarts <- v8, imports <- v9, spoiled <- v10

Rotated ==
  INSTANCE SnapshotManager WITH
    Containers <- {w1}, States <- {<<k1, k1>>, <<k1, k2>>}, Keys <- {d1, d2},
    MaxSnapshots <- 2, MaxTotalSize <- 5, MaxCalls <- 3, MaxRestarts <- 0,
    MaxImports <- 1, Nothing <- None,
    snapshots <- v1, totalSize <- v2, blockHashes <- v3, key <- v4, files <- v5,
    exported <- v6, calls <- v7, restarts <- v8, imports <- v9, spoiled <- v10


(* ObjectStore: two writers and readers of one object, in the clear and     *)
(* sealed; two wallets after the same buckets; and listings by pages of two *)
(* of three keys, one of them in a folder, while objects come and go.       *)
Objects ==
  INSTANCE ObjectStore WITH
    Clients <- {x1, x2}, Wallets <- {w1}, Buckets <- {d1}, Keys <- <<k1>>,
    Folder <- Folders, Bodies <- {1, 2, 3}, MaxObjectSize <- 2, MaxBuckets <- 1,
    PageSize <- 2, Encrypted <- FALSE, MaxCalls <- 4, MaxFaults <- 1, Nothing <- None,
    buckets <- v1, meta <- v2, blob <- v3, call <- v4, used <- v5, answer <- v6,
    faults <- v7, calls <- v8, overlapped <- v9

SealedObjects ==
  INSTANCE ObjectStore WITH
    Clients <- {x1, x2}, Wallets <- {w1}, Buckets <- {d1}, Keys <- <<k1>>,
    Folder <- Folders, Bodies <- {1, 2}, MaxObjectSize <- 2, MaxBuckets <- 1,
    PageSize <- 2, Encrypted <- TRUE, MaxCalls <- 4, MaxFaults <- 1, Nothing <- None,
    buckets <- v1, meta <- v2, blob <- v3, call <- v4, used <- v5, answer <- v6,
    faults <- v7, calls <- v8, overlapped <- v9

Namespaces ==
  INSTANCE ObjectStore WITH
    Clients <- {x1, x2}, Wallets <- {w1, w2}, Buckets <- {d1, d2}, Keys <- <<k1>>,
    Folder <- Folders, Bodies <- {1}, MaxObjectSize <- 2, MaxBuckets <- 1, PageSize <- 2,
    Encrypted <- FALSE, MaxCalls <- 4, MaxFaults <- 0, Nothing <- None,
    buckets <- v1, meta <- v2, blob <- v3, call <- v4, used <- v5, answer <- v6,
    faults <- v7, calls <- v8, overlapped <- v9

Listing ==
  INSTANCE ObjectStore WITH
    Clients <- {x1, x2}, Wallets <- {w1}, Buckets <- {d1}, Keys <- <<k1, k2, k3>>,
    Folder <- Folders, Bodies <- {1}, MaxObjectSize <- 2, MaxBuckets <- 1, PageSize <- 2,
    Encrypted <- FALSE, MaxCalls <- 5, MaxFaults <- 0, Nothing <- None,
    buckets <- v1, meta <- v2, blob <- v3, call <- v4, used <- v5, answer <- v6,
    faults <- v7, calls <- v8, overlapped <- v9


(* StateStore: two buckets through three starts, with two keys to rotate    *)
(* between.                                                                 *)
State ==
  INSTANCE StateStore WITH
    Names <- <<"deployments", "bans">>, Ids <- {d1}, Values <- {w1, w2}, EncKeys <- {k1,
    k2}, MaxPuts <- 3, MaxStarts <- 3, Nothing <- None,
    db <- v1, truth <- v2, encKey <- v3, keyFile <- v4, rotation <- v5, daemon <- v6,
    legacy <- v7, version <- v8, puts <- v9, starts <- v10, stranded <- v11


(* ReplicaHost: one deployment, asked for and ordered about by two nodes,   *)
(* twice each.                                                              *)
Hosting ==
  INSTANCE ReplicaHost WITH
    Ids <- {d1}, Nodes <- {x1, x2}, MaxRequests <- 2, MaxOrders <- 2, Nothing <- None,
    rec <- v1, ctr <- v2, molt <- v3, key <- v4, task <- v5, order <- v6, owned <- v7,
    deletes <- v8, crossed <- v9


(* ReplicaHealth: one deployment on two peers, with a table of one replica  *)
(* set and a channel of one ack; a behaviour exercises the acks, failover,  *)
(* consensus or the reports.                                                *)
Redundancy ==
  INSTANCE ReplicaHealth WITH
    Ids <- {d1}, Peers <- {x1, x2}, Widths <- {1, 2}, MaxTracked <- 1, ChanCap <- 1,
    Budgets <- Budgets, Nothing <- None,
    dep <- v1, alive <- v2, health <- v3, snap <- v4, sets <- v5, fail <- v6,
    reported <- v7, pend <- v8, wait <- v9, cons <- v10, asked <- v11, elig <- v12,
    left <- v13, ghosts <- v14, acked <- v15


(* ContainerRuntime: one container, two callers, a daemon that may die      *)
(* once.                                                                    *)
Runtime ==
  INSTANCE ContainerRuntime WITH
    Ids <- {d1}, Callers <- {x1, x2}, Profiles <- {"open", "sealed"},
    Sealed <- {"sealed"}, Default <- "open", MaxCalls <- 3, MaxFaults <- 1, MaxLines <- 2,
    MaxReads <- 1, Nothing <- None,
    up <- v1, real <- v2, obj <- v3, tracked <- v4, mu <- v5, call <- v6, log <- v7,
    sidecar <- v8, sess <- v9, lines <- v10, rd <- v11, made <- v12, unsaved <- v13,
    refused <- v14, unread <- v15, late <- v16, calls <- v17, faults <- v18, reads <- v19


(* ImageStore: two deployments of one image under two spellings, with a     *)
(* scanner, encryption at rest and a tag that moves; and three images for   *)
(* room for one, through two ticks.                                         *)
Images ==
  INSTANCE ImageStore WITH
    Deployers <- {x1, x2}, Refs <- {"a", "A"}, Stored <- [r \in {"a", "A"} |-> "A"],
    Digests <- {"good", "bad"}, Flawed <- {"bad"}, Signed <- {"good"}, Encrypting <- TRUE,
    Scanning <- TRUE, MaxSize <- 0, MaxAge <- 2, MaxDeploys <- 2, MaxFaults <- 0,
    MaxTicks <- 0, MaxPushes <- 1, MaxSweeps <- 1, Nothing <- None,
    registry <- v1, image <- v2, decrypted <- v3, mark <- v4, cache <- v5, call <- v6,
    running <- v7, gc <- v8, moved <- v9, scans <- v10, denied <- v11, deploys <- v12,
    faults <- v13, ticks <- v14, pushes <- v15, sweeps <- v16

Evictions ==
  INSTANCE ImageStore WITH
    Deployers <- {x1}, Refs <- {"A", "B", "C"}, Stored <- [r \in {"A", "B", "C"} |-> r],
    Digests <- {"good"}, Flawed <- {}, Signed <- {}, Encrypting <- FALSE,
    Scanning <- FALSE, MaxSize <- 1, MaxAge <- 3, MaxDeploys <- 3, MaxFaults <- 0,
    MaxTicks <- 2, MaxPushes <- 0, MaxSweeps <- 1, Nothing <- None,
    registry <- v1, image <- v2, decrypted <- v3, mark <- v4, cache <- v5, call <- v6,
    running <- v7, gc <- v8, moved <- v9, scans <- v10, denied <- v11, deploys <- v12,
    faults <- v13, ticks <- v14, pushes <- v15, sweeps <- v16


(* ContainerNetworks: three deployments, one a replica, on four addresses   *)
(* and two ports.                                                           *)
Networks ==
  INSTANCE ContainerNetworks WITH
    Ids <- {d1, d2, d3}, Replicas <- {d3}, Wanted <- [d \in {d1, d2, d3} |-> IF d = d3
    THEN 0 ELSE 1], Policies <- Policies, Addrs <- 1 .. 3, MaxPort <- 2, MaxIP <- 4,
    MaxFaults <- 1, Nothing <- None,
    net <- v1, ports <- v2, freed <- v3, next <- v4, store <- v5, applied <- v6,
    appliedIP <- v7, chain <- v8, forward <- v9, up <- v10, down <- v11, plan <- v12,
    rejected <- v13, blurred <- v14, faults <- v15


(* LocalDeployment: one deployment, with an encrypted volume and a key or   *)
(* without, two API calls at a time, a failing command and a crash.         *)
Deploying ==
  INSTANCE LocalDeployment WITH
    Ids <- {d1}, Threads <- {x1, x2}, Wishes <- {{}, {"envelope", "ports"}},
    MaxCalls <- 5, MaxFaults <- 1, MaxCrashes <- 1, Nothing <- None,
    rec <- v1, disk <- v2, ctr <- v3, keyed <- v4, have <- v5, volume <- v6, deploy <- v7,
    call <- v8, sweep <- v9, used <- v10, gone <- v11, failed <- v12, marred <- v13,
    calls <- v14, faults <- v15, crashes <- v16


(* ContainerManager with its payment client: an endpoint that fails in      *)
(* every way it can; two calls at once; and two savers at once, with a      *)
(* restart from what they wrote.  In the last two another operator may      *)
(* select providers.                                                        *)
Faulty ==
  INSTANCE ContainerManager WITH
    Jobs <- {d1}, RPCFaults <- TRUE, OtherOperators <- FALSE, Calls <- {w1},
    Savers <- {w1}, Peers <- {k1}, MaxRestarts <- 1, NoDep <- None, NoLook <- None,
    chain <- v1, pool <- v2, stuck <- v3, gap <- v4, res <- v5, sent <- v6, leaked <- v7,
    fault <- v8, dep <- v9, inMap <- v10, disk <- v11, saver <- v12, ctr <- v13,
    pending <- v14, call <- v15, orphan <- v16, look <- v17, up <- v18, restarts <- v19

Racing ==
  INSTANCE ContainerManager WITH
    Jobs <- {d1}, RPCFaults <- FALSE, OtherOperators <- TRUE, Calls <- {x1, x2},
    Savers <- {w1}, Peers <- {k1}, MaxRestarts <- 0, NoDep <- None, NoLook <- None,
    chain <- v1, pool <- v2, stuck <- v3, gap <- v4, res <- v5, sent <- v6, leaked <- v7,
    fault <- v8, dep <- v9, inMap <- v10, disk <- v11, saver <- v12, ctr <- v13,
    pending <- v14, call <- v15, orphan <- v16, look <- v17, up <- v18, restarts <- v19

Writers ==
  INSTANCE ContainerManager WITH
    Jobs <- {d1}, RPCFaults <- FALSE, OtherOperators <- TRUE, Calls <- {w1},
    Savers <- {x1, x2}, Peers <- {k1}, MaxRestarts <- 0, NoDep <- None, NoLook <- None,
    chain <- v1, pool <- v2, stuck <- v3, gap <- v4, res <- v5, sent <- v6, leaked <- v7,
    fault <- v8, dep <- v9, inMap <- v10, disk <- v11, saver <- v12, ctr <- v13,
    pending <- v14, call <- v15, orphan <- v16, look <- v17, up <- v18, restarts <- v19


(* ChainClient: two callers over three http endpoints; over two of which    *)
(* one is dialled; and two event subscriptions over a connection that       *)
(* drops.                                                                   *)
Failover ==
  INSTANCE ChainClient WITH
    Endpoints <- {d1, d2, d3}, Dialled <- {}, Callers <- {x1, x2}, Kinds <- {},
    MaxErrors <- 2, MaxCalls <- 4, MaxFlips <- 2, MaxBlocks <- 1, MaxDrops <- 0,
    MaxClients <- 9, Nothing <- None,
    ep <- v1, up <- v2, client <- v3, activeRPC <- v4, connected <- v5, call <- v6,
    ws <- v7, minted <- v8, log <- v9, last <- v10, sub <- v11, todo <- v12,
    handled <- v13, again <- v14, regressed <- v15, phase <- v16, calls <- v17,
    flips <- v18, drops <- v19

Dialling ==
  INSTANCE ChainClient WITH
    Endpoints <- {d1, d2}, Dialled <- {d2}, Callers <- {x1, x2}, Kinds <- {},
    MaxErrors <- 2, MaxCalls <- 3, MaxFlips <- 2, MaxBlocks <- 1, MaxDrops <- 0,
    MaxClients <- 9, Nothing <- None,
    ep <- v1, up <- v2, client <- v3, activeRPC <- v4, connected <- v5, call <- v6,
    ws <- v7, minted <- v8, log <- v9, last <- v10, sub <- v11, todo <- v12,
    handled <- v13, again <- v14, regressed <- v15, phase <- v16, calls <- v17,
    flips <- v18, drops <- v19

Watching ==
  INSTANCE ChainClient WITH
    Endpoints <- {d1}, Dialled <- {}, Callers <- {}, Kinds <- {x1, x2}, MaxErrors <- 2,
    MaxCalls <- 0, MaxFlips <- 0, MaxBlocks <- 3, MaxDrops <- 1, MaxClients <- 3,
    Nothing <- None,
    ep <- v1, up <- v2, client <- v3, activeRPC <- v4, connected <- v5, call <- v6,
    ws <- v7, minted <- v8, log <- v9, last <- v10, sub <- v11, todo <- v12,
    handled <- v13, again <- v14, regressed <- v15, phase <- v16, calls <- v17,
    flips <- v18, drops <- v19


(* PaymentService: each part of the mock contracts and the local ledgers;   *)
(* and two spending calls over an endpoint that may refuse one transaction. *)
Ledgers ==
  INSTANCE PaymentService WITH
    Parts <- {"token", "staking", "escrow", "slashing", "conduct", "registry", "stakes",
    "credits", "ledgers", "quotes"}, Callers <- {x1, x2}, Jobs <- {d1}, Names <- {k1},
    Deployments <- {d1, d2}, NodeIDs <- {d1, d2}, Providers <- {w1, w2}, Amounts <- {1,
    2}, Period <- 3, Initial <- 3, Unit <- 4, MinScore <- 250, MaxScore <- 1000,
    MaxCalls <- 5, MaxFaults <- 0, Nothing <- None,
    part <- v1, mock <- v2, local <- v3, client <- v4, calls <- v5, faults <- v6

Spending ==
  INSTANCE PaymentService WITH
    Parts <- {"chain"}, Callers <- {x1, x2}, Jobs <- {d1}, Names <- {k1},
    Deployments <- {d1, d2}, NodeIDs <- {d1, d2}, Providers <- {w1, w2}, Amounts <- {1,
    2}, Period <- 3, Initial <- 3, Unit <- 4, MinScore <- 250, MaxScore <- 1000,
    MaxCalls <- 3, MaxFaults <- 1, Nothing <- None,
    part <- v1, mock <- v2, local <- v3, client <- v4, calls <- v5, faults <- v6


(* ExecSessions: one session relayed to a provider, attached on this node,  *)
(* two sessions at once, and two for one place over a network that loses a  *)
(* message.                                                                 *)
Relayed ==
  INSTANCE ExecSessions WITH
    Containers <- {d1}, LocalTo <- {}, Agents <- {d1}, Owner <- [d \in {d1} |-> w1],
    Wallets <- {w1, w2}, SessionCap <- 1, StreamCap <- 1, ChanCap <- 1, MaxSessions <- 1,
    MaxFrames <- 3, MaxLost <- 1, MaxStops <- 1, Nothing <- None,
    up <- v1, stopping <- v2, chal <- v3, issued <- v4, sess <- v5, bridge <- v6,
    of <- v7, relay <- v8, dataCh <- v9, closeCh <- v10, writer <- v11, wsIn <- v12,
    client <- v13, toProv <- v14, toReq <- v15, opening <- v16, live <- v17, reg <- v18,
    proc <- v19, heard <- v20, out <- v21, made <- v22, lost <- v23, stops <- v24

Attached ==
  INSTANCE ExecSessions WITH
    Containers <- {d1}, LocalTo <- {d1}, Agents <- {d1}, Owner <- [d \in {d1} |-> w1],
    Wallets <- {w1, w2}, SessionCap <- 1, StreamCap <- 1, ChanCap <- 1, MaxSessions <- 1,
    MaxFrames <- 3, MaxLost <- 0, MaxStops <- 1, Nothing <- None,
    up <- v1, stopping <- v2, chal <- v3, issued <- v4, sess <- v5, bridge <- v6,
    of <- v7, relay <- v8, dataCh <- v9, closeCh <- v10, writer <- v11, wsIn <- v12,
    client <- v13, toProv <- v14, toReq <- v15, opening <- v16, live <- v17, reg <- v18,
    proc <- v19, heard <- v20, out <- v21, made <- v22, lost <- v23, stops <- v24

Sessions ==
  INSTANCE ExecSessions WITH
    Containers <- {d1}, LocalTo <- {}, Agents <- {}, Owner <- [d \in {d1} |-> w1],
    Wallets <- {w1, w2}, SessionCap <- 2, StreamCap <- 1, ChanCap <- 1, MaxSessions <- 2,
    MaxFrames <- 0, MaxLost <- 0, MaxStops <- 1, Nothing <- None,
    up <- v1, stopping <- v2, chal <- v3, issued <- v4, sess <- v5, bridge <- v6,
    of <- v7, relay <- v8, dataCh <- v9, closeCh <- v10, writer <- v11, wsIn <- v12,
    client <- v13, toProv <- v14, toReq <- v15, opening <- v16, live <- v17, reg <- v18,
    proc <- v19, heard <- v20, out <- v21, made <- v22, lost <- v23, stops <- v24

Lossy ==
  INSTANCE ExecSessions WITH
    Containers <- {d1}, LocalTo <- {}, Agents <- {}, Owner <- [d \in {d1} |-> w1],
    Wallets <- {w1, w2}, SessionCap <- 1, StreamCap <- 1, ChanCap <- 1, MaxSessions <- 2,
    MaxFrames <- 0, MaxLost <- 1, MaxStops <- 0, Nothing <- None,
    up <- v1, stopping <- v2, chal <- v3, issued <- v4, sess <- v5, bridge <- v6,
    of <- v7, relay <- v8, dataCh <- v9, closeCh <- v10, writer <- v11, wsIn <- v12,
    client <- v13, toProv <- v14, toReq <- v15, opening <- v16, live <- v17, reg <- v18,
    proc <- v19, heard <- v20, out <- v21, made <- v22, lost <- v23, stops <- v24


(* ApiServer: its stores and limiters; the WebSocket hub with two clients;  *)
(* and the bridge with a pool of one connection.                            *)
Api ==
  INSTANCE ApiServer WITH
    Parts <- {"keys", "auth", "catalog", "nodes", "names"}, Callers <- {x1, x2},
    Ids <- {d1, d2}, Wallets <- {w1, w2}, Limit <- 1, Lifetime <- 2, MaxCalls <- 3,
    MaxTicks <- 3, MaxFaults <- 1, Nothing <- None,
    part <- v1, api <- v2, call <- v3, calls <- v4, faults <- v5

Hub ==
  INSTANCE ApiServer WITH
    Parts <- {"hub"}, Callers <- {x1, x2}, Ids <- {d1, d2}, Wallets <- {w1, w2},
    Limit <- 1, Lifetime <- 2, MaxCalls <- 4, MaxTicks <- 3, MaxFaults <- 1,
    Nothing <- None,
    part <- v1, api <- v2, call <- v3, calls <- v4, faults <- v5

Bridge ==
  INSTANCE ApiServer WITH
    Parts <- {"bridge"}, Callers <- {x1, x2}, Ids <- {d1, d2}, Wallets <- {w1, w2},
    Limit <- 1, Lifetime <- 2, MaxCalls <- 2, MaxTicks <- 2, MaxFaults <- 1,
    Nothing <- None,
    part <- v1, api <- v2, call <- v3, calls <- v4, faults <- v5


(* Ingress: requests one after the other with names that move; and its      *)
(* other parts, two calls at a time.                                        *)
Routing ==
  INSTANCE Ingress WITH
    Parts <- {"routing"}, Callers <- {w1}, Ids <- {x1, x2}, Limit <- 1, Lifetime <- 2,
    Registers <- TRUE, MaxCalls <- 2, MaxTicks <- 3, MaxFaults <- 3, Nothing <- None,
    part <- v1, ing <- v2, call <- v3, calls <- v4, faults <- v5

Edge ==
  INSTANCE Ingress WITH
    Parts <- {"limits", "domains", "records", "edges", "egress", "tunnels"},
    Callers <- {x1, x2}, Ids <- {x1, x2}, Limit <- 1, Lifetime <- 0, Registers <- TRUE,
    MaxCalls <- 3, MaxTicks <- 2, MaxFaults <- 3, Nothing <- None,
    part <- v1, ing <- v2, call <- v3, calls <- v4, faults <- v5


(* ManagementPlane: one request over a daemon that dies once.               *)
Plane ==
  INSTANCE ManagementPlane WITH
    Ids <- {x1, x2}, MaxRestarts <- 1, Nothing <- None,
    daemon <- v1, web <- v2, ask <- v3


(* NodeLifecycle: two daemons on a host with three commands and a kill; two *)
(* commands of the setup at once; the certificates; the doctor.             *)
Lifecycle ==
  INSTANCE NodeLifecycle WITH
    Parts <- {"processes", "setup", "certs", "doctor"}, Procs <- {x1, x2},
    Terminals <- {x1, x2}, MaxCalls <- 3, MaxFaults <- 1, Nothing <- None,
    part <- v1, node <- v2, cli <- v3, calls <- v4, faults <- v5


(* Workloads: two callers at a time over a cache, a semaphore and limits of *)
(* one; crawl jobs of one wallet and of nobody; and a pool of two           *)
(* JavaScript workers.                                                      *)
Functions ==
  INSTANCE Workloads WITH
    Parts <- {"molts", "guests", "canaries", "agents", "threat"}, Callers <- {x1, x2},
    Keys <- {k1, k2}, Contents <- {w1, w2}, MaxCalls <- 3, MaxCache <- 1,
    MaxInstances <- 1, PoolSize <- 1, MaxSpawns <- 1, MaxPerWallet <- 1, Nothing <- None,
    part <- v1, st <- v2, call <- v3

Jobs ==
  INSTANCE Workloads WITH
    Parts <- {"crawl"}, Callers <- {x1, x2}, Keys <- {k1, k2}, Contents <- {w1},
    MaxCalls <- 3, MaxCache <- 1, MaxInstances <- 1, PoolSize <- 1, MaxSpawns <- 1,
    MaxPerWallet <- 1, Nothing <- None,
    part <- v1, st <- v2, call <- v3

Scripts ==
  INSTANCE Workloads WITH
    Parts <- {"deno"}, Callers <- {x1, x2}, Keys <- {k1, k2}, Contents <- {w1, w2},
    MaxCalls <- 2, MaxCache <- 1, MaxInstances <- 1, PoolSize <- 2, MaxSpawns <- 3,
    MaxPerWallet <- 1, Nothing <- None,
    part <- v1, st <- v2, call <- v3

-----------------------------------------------------------------------------
MCInit ==
  /\ scenario \in Scenarios
  /\ Init /\ SlotsInit
  /\ \/ scenario \in {"replay", "slots"} /\ Spare(0)
     \/ scenario = "banning" /\ Banning!Init /\ Spare(16)
     \/ scenario = "restarting" /\ Restarting!Init /\ Spare(16)
     \/ scenario = "staking" /\ Staking!Init /\ Spare(16)
     \/ scenario = "table" /\ Table!Init /\ Spare(10)
     \/ scenario = "chains" /\ Chains!Init /\ Spare(10)
     \/ scenario = "shared" /\ Shared!Init /\ Spare(10)
     \/ scenario = "rotated" /\ Rotated!Init /\ Spare(10)
     \/ scenario = "objects" /\ Objects!Init /\ Spare(9)
     \/ scenario = "sealed" /\ SealedObjects!Init /\ Spare(9)
     \/ scenario = "buckets" /\ Namespaces!Init /\ Spare(9)
     \/ scenario = "listing" /\ Listing!Init /\ Spare(9)
     \/ scenario = "state" /\ State!Init /\ Spare(11)
     \/ scenario = "hosting" /\ Hosting!Init /\ Spare(9)
     \/ scenario = "redundancy" /\ Redundancy!Init /\ Spare(15)
     \/ scenario = "runtime" /\ Runtime!Init /\ Spare(19)
     \/ scenario = "images" /\ Images!Init /\ Spare(16)
     \/ scenario = "evictions" /\ Evictions!Init /\ Spare(16)
     \/ scenario = "networks" /\ Networks!Init /\ Spare(15)
     \/ scenario = "deploying" /\ Deploying!Init /\ Spare(16)
     \/ scenario = "faulty" /\ Faulty!Init /\ Spare(19)
     \/ scenario = "racing" /\ Racing!Init /\ Spare(19)
     \/ scenario = "writers" /\ Writers!Init /\ Spare(19)
     \/ scenario = "failover" /\ Failover!Init /\ Spare(19)
     \/ scenario = "dialling" /\ Dialling!Init /\ Spare(19)
     \/ scenario = "watching" /\ Watching!Init /\ Spare(19)
     \/ scenario = "ledgers" /\ Ledgers!Init /\ Spare(6)
     \/ scenario = "spending" /\ Spending!Init /\ Spare(6)
     \/ scenario = "relayed" /\ Relayed!Init /\ Spare(24)
     \/ scenario = "attached" /\ Attached!Init /\ Spare(24)
     \/ scenario = "sessions" /\ Sessions!Init /\ Spare(24)
     \/ scenario = "lossy" /\ Lossy!Init /\ Spare(24)
     \/ scenario = "api" /\ Api!Init /\ Spare(5)
     \/ scenario = "hub" /\ Hub!Init /\ Spare(5)
     \/ scenario = "bridge" /\ Bridge!Init /\ Spare(5)
     \/ scenario = "routing" /\ Routing!Init /\ Spare(5)
     \/ scenario = "ingress" /\ Edge!Init /\ Spare(5)
     \/ scenario = "plane" /\ Plane!Init /\ Spare(3)
     \/ scenario = "lifecycle" /\ Lifecycle!Init /\ Spare(5)
     \/ scenario = "functions" /\ Functions!Init /\ Spare(3)
     \/ scenario = "jobs" /\ Jobs!Init /\ Spare(3)
     \/ scenario = "scripts" /\ Scripts!Init /\ Spare(3)

(* NonceTracker: the window just covers the ages, the skew and the stall,   *)
(* as 10 minutes cover 5 minutes and 30 seconds in the code.                *)
ReplayStep == scenario = "replay" /\ Next /\ UNCHANGED <<others, slotVars>>

(* ConnectionSlots: three connections of one address for two places, where  *)
(* the code allows five per address and ten thousand in all.                *)
SlotsStep == scenario = "slots" /\ SlotsNext /\ UNCHANGED <<others, vars>>

OtherStep ==
  \/ scenario = "banning" /\ Banning!Next /\ UNCHANGED from17
  \/ scenario = "restarting" /\ Restarting!Next /\ UNCHANGED from17
  \/ scenario = "staking" /\ Staking!Next /\ UNCHANGED from17
  \/ scenario = "table" /\ Table!Next /\ UNCHANGED from11
  \/ scenario = "chains" /\ Chains!Next /\ UNCHANGED from11
  \/ scenario = "shared" /\ Shared!Next /\ UNCHANGED from11
  \/ scenario = "rotated" /\ Rotated!Next /\ UNCHANGED from11
  \/ scenario = "objects" /\ Objects!Next /\ UNCHANGED from10
  \/ scenario = "sealed" /\ SealedObjects!Next /\ UNCHANGED from10
  \/ scenario = "buckets" /\ Namespaces!Next /\ UNCHANGED from10
  \/ scenario = "listing" /\ Listing!Next /\ UNCHANGED from10
  \/ scenario = "state" /\ State!Next /\ UNCHANGED from12
  \/ scenario = "hosting" /\ Hosting!Next /\ UNCHANGED from10
  \/ scenario = "redundancy" /\ Redundancy!Next /\ UNCHANGED from16
  \/ scenario = "runtime" /\ Runtime!Next /\ UNCHANGED from20
  \/ scenario = "images" /\ Images!Next /\ UNCHANGED from17
  \/ scenario = "evictions" /\ Evictions!Next /\ UNCHANGED from17
  \/ scenario = "networks" /\ Networks!Next /\ UNCHANGED from16
  \/ scenario = "deploying" /\ Deploying!Next /\ UNCHANGED from17
  \/ scenario = "faulty" /\ Faulty!Next /\ UNCHANGED from20
  \/ scenario = "racing" /\ Racing!Next /\ UNCHANGED from20
  \/ scenario = "writers" /\ Writers!Next /\ UNCHANGED from20
  \/ scenario = "failover" /\ Failover!Next /\ UNCHANGED from20
  \/ scenario = "dialling" /\ Dialling!Next /\ UNCHANGED from20
  \/ scenario = "watching" /\ Watching!Next /\ UNCHANGED from20
  \/ scenario = "ledgers" /\ Ledgers!Next /\ UNCHANGED from7
  \/ scenario = "spending" /\ Spending!Next /\ UNCHANGED from7
  \/ scenario = "relayed" /\ Relayed!Next
  \/ scenario = "attached" /\ Attached!Next
  \/ scenario = "sessions" /\ Sessions!Next
  \/ scenario = "lossy" /\ Lossy!Next
  \/ scenario = "api" /\ Api!Next /\ UNCHANGED from6
  \/ scenario = "hub" /\ Hub!Next /\ UNCHANGED from6
  \/ scenario = "bridge" /\ Bridge!Next /\ UNCHANGED from6
  \/ scenario = "routing" /\ Routing!Next /\ UNCHANGED from6
  \/ scenario = "ingress" /\ Edge!Next /\ UNCHANGED from6
  \/ scenario = "plane" /\ Plane!Next /\ UNCHANGED from4
  \/ scenario = "lifecycle" /\ Lifecycle!Next /\ UNCHANGED from6
  \/ scenario = "functions" /\ Functions!Next /\ UNCHANGED from4
  \/ scenario = "jobs" /\ Jobs!Next /\ UNCHANGED from4
  \/ scenario = "scripts" /\ Scripts!Next /\ UNCHANGED from4

MCNext ==
  /\ ReplayStep \/ SlotsStep \/ (OtherStep /\ UNCHANGED <<vars, slotVars>>)
  /\ UNCHANGED scenario

MCSpec == MCInit /\ [][MCNext]_mcVars

(* Callers, clients, peers and event kinds x1 and x2 are alike in every    *)
(* scenario.                                                               *)
Symmetry == Permutations({x1, x2})

-----------------------------------------------------------------------------
(* Properties: those of the components, each in the scenarios made for it.  *)
(* NoReplay and SlotsSound are those of the extended modules.               *)



(* Reading a snapshot gives the state it was made of or an error; a full    *)
(* snapshot stays readable while it is listed, an incremental one as long   *)
(* as its parent does; and the limits hold with the true total.             *)
SnapshotsSound ==
  /\ scenario = "chains" => Chains!SnapshotsSound
  /\ scenario = "shared" => Shared!SnapshotsSound
  /\ scenario = "rotated" => Rotated!SnapshotsSound

(* EscrowFinalized is set, anywhere, only when a settling transaction of    *)
(* the job was accepted or the reservation is settled                       *)
(* (ContainerManager!MarksSound).                                           *)
MarksSound ==
  /\ scenario = "faulty" => Faulty!TypeOK /\ Faulty!MarksSound
  /\ scenario = "racing" => Racing!TypeOK /\ Racing!MarksSound
  /\ scenario = "writers" => Writers!TypeOK /\ Writers!MarksSound



(* Containers, their images, networks and volumes: no process, file, rule   *)
(* or key outlives what it belongs to, and the gates before a container     *)
(* hold; daemons and setup commands on one host keep what is theirs; and    *)
(* functions, crawl jobs and agents stay within their limits and answer     *)
(* whoever asked (ContainerRuntime!RuntimeSound, ImageStore!ImagesSound,    *)
(* ContainerNetworks!NetworksSound, LocalDeployment!HostSound,              *)
(* NodeLifecycle!LifecycleSound, Workloads!WorkloadsSound).                 *)
ContainersSound ==
  /\ scenario = "runtime" => Runtime!RuntimeSound
  /\ scenario = "images" => Images!ImagesSound
  /\ scenario = "evictions" => Evictions!ImagesSound
  /\ scenario = "networks" => Networks!NetworksSound
  /\ scenario = "deploying" => Deploying!HostSound
  /\ scenario = "lifecycle" => Lifecycle!LifecycleSound
  /\ scenario = "functions" => Functions!WorkloadsSound
  /\ scenario = "jobs" => Jobs!WorkloadsSound
  /\ scenario = "scripts" => Scripts!WorkloadsSound

(* The endpoints fail over, the event watcher explains every gap, and the   *)
(* books of the payment service balance (ChainClient!ChainSound,            *)
(* PaymentService!PaymentsSound).                                           *)
PaymentsSound ==
  /\ scenario = "failover" => Failover!ChainSound
  /\ scenario = "dialling" => Dialling!ChainSound
  /\ scenario = "watching" => Watching!ChainSound
  /\ scenario = "ledgers" => Ledgers!PaymentsSound
  /\ scenario = "spending" => Spending!PaymentsSound


(* Requests reach the deployment their host denotes and nothing else; slots *)
(* of a tenant, custom domains, edge nodes, sessions and tunnels are        *)
(* counted right and released on every path (Ingress!IngressSound).         *)
IngressSound ==
  /\ scenario = "routing" => Routing!IngressSound
  /\ scenario = "ingress" => Edge!IngressSound
=============================================================================
