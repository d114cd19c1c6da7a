----------------------------- MODULE ApiServer -----------------------------
(****************************************************************************)
(* The HTTP API of a node (internal/api), the local socket behind it        *)
(* (internal/daemon/api*.go) and the client between them                    *)
(* (internal/client).  Its parts share no state, so a behaviour exercises   *)
(* one of them:                                                             *)
(*   keys     the API key manager, its file and its handlers                *)
(*   auth     wallet challenges and sessions, and the per-address limiters  *)
(*   catalog  the deploy catalog and the network policies with their files  *)
(*   nodes    the administrator's notes on nodes                            *)
(*   hub      the WebSocket hub and the pumps of its clients                *)
(*   bridge   the pooled connections to the daemon, the daemon's loop on    *)
(*            each, and the container handlers that use them                *)
(*   names    the daemon's subdomain handlers, gossip and DNS               *)
(****************************************************************************)
EXTENDS Integers, Sequences, FiniteSets, FiniteSetsExt, SequencesExt

CONSTANTS
  Parts,        \* the parts exercised, one in each behaviour
  Callers,      \* requests in progress, or WebSocket clients
  Ids,          \* API keys, presets, sessions or connections: what a part numbers
  Wallets,
  Limit,        \* a part's capacity: keys, burst, buffer, pool or window
  Lifetime,     \* ticks a session lives and an idle limiter is kept
  Nothing,
  MaxCalls,     \* bound: requests made
  MaxTicks,     \* bound: the clock
  MaxFaults     \* bound: failed writes, crashes, failing peers

VARIABLES
  part,     \* the part exercised
  api,      \* the state of the part
  call,     \* what each caller is doing
  calls, faults

server == <<part, api, call, calls, faults>>

Idle == [pc |-> "idle", op |-> "none", id |-> Nothing, arg |-> Nothing, saw |-> {}]

Begin(x, c) ==
  /\ call[x] = Idle
  /\ calls < MaxCalls
  /\ calls' = calls + 1
  /\ call' = [call EXCEPT ![x] = c]

Goes(x, pc) == call' = [call EXCEPT ![x].pc = pc]
Ends(x) == call' = [call EXCEPT ![x] = Idle]
Fault == faults < MaxFaults /\ faults' = faults + 1

-----------------------------------------------------------------------------
(* API keys.  A key's object outlives its removal from the map, so a        *)
(* deleted key keeps its enabled flag for whoever still holds the pointer.  *)
(* The manager has a file when the daemon configures it, and none in        *)
(* development or when its file could not be read.                          *)
NoKey == [held |-> FALSE, on |-> FALSE, perms |-> {}, expired |-> FALSE]
Permissions == {{"read"}, {"write"}, {"admin"}}

NewAPIKeyManager ==
  [file |-> TRUE, torn |-> FALSE, lock |-> Nothing, dead |-> {}, made |-> {}, served |-> {},
   keys |-> [k \in Ids |-> NoKey], disk |-> [k \in Ids |-> NoKey]]

(* The default key of the in-memory manager reads and writes.               *)
NewAPIKeyManagerInMemory(s, k) ==
  [s EXCEPT !.file = FALSE, !.made = @ \cup {k},
            !.keys = [i \in Ids |-> IF i = k THEN [NoKey EXCEPT !.held = TRUE, !.on = TRUE,
                                                    !.perms = {"read", "write"}]
                                    ELSE NoKey]]

Held == {k \in Ids : api.keys[k].held}
Unlocked == api.lock = Nothing

(* handleGatewayKeys, POST: the limit is checked before the body is read    *)
(* and outside the lock under which the key is added.                       *)
handleGatewayKeys(x) ==
  /\ Unlocked
  /\ IF Cardinality(Held) >= Limit
     THEN calls < MaxCalls /\ call[x] = Idle /\ calls' = calls + 1 /\ UNCHANGED call
     ELSE Begin(x, [Idle EXCEPT !.pc = "create"])
  /\ UNCHANGED <<part, api, faults>>

(* CreateKey, then UpdateKey when the request carries a rate limit.         *)
CreateKey(x, k, perms, custom) ==
  /\ call[x].pc = "create"
  /\ Unlocked
  /\ k \notin api.made
  /\ api' = [api EXCEPT !.keys[k] = [held |-> TRUE, on |-> TRUE, perms |-> perms,
                                     expired |-> FALSE],
                        !.made = @ \cup {k}]
  /\ call' = [call EXCEPT ![x].pc = "save", ![x].op = IF custom THEN "limit" ELSE "create",
                          ![x].id = k]
  /\ UNCHANGED <<part, calls, faults>>

(* save, without the manager's lock: the keys are listed under the read     *)
(* lock, marshalled after it is released, and then written.                 *)
ListForSave(x) ==
  /\ call[x].pc = "save"
  /\ Unlocked
  /\ IF api.file
     THEN call' = [call EXCEPT ![x].pc = "marshal", ![x].saw = Held]
     ELSE IF call[x].op = "limit" THEN Goes(x, "update") ELSE Ends(x)
  /\ UNCHANGED <<part, api, calls, faults>>

Marshal(x) ==
  /\ call[x].pc = "marshal"
  /\ call' = [call EXCEPT ![x].pc = "write", ![x].arg =
       [k \in Ids |-> IF k \in call[x].saw THEN [api.keys[k] EXCEPT !.held = TRUE] ELSE NoKey]]
  /\ UNCHANGED <<part, api, calls, faults>>

WriteFile(x) ==
  /\ call[x].pc = "write"
  /\ api' = [api EXCEPT !.disk = call[x].arg, !.torn = FALSE]
  /\ IF call[x].op = "limit"
     THEN call' = [call EXCEPT ![x] = [Idle EXCEPT !.pc = "update", !.op = "limit",
                                                   !.id = call[x].id]]
     ELSE Ends(x)
  /\ UNCHANGED <<part, calls, faults>>

(* RevokeKey, DeleteKey, UpdateKey and UpdateKeyPermissions change the key  *)
(* under the write lock and call save before they release it.  save takes   *)
(* the read lock of the same mutex when there is a file to write: the call  *)
(* never returns and the lock is never released.                            *)
Changed(op, k) ==
  CASE op = "revoke" -> [api.keys[k] EXCEPT !.on = FALSE]
    [] op = "delete" -> [api.keys[k] EXCEPT !.held = FALSE]
    [] op = "enable" -> [api.keys[k] EXCEPT !.on = TRUE]
    [] op = "permit" -> [api.keys[k] EXCEPT !.perms = {"read"}]
    [] op = "limit"  -> api.keys[k]

ChangeKey(x, op, k) ==
  /\ Unlocked
  /\ api' = IF ~api.keys[k].held THEN api
            ELSE [api EXCEPT !.keys[k] = Changed(op, k),
                             !.lock = IF api.file THEN x ELSE Nothing,
                             !.dead = IF api.file THEN @
                                      ELSE IF op \in {"revoke", "delete"} THEN @ \cup {k}
                                      ELSE IF op = "enable" THEN @ \ {k} ELSE @]
  /\ UNCHANGED <<part, faults>>

handleGatewayKeyByID(x, op, k) ==
  /\ Begin(x, IF api.file /\ api.keys[k].held THEN [Idle EXCEPT !.pc = "stuck"] ELSE Idle)
  /\ ChangeKey(x, op, k)

UpdateKey(x) ==
  /\ call[x].pc = "update"
  /\ IF api.file /\ api.keys[call[x].id].held THEN Goes(x, "stuck") ELSE Ends(x)
  /\ ChangeKey(x, "limit", call[x].id)
  /\ UNCHANGED calls

(* ValidateKey and ValidateKeyWithPermission look the key up under the      *)
(* read lock and judge the object after they release it.                    *)
ValidateKey(x, k, p) ==
  /\ Unlocked
  /\ api.keys[k].held
  /\ Begin(x, [Idle EXCEPT !.pc = "judge", !.op = p, !.id = k, !.saw = api.dead])
  /\ UNCHANGED <<part, api, faults>>

Grants(perms, p) == p \in perms \/ "admin" \in perms \/ (p = "read" /\ "write" \in perms)

JudgeLate(x) ==
  LET k == api.keys[call[x].id] IN
  /\ call[x].pc = "judge"
  /\ IF ~k.expired /\ Grants(k.perms, call[x].op)
     THEN /\ Goes(x, "touch")
          /\ api' = [api EXCEPT !.served = @ \cup {<<call[x].id, call[x].saw \cap api.dead>>}]
     ELSE Ends(x) /\ UNCHANGED api
  /\ UNCHANGED <<part, calls, faults>>

Judge(x) ==
  LET k == api.keys[call[x].id] IN
  /\ call[x].pc = "judge"
  /\ IF k.on /\ ~k.expired /\ Grants(k.perms, call[x].op)
     THEN /\ Goes(x, "touch")
          /\ api' = [api EXCEPT !.served = @ \cup {<<call[x].id, call[x].saw \cap api.dead>>}]
     ELSE Ends(x) /\ UNCHANGED api
  /\ UNCHANGED <<part, calls, faults>>

(* The last-used time is set by a goroutine that then saves.                *)
TouchKey(x) ==
  /\ call[x].pc = "touch"
  /\ Unlocked
  /\ call' = [call EXCEPT ![x].pc = "save", ![x].op = "use"]
  /\ UNCHANGED <<part, api, calls, faults>>

KeyExpires(k) ==
  /\ api.keys[k].held /\ ~api.keys[k].expired
  /\ api' = [api EXCEPT !.keys[k].expired = TRUE]
  /\ UNCHANGED <<part, call, calls, faults>>

(* A crash during a write leaves a file that does not parse.  NewServer     *)
(* then falls back to the in-memory manager with its default key.           *)
RestartKeys(k) ==
  LET torn == \E x \in Callers : call[x].pc = "write" IN
  /\ Fault
  /\ call' = [x \in Callers |-> Idle]
  /\ LET s == [api EXCEPT !.lock = Nothing, !.dead = {}, !.served = {}, !.torn = torn \/ @] IN
     \/ /\ torn \/ api.torn
        /\ k \notin api.made
        /\ api' = NewAPIKeyManagerInMemory(s, k)
     \/ ~api.torn /\ api' = [s EXCEPT !.keys = api.disk, !.file = TRUE, !.torn = FALSE]
  /\ UNCHANGED <<part, calls>>

KeySteps ==
  \E x \in Callers :
    \/ handleGatewayKeys(x) \/ ListForSave(x) \/ Marshal(x) \/ WriteFile(x) \/ UpdateKey(x)
    \/ Judge(x) \/ TouchKey(x)
    \/ \E k \in Ids :
         \/ \E perms \in Permissions, custom \in BOOLEAN : CreateKey(x, k, perms, custom)
         \/ \E op \in {"revoke", "delete", "enable", "permit"} : handleGatewayKeyByID(x, op, k)
         \/ \E p \in {"read", "write"} : ValidateKey(x, k, p)

(* No request is admitted with a key whose revocation returned before the   *)
(* request looked it up, unless it was enabled again, and concurrent        *)
(* creations exceed the limit by at most the number of other requests that  *)
(* had passed its check.                                                    *)
KeysSound ==
  /\ \A a \in api.served : a[1] \notin a[2]
  /\ Cardinality(Held) <= Limit + Cardinality(Callers) - 1

(* "RevokeKey revokes (disables) a key" (apikey.go): no call is left        *)
(* holding the manager's lock.                                              *)
KeysServe == part = "keys" => api.lock = Nothing

-----------------------------------------------------------------------------
(* Wallet sessions and the limiters.  One tick refills one request.  Two    *)
(* limiters of an address differ only while one of them has been dropped    *)
(* from the map by the cleanup and is still in a request's hand.            *)
Full == [tokens |-> Limit, seen |-> 0]

NewWalletAuthManager ==
  [now |-> 0,
   challenge |-> [w \in Wallets |-> Nothing],      \* when it expires
   session |-> [t \in Ids |-> [w |-> Nothing, until |-> 0]],
   limiter |-> <<Full>>, current |-> 0,            \* 0: no entry for the address
   marked |-> 0,                                   \* the cleanup has judged this one stale
   admitted |-> 0, dropped |-> 0, answers |-> {}]

(* CreateChallenge hands an unexpired challenge out again.                  *)
CreateChallenge(w) ==
  /\ calls < MaxCalls /\ calls' = calls + 1
  /\ api' = IF api.challenge[w] # Nothing /\ api.now < api.challenge[w] THEN api
            ELSE [api EXCEPT !.challenge[w] = api.now + Lifetime]
  /\ UNCHANGED <<part, call, faults>>

(* handleAuthVerify checks the signature and opens a session.               *)
CreateSession(w, t) ==
  /\ calls < MaxCalls /\ calls' = calls + 1
  /\ api.session[t].w = Nothing
  /\ api' = [api EXCEPT !.session[t] = [w |-> w, until |-> api.now + Lifetime]]
  /\ UNCHANGED <<part, call, faults>>

RevokeSession(t) ==
  /\ api' = [api EXCEPT !.session[t] = [w |-> Nothing, until |-> 0]]
  /\ UNCHANGED <<part, call, calls, faults>>

ValidateSession(t) == api.session[t].w # Nothing /\ api.now <= api.session[t].until

(* CleanupExpired runs every minute.                                        *)
CleanupExpired ==
  /\ api' = [api EXCEPT
       !.challenge = [w \in Wallets |-> IF @[w] # Nothing /\ api.now > @[w] THEN Nothing ELSE @[w]],
       !.session = [t \in Ids |-> IF @[t].w # Nothing /\ api.now > @[t].until
                                  THEN [w |-> Nothing, until |-> 0] ELSE @[t]]]
  /\ UNCHANGED <<part, call, calls, faults>>

(* A request: withPermissionMiddleware authenticates and then takes the     *)
(* limiter of the address; withAdminMiddleware takes the limiter first.     *)
(* What the handler learns about the wallet is asked of the session again.  *)
authenticate(x, t, first) ==
  /\ Begin(x, [Idle EXCEPT !.pc = IF first \/ ValidateSession(t) THEN "limiter" ELSE "idle",
                           !.op = IF first THEN "admin" ELSE "user", !.id = t])
  /\ UNCHANGED <<part, api, faults>>

(* getRateLimiter: load the entry of the address or store a new one.        *)
getRateLimiter(x) ==
  /\ call[x].pc = "limiter"
  /\ LET n == IF api.current = 0 THEN Len(api.limiter) + 1 ELSE api.current IN
     /\ api' = [api EXCEPT !.current = n,
                           !.limiter = IF n > Len(@)
                                       THEN Append(@, [tokens |-> Limit, seen |-> api.now])
                                       ELSE [@ EXCEPT ![n].seen = api.now]]
     /\ call' = [call EXCEPT ![x].pc = "allow", ![x].arg = n]
  /\ UNCHANGED <<part, calls, faults>>

AllowAnyway(x) ==
  /\ call[x].pc = "allow"
  /\ api' = [api EXCEPT !.limiter[call[x].arg].tokens = Max({0, @ - 1}), !.admitted = @ + 1]
  /\ IF call[x].op = "admin" THEN Goes(x, "admin") ELSE Goes(x, "handle")
  /\ UNCHANGED <<part, calls, faults>>

Allow(x) ==
  /\ call[x].pc = "allow"
  /\ IF api.limiter[call[x].arg].tokens > 0
     THEN /\ api' = [api EXCEPT !.limiter[call[x].arg].tokens = @ - 1, !.admitted = @ + 1]
          /\ IF call[x].op = "admin" THEN Goes(x, "admin") ELSE Goes(x, "handle")
     ELSE Ends(x) /\ UNCHANGED api
  /\ UNCHANGED <<part, calls, faults>>

(* authenticateAdmin asks the session again and compares its wallet.        *)
authenticateAdmin(x, admin) ==
  /\ call[x].pc = "admin"
  /\ IF ValidateSession(call[x].id) /\ api.session[call[x].id].w = admin
     THEN Goes(x, "handle") ELSE Ends(x)
  /\ UNCHANGED <<part, api, calls, faults>>

(* extractWalletAddress: empty when the session has expired since.          *)
extractWalletAddress(x) ==
  /\ call[x].pc = "handle"
  /\ api' = [api EXCEPT !.answers = @ \cup
       {[as |-> IF ValidateSession(call[x].id) THEN api.session[call[x].id].w ELSE Nothing,
         live |-> api.now <= api.session[call[x].id].until]}]
  /\ Ends(x)
  /\ UNCHANGED <<part, calls, faults>>

(* cleanupRateLimiters reads an entry's last use, unlocked, and deletes the *)
(* entry after.                                                             *)
cleanupRateLimiters ==
  /\ api.marked = 0 /\ api.current # 0
  /\ api.limiter[api.current].seen < api.now - Lifetime
  /\ api' = [api EXCEPT !.marked = api.current]
  /\ UNCHANGED <<part, call, calls, faults>>

DropLimiter ==
  /\ api.marked # 0
  /\ api' = [api EXCEPT !.current = 0, !.marked = 0,
                        !.dropped = @ + IF api.limiter[api.marked].seen < api.now - Lifetime
                                        THEN 0 ELSE 1]
  /\ UNCHANGED <<part, call, calls, faults>>

Tick ==
  /\ api.now < MaxTicks
  /\ api' = [api EXCEPT !.now = @ + 1,
       !.limiter = [n \in DOMAIN @ |-> [@[n] EXCEPT !.tokens = Min({Limit, @ + 1})]]]
  /\ UNCHANGED <<part, call, calls, faults>>

AuthSteps ==
  \/ \E w \in Wallets : CreateChallenge(w) \/ \E t \in Ids : CreateSession(w, t)
  \/ \E t \in Ids : RevokeSession(t)
  \/ CleanupExpired \/ cleanupRateLimiters \/ DropLimiter \/ Tick
  \/ \E x \in Callers :
       \/ \E t \in Ids, first \in BOOLEAN : authenticate(x, t, first)
       \/ getRateLimiter(x) \/ Allow(x) \/ extractWalletAddress(x)
       \/ authenticateAdmin(x, CHOOSE w \in Wallets : TRUE)

(* An address is admitted for its burst and one request per tick, whatever  *)
(* the cleanup drops, plus one burst for each limiter dropped although it   *)
(* had been used since the cleanup looked at it; and a handler that is      *)
(* given a wallet is given it by a session that has not expired.            *)
AuthSound ==
  /\ api.admitted <= Limit * (1 + api.dropped) + api.now
  /\ \A a \in api.answers : a.as # Nothing => a.live

-----------------------------------------------------------------------------
(* The catalog: a preset names a category and may name a default tier.      *)
(* Ids are the presets and the categories; there is one tier to name, and   *)
(* tiers are only replaced.  The policies share the shape of the store.     *)
NoPreset == [held |-> FALSE, cat |-> Nothing, tier |-> FALSE, on |-> FALSE]

defaultCatalog ==
  [preset |-> [i \in Ids |-> NoPreset], cat |-> [i \in Ids |-> "none"],
   tier |-> "on", version |-> 1]

NewCatalogStore ==
  [mem |-> defaultCatalog, disk |-> defaultCatalog, torn |-> FALSE, failed |-> FALSE,
   policy |-> Nothing, policyDisk |-> Nothing, high |-> 1]

(* saveLocked runs under the store's lock.  A write that fails may leave    *)
(* the file as it was or truncated; the change in memory stays.             *)
saveLocked(c, how) ==
  /\ calls < MaxCalls /\ calls' = calls + 1
  /\ how # "ok" => faults < MaxFaults
  /\ faults' = faults + IF how = "ok" THEN 0 ELSE 1
  /\ LET m == [c EXCEPT !.version = api.mem.version + 1] IN
     api' = [api EXCEPT !.mem = m, !.high = Max({@, m.version}),
                        !.disk = IF how = "ok" THEN m ELSE @,
                        !.torn = IF how = "fail" THEN @ ELSE how = "torn",
                        !.failed = how # "ok"]
  /\ UNCHANGED <<part, call>>

hasCategoryLocked(i) == api.mem.cat[i] # "none"
hasTierLocked == api.mem.tier # "none"
Refers(c, tier) == hasCategoryLocked(c) /\ (tier => hasTierLocked)

AddPreset(i, c, tier, on, how) ==
  /\ ~api.mem.preset[i].held
  /\ Cardinality({j \in Ids : api.mem.preset[j].held}) < Limit
  /\ Refers(c, tier)
  /\ saveLocked([api.mem EXCEPT !.preset[i] = [held |-> TRUE, cat |-> c, tier |-> tier, on |-> on]],
                how)

UpdatePreset(i, c, tier, on, how) ==
  /\ api.mem.preset[i].held
  /\ Refers(c, tier)
  /\ saveLocked([api.mem EXCEPT !.preset[i] = [held |-> TRUE, cat |-> c, tier |-> tier, on |-> on]],
                how)

DeletePreset(i, how) ==
  /\ api.mem.preset[i].held
  /\ saveLocked([api.mem EXCEPT !.preset[i] = NoPreset], how)

AddCategory(c, on, how) ==
  /\ ~hasCategoryLocked(c)
  /\ saveLocked([api.mem EXCEPT !.cat[c] = on], how)

UpdateCategory(c, on, how) ==
  /\ hasCategoryLocked(c)
  /\ saveLocked([api.mem EXCEPT !.cat[c] = on], how)

DeleteUnchecked(c, how) ==
  /\ hasCategoryLocked(c)
  /\ saveLocked([api.mem EXCEPT !.cat[c] = "none"], how)

(* A category that a preset names is not deleted.                           *)
DeleteCategory(c, how) ==
  /\ \A i \in Ids : api.mem.preset[i].held => api.mem.preset[i].cat # c
  /\ hasCategoryLocked(c)
  /\ saveLocked([api.mem EXCEPT !.cat[c] = "none"], how)

UpdateTier(on, how) ==
  /\ hasTierLocked
  /\ saveLocked([api.mem EXCEPT !.tier = on], how)

(* References within one catalog.                                           *)
validateCatalog(c) ==
  \A i \in Ids : c.preset[i].held =>
    c.cat[c.preset[i].cat] # "none" /\ (c.preset[i].tier => c.tier # "none")

(* Replace: the administrator sends back a catalog, here the one in memory  *)
(* without category c, without the tier, or empty.                          *)
Replace(what, how) ==
  LET new == CASE what = "empty" -> [defaultCatalog EXCEPT !.tier = "none"]
               [] what = "tier"  -> [api.mem EXCEPT !.tier = "none"]
               [] OTHER          -> [api.mem EXCEPT !.cat[what] = "none"] IN
  /\ validateCatalog(new)
  /\ saveLocked(new, how)

(* GetPublic keeps what is enabled, and presets of enabled categories.      *)
GetPublic ==
  {i \in Ids : api.mem.preset[i].held /\ api.mem.preset[i].on
               /\ api.mem.cat[api.mem.preset[i].cat] = "on"}

(* handleAdminPolicies validates and replaces the policies as a whole.      *)
UpdatePolicies(p, ok) ==
  /\ calls < MaxCalls /\ calls' = calls + 1
  /\ ~ok => faults < MaxFaults
  /\ faults' = faults + IF ok THEN 0 ELSE 1
  /\ api' = [api EXCEPT !.policy = p, !.policyDisk = IF ok THEN p ELSE @]
  /\ UNCHANGED <<part, call>>

(* load keeps the defaults when the file does not parse, and validates      *)
(* nothing.                                                                 *)
RestartStores ==
  /\ Fault
  /\ LET m == IF api.torn THEN defaultCatalog ELSE api.disk IN
     api' = [api EXCEPT !.mem = m, !.high = m.version, !.policy = api.policyDisk,
                        !.failed = api.torn]
  /\ UNCHANGED <<part, call, calls>>

CatalogSteps ==
  \E how \in {"ok", "fail", "torn"} :
    \/ \E i \in Ids :
         \/ DeletePreset(i, how) \/ DeleteCategory(i, how)
         \/ \E on \in {"on", "off"} : AddCategory(i, on, how) \/ UpdateCategory(i, on, how)
         \/ \E c \in Ids, tier, on \in BOOLEAN :
              AddPreset(i, c, tier, on, how) \/ UpdatePreset(i, c, tier, on, how)
    \/ \E on \in {"on", "off"} : UpdateTier(on, how)
    \/ \E what \in Ids \cup {"empty", "tier"} : Replace(what, how)

(* No sequence of edits leaves a preset naming a category or a tier the     *)
(* catalog does not have, in memory or in the file that the next start      *)
(* loads unvalidated; the public catalog shows no preset of a hidden        *)
(* category; the version is the highest handed out since the start; and     *)
(* unless the last write failed the file holds what is in memory.           *)
CatalogSound ==
  /\ validateCatalog(api.mem) /\ validateCatalog(api.disk)
  /\ \A i \in GetPublic : api.mem.cat[api.mem.preset[i].cat] = "on"
  /\ api.mem.version = api.high
  /\ ~api.failed /\ ~api.torn => api.disk = api.mem

-----------------------------------------------------------------------------
(* The notes on one node.  Get hands out the stored object itself, and the  *)
(* handler edits it field by field outside the lock before Set stores it.   *)
(* Ids are the objects; call.arg is what the request carries.               *)
NoNote == [blocked |-> FALSE, reason |-> FALSE]

NewAdminMetadataStore ==
  [obj |-> [o \in Ids |-> NoNote], node |-> Nothing, used |-> {}, disk |-> Nothing,
   failed |-> FALSE, sent |-> {}]

(* PUT: Get the object or make one.                                         *)
GetNode(x, blocked, reason) ==
  /\ \E o \in Ids :
       /\ IF api.node # Nothing THEN o = api.node ELSE o \notin api.used
       /\ Begin(x, [Idle EXCEPT !.pc = "block", !.id = o,
                                !.arg = [blocked |-> blocked, reason |-> reason]])
       /\ api' = [api EXCEPT !.used = @ \cup {o}, !.sent = @ \cup {[blocked |-> blocked,
                                                                    reason |-> reason]}]
  /\ UNCHANGED <<part, faults>>

(* Unblocking clears the reason; a reason in the request is stored after.   *)
ApplyBlocked(x) ==
  /\ call[x].pc = "block"
  /\ api' = [api EXCEPT !.obj[call[x].id].blocked = call[x].arg.blocked,
                        !.obj[call[x].id].reason = IF call[x].arg.blocked THEN @ ELSE FALSE]
  /\ Goes(x, "reason")
  /\ UNCHANGED <<part, calls, faults>>

ApplyReason(x) ==
  /\ call[x].pc = "reason"
  /\ api' = [api EXCEPT !.obj[call[x].id].reason = @ \/ call[x].arg.reason]
  /\ Goes(x, "set")
  /\ UNCHANGED <<part, calls, faults>>

(* Set and Delete write every stored object before they unlock.             *)
SetUnsaved(x, ok) ==
  /\ call[x].pc = "set"
  /\ faults' = faults + IF ok THEN 0 ELSE 1
  /\ api' = [api EXCEPT !.node = call[x].id,
                        !.disk = IF ok /\ @ # Nothing THEN @ ELSE api.obj[call[x].id],
                        !.failed = ~ok]
  /\ Ends(x)
  /\ UNCHANGED <<part, calls>>

SetNode(x, ok) ==
  /\ call[x].pc = "set"
  /\ ~ok => faults < MaxFaults
  /\ faults' = faults + IF ok THEN 0 ELSE 1
  /\ api' = [api EXCEPT !.node = call[x].id, !.disk = IF ok THEN api.obj[call[x].id] ELSE @,
                        !.failed = ~ok]
  /\ Ends(x)
  /\ UNCHANGED <<part, calls>>

DeleteNode(x, ok) ==
  /\ Begin(x, Idle)
  /\ ~ok => faults < MaxFaults
  /\ faults' = faults + IF ok THEN 0 ELSE 1
  /\ api' = [api EXCEPT !.node = Nothing, !.disk = IF ok THEN Nothing ELSE @, !.failed = ~ok]
  /\ UNCHANGED part

NodeSteps ==
  \E x \in Callers :
    \/ \E blocked, reason \in BOOLEAN : GetNode(x, blocked, reason)
    \/ ApplyBlocked(x) \/ ApplyReason(x)
    \/ \E ok \in BOOLEAN : SetNode(x, ok) \/ DeleteNode(x, ok)

Quiet == \A x \in Callers : call[x] = Idle

(* Edits share the object, so each save writes all of them: when no edit is *)
(* under way the file holds the notes in memory, unless the last write      *)
(* failed, and a node is blocked only if some edit blocked it.              *)
NodesSound ==
  /\ Quiet /\ ~api.failed =>
       api.disk = IF api.node = Nothing THEN Nothing ELSE api.obj[api.node]
  /\ \A o \in Ids : api.obj[o].blocked => \E r \in api.sent : r.blocked

(* "Clear block reason when unblocking" (admin_handlers.go): a node that is *)
(* not blocked has a reason only if one came with the request that          *)
(* unblocked it.                                                            *)
ReasonCleared ==
  part = "nodes" =>
    (Quiet => \A o \in Ids : ~api.obj[o].blocked /\ api.obj[o].reason =>
                [blocked |-> FALSE, reason |-> TRUE] \in api.sent)

-----------------------------------------------------------------------------
(* The WebSocket hub.  A client has a reader goroutine, which also answers, *)
(* and a writer goroutine, which drains its send channel; only the hub      *)
(* closes that channel.  Callers are the clients.                           *)
NewWebSocketHub ==
  [alive |-> TRUE, cancelled |-> FALSE, clients |-> {}, queue |-> << >>,
   conn |-> {},                                 \* clients whose connection is open
   buf |-> [x \in Callers |-> << >>],           \* the send channel
   closes |-> [x \in Callers |-> 0],            \* times it was closed
   subs |-> {}, everSub |-> {}, writing |-> {}, got |-> [x \in Callers |-> {}],
   panicked |-> FALSE]

(* handleWebSocket: upgrade, then wait for the hub to take the client.      *)
handleWebSocket(x) ==
  /\ api.closes[x] = 0 /\ x \notin api.clients
  /\ Begin(x, [Idle EXCEPT !.pc = "register"])
  /\ api' = [api EXCEPT !.conn = @ \cup {x}]
  /\ UNCHANGED <<part, faults>>

Register(x) ==
  /\ api.alive
  /\ call[x].pc = "register"
  /\ api' = [api EXCEPT !.clients = @ \cup {x}, !.writing = @ \cup {x}]
  /\ Goes(x, "read")
  /\ UNCHANGED <<part, calls, faults>>

(* readPump hands a message to handleMessage: a subscription changes the    *)
(* set before it is confirmed, a ping is only answered.                     *)
readPump(x, m) ==
  /\ call[x].pc = "read"
  /\ x \in api.conn
  /\ calls < MaxCalls /\ calls' = calls + 1
  /\ api' = [api EXCEPT !.subs = CASE m = "subscribe" -> @ \cup {x}
                                   [] m = "unsubscribe" -> @ \ {x}
                                   [] OTHER -> @,
                        !.everSub = IF m = "subscribe" THEN @ \cup {x} ELSE @]
  /\ Goes(x, "answer")
  /\ UNCHANGED <<part, faults>>

(* sendMessage drops the answer when the channel is full; a send on a       *)
(* closed channel panics.                                                   *)
sendMessage(x) ==
  /\ call[x].pc = "answer"
  /\ api' = [api EXCEPT !.panicked = @ \/ api.closes[x] > 0,
                        !.buf[x] = IF api.closes[x] = 0 /\ Len(@) < Limit
                                   THEN Append(@, "answer") ELSE @]
  /\ Goes(x, "read")
  /\ UNCHANGED <<part, calls, faults>>

(* The connection is closed, or the peer goes away.                         *)
ReadFails(x) ==
  /\ call[x].pc = "read"
  /\ IF x \in api.conn THEN Fault ELSE UNCHANGED faults
  /\ Goes(x, "unregister")
  /\ UNCHANGED <<part, api, calls>>

UnregisterAny(x) ==
  /\ api.alive
  /\ call[x].pc = "unregister"
  /\ api' = [api EXCEPT !.clients = @ \ {x}, !.conn = @ \ {x}, !.closes[x] = @ + 1]
  /\ Goes(x, "gone")
  /\ UNCHANGED <<part, calls, faults>>

(* The deferred unregister, taken by the hub, and the close of the          *)
(* connection after it.                                                     *)
Unregister(x) ==
  /\ api.alive
  /\ call[x].pc = "unregister"
  /\ api' = [api EXCEPT !.clients = @ \ {x}, !.conn = @ \ {x},
                        !.closes[x] = IF x \in api.clients THEN @ + 1 ELSE @]
  /\ Goes(x, "gone")
  /\ UNCHANGED <<part, calls, faults>>

(* Broadcast and BroadcastToChannel drop a message when the queue is full.  *)
Broadcast(m) ==
  /\ calls < MaxCalls /\ calls' = calls + 1
  /\ api' = IF Len(api.queue) < Limit THEN [api EXCEPT !.queue = Append(@, m)] ELSE api
  /\ UNCHANGED <<part, call, faults>>

(* Run on a broadcast: a subscriber whose channel is full is closed.        *)
Run ==
  /\ api.alive
  /\ api.queue # << >>
  /\ LET m == Head(api.queue)
         to == IF m = "all" THEN api.clients ELSE api.clients \cap api.subs
         full == {x \in to : Len(api.buf[x]) >= Limit} IN
     api' = [api EXCEPT !.queue = Tail(@),
                        !.clients = @ \ full,
                        !.closes = [x \in Callers |-> @[x] + IF x \in full THEN 1 ELSE 0],
                        !.buf = [x \in Callers |-> IF x \in to \ full THEN Append(@[x], m)
                                                   ELSE @[x]]]
  /\ UNCHANGED <<part, call, calls, faults>>

Cancel ==
  /\ ~api.cancelled
  /\ api' = [api EXCEPT !.cancelled = TRUE]
  /\ UNCHANGED <<part, call, calls, faults>>

(* Run when the context ends: every channel is closed and the hub returns.  *)
HubReturns ==
  /\ api.alive /\ api.cancelled
  /\ api' = [api EXCEPT !.alive = FALSE, !.clients = {},
                        !.closes = [x \in Callers |-> @[x] + IF x \in api.clients THEN 1 ELSE 0]]
  /\ UNCHANGED <<part, call, calls, faults>>

(* writePump: a message is written or the write fails; a closed channel is  *)
(* drained before the close frame; either way the connection is closed.     *)
writePump(x, ok) ==
  /\ x \in api.writing
  /\ \/ /\ api.buf[x] # << >>
        /\ ok => x \in api.conn
        /\ IF ok THEN UNCHANGED faults ELSE (IF x \in api.conn THEN Fault ELSE UNCHANGED faults)
        /\ api' = IF ok THEN [api EXCEPT !.got[x] = @ \cup {Head(api.buf[x])}, !.buf[x] = Tail(@)]
                  ELSE [api EXCEPT !.writing = @ \ {x}, !.conn = @ \ {x}]
     \/ /\ api.buf[x] = << >> /\ api.closes[x] > 0 /\ ok
        /\ api' = [api EXCEPT !.writing = @ \ {x}, !.conn = @ \ {x}]
        /\ UNCHANGED faults
  /\ UNCHANGED <<part, call, calls>>

HubSteps ==
  \/ \E x \in Callers :
       \/ handleWebSocket(x) \/ Register(x) \/ sendMessage(x) \/ ReadFails(x) \/ Unregister(x)
       \/ \E m \in {"subscribe", "unsubscribe", "ping"} : readPump(x, m)
       \/ \E ok \in BOOLEAN : writePump(x, ok)
  \/ \E m \in {"all", "channel"} : Broadcast(m)
  \/ Run \/ Cancel \/ HubReturns

(* The hub closes each client's channel at most once, whichever of the      *)
(* client's own end, its full buffer and the shutdown comes first, and not  *)
(* while the client is registered; and a channel message reaches only       *)
(* clients that subscribed.                                                 *)
HubSound ==
  /\ \A x \in Callers : api.closes[x] <= 1 /\ (x \in api.clients => api.closes[x] = 0)
  /\ \A x \in Callers : "channel" \in api.got[x] => x \in api.everSub

(* "Client's buffer is full, close connection" (websocket.go): closing the  *)
(* channel ends that client and not the process.                            *)
HubSurvives == part = "hub" => ~api.panicked

-----------------------------------------------------------------------------
(* The bridge.  Ids are connections: what the client side holds ("none",    *)
(* "open", or "nil" once a call failed), where the daemon's loop is         *)
(* ("top", "wait" for a request, or "closed"), the request sent and the     *)
(* answer not read yet.  There is one container, owned by Owner.            *)
Owner == CHOOSE w \in Wallets : TRUE
NoConn == [client |-> "none", loop |-> "closed", left |-> 0, sent |-> Nothing, answer |-> Nothing]

NewDaemonBridge ==
  [up |-> TRUE, tokens |-> Limit, pool |-> << >>, closed |-> FALSE,
   conn |-> [n \in Ids |-> NoConn], present |-> TRUE, done |-> {}, mixed |-> FALSE,
   served |-> 0]

(* A request reaches handleContainerByID, or a probe IsConnected; only a    *)
(* wallet has its ownership verified, by listing the containers first.      *)
handleContainerByID(x, op, w) ==
  /\ Begin(x, [Idle EXCEPT !.pc = "get", !.op = op, !.arg = w,
                           !.saw = IF op # "probe" /\ w # Nothing THEN {"list"} ELSE {op}])
  /\ UNCHANGED <<part, api, faults>>

Phase(x) == CHOOSE p \in call[x].saw : TRUE
Dial(n) == [client |-> "open", loop |-> "top", left |-> Limit, sent |-> Nothing, answer |-> Nothing]

AfterAny(x, ok, there) ==
  IF ok => (there => call[x].arg = Owner)
  THEN [call[x] EXCEPT !.pc = "get", !.id = Nothing, !.saw = {call[x].op}]
  ELSE Idle

(* What the handler does with a result: stop goes on when the list failed,  *)
(* delete does not, and delete needs the container to be listed.            *)
AfterList(x, ok, there) ==
  IF /\ ok => (there => call[x].arg = Owner)
     /\ call[x].op = "delete" => ok /\ there
  THEN [call[x] EXCEPT !.pc = "get", !.id = Nothing, !.saw = {call[x].op}]
  ELSE Idle

Result(x, ok, there) == IF Phase(x) = "list" THEN AfterList(x, ok, there) ELSE Idle

(* getClient takes a pooled client or dials; from a closed pool it takes    *)
(* nil, whose use ends the request.                                         *)
getClient(x) ==
  /\ call[x].pc = "get"
  /\ \/ /\ api.pool # << >>
        /\ api' = [api EXCEPT !.pool = Tail(@)]
        /\ call' = [call EXCEPT ![x].pc = "call", ![x].id = Head(api.pool)]
     \/ /\ api.pool = << >> /\ api.closed
        /\ Ends(x) /\ UNCHANGED api
     \/ /\ api.pool = << >> /\ ~api.closed
        /\ IF api.up
           THEN \E n \in Ids : /\ api.conn[n] = NoConn
                               /\ api' = [api EXCEPT !.conn[n] = Dial(n)]
                               /\ call' = [call EXCEPT ![x].pc = "call", ![x].id = n]
           ELSE call' = [call EXCEPT ![x] = Result(x, FALSE, FALSE)] /\ UNCHANGED api
  /\ UNCHANGED <<part, calls, faults>>

(* putClient, or close when the pool is full; a send on the closed pool     *)
(* ends the request.                                                        *)
putClient(a, n) ==
  IF ~a.closed /\ Len(a.pool) < Limit THEN [a EXCEPT !.pool = Append(@, n)]
  ELSE [a EXCEPT !.conn[n] = NoConn]

(* DaemonClient.call sends the request.  It fails on a client without a     *)
(* connection, which IsConnected makes first, and on one the daemon closed, *)
(* which then has no connection any more.                                   *)
Call(x) ==
  LET n == call[x].id
      c == api.conn[n]
      probe == call[x].op = "probe"
      dialled == IF c.client = "nil" /\ probe /\ api.up THEN Dial(n) ELSE c
      lost == [api EXCEPT !.conn[n].client = "nil", !.conn[n].answer = Nothing] IN
  /\ call[x].pc = "call"
  /\ IF dialled.loop # "closed"
     THEN /\ api' = [api EXCEPT !.conn[n] = [dialled EXCEPT !.sent = [by |-> x, op |-> Phase(x)]]]
          /\ Goes(x, "decode")
     ELSE /\ api' = IF probe THEN putClient(lost, n) ELSE [api EXCEPT !.conn[n] = NoConn]
          /\ call' = [call EXCEPT ![x] = Result(x, FALSE, FALSE)]
  /\ UNCHANGED <<part, calls, faults>>

(* The answer, a refusal the daemon left in the socket, or the end of the   *)
(* connection.  withClient closes the client on any error; IsConnected puts *)
(* it back whatever happened.                                               *)
Decode(x) ==
  LET n == call[x].id
      c == api.conn[n]
      ok == c.answer # Nothing /\ c.answer.ok IN
  /\ call[x].pc = "decode"
  /\ c.answer # Nothing \/ c.loop = "closed"
  /\ LET read == [api EXCEPT !.conn[n].answer = Nothing,
                             !.conn[n].client = IF c.answer = Nothing THEN "nil" ELSE @,
                             !.mixed = @ \/ (ok /\ c.answer.by # x)] IN
     api' = IF ok \/ call[x].op = "probe" THEN putClient(read, n)
            ELSE [read EXCEPT !.conn[n] = NoConn]
  /\ call' = [call EXCEPT ![x] = Result(x, ok, ok /\ c.answer.there)]
  /\ UNCHANGED <<part, calls, faults>>

(* handleConnection, top of the loop: the global limiter and the            *)
(* connection's own are charged before a request is awaited.                *)
handleConnection(n) ==
  LET c == api.conn[n]
      Refuse == [c EXCEPT !.loop = "closed", !.answer =
                   IF c.answer = Nothing THEN [ok |-> FALSE, by |-> Nothing, there |-> FALSE]
                   ELSE c.answer] IN
  /\ c.loop = "top"
  /\ api' = IF api.tokens = 0 THEN [api EXCEPT !.conn[n] = Refuse]
            ELSE IF c.left = 0 THEN [api EXCEPT !.conn[n] = Refuse, !.tokens = @ - 1]
            ELSE [api EXCEPT !.conn[n].loop = "wait", !.conn[n].left = @ - 1, !.tokens = @ - 1]
  /\ UNCHANGED <<part, call, calls, faults>>

(* handleRequest: the request is run and answered, or the client is gone.   *)
handleRequest(n) ==
  LET r == api.conn[n].sent IN
  /\ api.conn[n].loop = "wait"
  /\ IF r = Nothing
     THEN /\ api.conn[n].client # "open"
          /\ api' = [api EXCEPT !.conn[n].loop = "closed"]
     ELSE LET runs == r.op \in {"list", "probe"} \/ api.present IN
          api' = [api EXCEPT
            !.conn[n].loop = "top", !.conn[n].sent = Nothing, !.served = @ + 1,
            !.conn[n].answer = [ok |-> runs, by |-> r.by, there |-> api.present],
            !.present = IF r.op = "delete" THEN FALSE ELSE @,
            !.done = IF r.op \in {"stop", "delete"} /\ runs
                     THEN @ \cup {[op |-> r.op, as |-> call[r.by].arg]} ELSE @]
  /\ UNCHANGED <<part, call, calls, faults>>

(* The window of the global limiter passes; the daemon dies or is back;     *)
(* Stop closes the bridge after its shutdown deadline.                      *)
Refill ==
  /\ api.tokens < Limit
  /\ api.served < MaxTicks
  /\ api' = [api EXCEPT !.tokens = Limit]
  /\ UNCHANGED <<part, call, calls, faults>>

DaemonDies ==
  /\ api.up
  /\ Fault
  /\ api' = [api EXCEPT !.up = FALSE, !.conn = [n \in Ids |->
       IF @[n] = NoConn THEN @[n]
       ELSE [@[n] EXCEPT !.loop = "closed", !.sent = Nothing]]]
  /\ UNCHANGED <<part, call, calls>>

DaemonStarts ==
  /\ ~api.up
  /\ api' = [api EXCEPT !.up = TRUE, !.tokens = Limit]
  /\ UNCHANGED <<part, call, calls, faults>>

CloseBridge ==
  /\ ~api.closed
  /\ api' = [api EXCEPT !.closed = TRUE, !.pool = << >>,
       !.conn = [n \in Ids |-> IF n \in ToSet(api.pool) THEN NoConn ELSE @[n]]]
  /\ UNCHANGED <<part, call, calls, faults>>

BridgeSteps ==
  \/ \E x \in Callers :
       \/ \E op \in {"stop", "delete"}, w \in Wallets \cup {Nothing} :
            handleContainerByID(x, op, w)
       \/ handleContainerByID(x, "probe", Nothing)
       \/ getClient(x) \/ Call(x) \/ Decode(x)
  \/ \E n \in Ids : handleConnection(n) \/ handleRequest(n)
  \/ Refill \/ DaemonDies \/ DaemonStarts \/ CloseBridge

(* A connection is pooled once or in one request's hands, an accepted       *)
(* answer is the answer to the reader's own request, and no wallet other    *)
(* than the owner's deletes a container, though the owner is verified in an *)
(* earlier call, on another connection, of a daemon that may have died in   *)
(* between.                                                                 *)
BridgeSound ==
  /\ Len(api.pool) <= Limit
  /\ \A i, j \in DOMAIN api.pool : api.pool[i] = api.pool[j] => i = j
  /\ \A x, y \in Callers : x # y /\ call[x].pc \in {"call", "decode"}
                           /\ call[y].pc \in {"call", "decode"} => call[x].id # call[y].id
  /\ \A x \in Callers : call[x].pc \in {"call", "decode"} => call[x].id \notin ToSet(api.pool)
  /\ ~api.mixed
  /\ \A d \in api.done : d.op = "delete" => d.as \in {Owner, Nothing}

(* "On error, close and don't return to pool" (daemon_bridge.go): a pooled  *)
(* client has a connection.                                                 *)
PoolConnected ==
  part = "bridge" => \A i \in DOMAIN api.pool : api.conn[api.pool[i]].client = "open"

-----------------------------------------------------------------------------
(* One vanity name: its record on the chain, the mapping this node gossips, *)
(* its DNS record and the DNS jobs still to run.                            *)
NewNames ==
  [owner |-> "free", dep |-> Nothing, expired |-> FALSE, gossip |-> Nothing,
   confirmed |-> {}, dns |-> FALSE, jobs |-> {},
   plain |-> TRUE,        \* the name never expired, moved, or had two requests at once
   raced |-> FALSE]       \* two DNS jobs were pending at once, or one failed

(* External: what the registry does with a transaction of this node; a      *)
(* name without a deployment is a reservation.                              *)
RegistryAccepts(op) ==
  CASE op \in {"register", "reserve"} -> api.owner = "free" \/ api.expired
    [] op \in {"claim", "cancel"} -> api.owner = "ours" /\ api.dep = Nothing
    [] op \in {"release", "renew"} -> api.owner = "ours"
    [] op \in {"transfer", "update"} -> api.owner = "ours" /\ ~api.expired /\ api.dep # Nothing
    [] op = "reclaim" -> api.owner # "free" /\ api.dep = Nothing

RegistryDoes(op, d) ==
  CASE op \in {"register", "claim", "update"} ->
         [api EXCEPT !.owner = "ours", !.dep = d, !.expired = FALSE, !.confirmed = @ \cup {d}]
    [] op = "reserve" -> [api EXCEPT !.owner = "ours", !.dep = Nothing, !.expired = FALSE]
    [] op \in {"release", "cancel", "reclaim"} ->
         [api EXCEPT !.owner = "free", !.dep = Nothing, !.expired = FALSE]
    [] op = "transfer" -> [api EXCEPT !.owner = "theirs", !.plain = FALSE]
    [] op = "renew" -> [api EXCEPT !.expired = FALSE]

Handlers == {"register", "release", "transfer", "update", "renew", "reserve", "claim",
             "cancel", "reclaim"}

(* A handler starts; register, renew, reserve, claim and reclaim leave the  *)
(* ownership to the contract.                                               *)
handleSubdomain(x, op, d) ==
  /\ Begin(x, [Idle EXCEPT !.pc = IF op \in {"release", "transfer", "update", "cancel"}
                                  THEN "verify" ELSE "chain",
                           !.op = op, !.id = d])
  /\ api' = [api EXCEPT !.plain = @ /\ \A y \in Callers : call[y].pc = "idle"]
  /\ UNCHANGED <<part, faults>>

verifySubdomainOwnership(x) ==
  /\ call[x].pc = "verify"
  /\ IF api.owner = "ours" THEN Goes(x, "chain") ELSE Ends(x)
  /\ UNCHANGED <<part, api, calls, faults>>

AdvertiseFirst(x, ok) ==
  /\ call[x].pc = "chain"
  /\ IF ok THEN UNCHANGED faults ELSE Fault
  /\ LET after == IF ok /\ RegistryAccepts(call[x].op)
                  THEN RegistryDoes(call[x].op, call[x].id) ELSE api IN
     api' = IF call[x].op = "register" THEN [after EXCEPT !.gossip = call[x].id] ELSE after
  /\ IF ok /\ RegistryAccepts(call[x].op) /\ call[x].op \notin {"transfer", "renew", "reserve"}
     THEN Goes(x, "gossip") ELSE Ends(x)
  /\ UNCHANGED <<part, calls>>

(* The registry call: an error, the chain's or the connection's, ends the   *)
(* handler.                                                                 *)
SendTransaction(x, ok) ==
  /\ call[x].pc = "chain"
  /\ IF ok THEN UNCHANGED faults ELSE Fault
  /\ IF ok /\ RegistryAccepts(call[x].op)
     THEN /\ api' = RegistryDoes(call[x].op, call[x].id)
          /\ IF call[x].op \in {"transfer", "renew", "reserve"} THEN Ends(x) ELSE Goes(x, "gossip")
     ELSE Ends(x) /\ UNCHANGED api
  /\ UNCHANGED <<part, calls>>

(* The gossip update and the DNS job that is started after it: only         *)
(* register creates a record.                                               *)
UpdateState(x) ==
  LET op == call[x].op
      job == CASE op = "register" -> {"create"}
               [] op \in {"release", "cancel", "reclaim"} -> {"delete"}
               [] OTHER -> {} IN
  /\ call[x].pc = "gossip"
  /\ api' = [api EXCEPT !.gossip = IF op \in {"register", "update", "claim"}
                                   THEN call[x].id ELSE Nothing,
                        !.jobs = @ \cup job,
                        !.raced = @ \/ (job # {} /\ api.jobs # {})]
  /\ Ends(x)
  /\ UNCHANGED <<part, calls, faults>>

(* dnsSyncCreate and dnsSyncDelete: a job runs on its own, and may fail.    *)
dnsSync(job, ok) ==
  /\ job \in api.jobs
  /\ IF ok THEN UNCHANGED faults ELSE Fault
  /\ api' = [api EXCEPT !.jobs = @ \ {job}, !.raced = @ \/ ~ok,
                        !.dns = IF ok THEN job = "create" ELSE @]
  /\ UNCHANGED <<part, call, calls>>

(* cleanExpiredSubdomains: the sweep asks the chain and then removes.       *)
cleanExpiredSubdomains(x, ok) ==
  /\ call[x].pc = "idle" /\ api.gossip # Nothing
  /\ calls < MaxCalls /\ calls' = calls + 1
  /\ IF ok THEN UNCHANGED faults ELSE Fault
  /\ IF ok /\ api.owner # "free" /\ api.expired
     THEN call' = [call EXCEPT ![x] = [Idle EXCEPT !.pc = "gossip", !.op = "sweep"]]
     ELSE UNCHANGED call
  /\ UNCHANGED <<part, api>>

(* External: the registration runs out, and somebody else takes the name.   *)
NameExpires ==
  /\ api.owner # "free" /\ ~api.expired
  /\ api' = [api EXCEPT !.expired = TRUE, !.plain = FALSE]
  /\ UNCHANGED <<part, call, calls, faults>>

NameTaken(d) ==
  /\ api.owner = "free" \/ api.expired
  /\ Fault
  /\ api' = [api EXCEPT !.owner = "theirs", !.dep = d, !.expired = FALSE, !.plain = FALSE]
  /\ UNCHANGED <<part, call, calls>>

NameSteps ==
  \/ \E x \in Callers :
       \/ \E op \in Handlers, d \in Ids : handleSubdomain(x, op, d)
       \/ verifySubdomainOwnership(x) \/ UpdateState(x)
       \/ \E ok \in BOOLEAN : SendTransaction(x, ok) \/ cleanExpiredSubdomains(x, ok)
  \/ \E job \in api.jobs, ok \in BOOLEAN : dnsSync(job, ok)
  \/ NameExpires
  \/ \E d \in Ids : NameTaken(d)

(* The mapping this node advertises is one the chain accepted from it, with *)
(* any number of requests, failures and sweeps under way; and as long as    *)
(* requests come one at a time and the name neither runs out nor moves, it  *)
(* is the chain's, and a DNS record is left only for a name that is held.   *)
NamesSound ==
  /\ api.gossip # Nothing => api.gossip \in api.confirmed
  /\ api.plain /\ Quiet =>
       /\ api.gossip = api.dep
       /\ api.jobs = {} /\ ~api.raced => (api.dns => api.owner = "ours")

(* "we must not advertise stale mappings to the network" (api_handlers.go): *)
(* once its own requests are over the node advertises no mapping of a name  *)
(* it has released.                                                         *)
NoStaleMapping ==
  part = "names" /\ Quiet /\ api.owner = "free" => api.gossip = Nothing

-----------------------------------------------------------------------------
Init ==
  /\ part \in Parts
  /\ api = CASE part = "keys" -> NewAPIKeyManager
             [] part = "auth" -> NewWalletAuthManager
             [] part = "catalog" -> NewCatalogStore
             [] part = "nodes" -> NewAdminMetadataStore
             [] part = "hub" -> NewWebSocketHub
             [] part = "bridge" -> NewDaemonBridge
             [] part = "names" -> NewNames
  /\ call = [x \in Callers |-> Idle]
  /\ calls = 0 /\ faults = 0

Next ==
  \/ part = "keys" /\ (KeySteps \/ \E k \in Ids : KeyExpires(k) \/ RestartKeys(k))
  \/ part = "auth" /\ AuthSteps
  \/ part = "catalog" /\ (CatalogSteps \/ RestartStores
                          \/ \E p \in {1, 2}, ok \in BOOLEAN : UpdatePolicies(p, ok))
  \/ part = "nodes" /\ NodeSteps
  \/ part = "hub" /\ HubSteps
  \/ part = "bridge" /\ BridgeSteps
  \/ part = "names" /\ NameSteps

Spec == Init /\ [][Next]_server


=============================================================================
