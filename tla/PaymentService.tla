--------------------------- MODULE PaymentService ---------------------------
(****************************************************************************)
(* The payment service of a node (internal/payment/service.go) and what it  *)
(* is assembled from.  Against the chain, every contract client takes a     *)
(* nonce and has its transaction accepted; the ones that spend tokens       *)
(* approve the contract first, and only the escrow waits for the approval.  *)
(* In mock mode the same clients keep their books in memory.  Beside them   *)
(* are the local ledgers: the staking manager, the escrow manager, the      *)
(* prepaid function credits and the usage meter, and the price formulas.    *)
(* The parts share no state except that the staking client reads the        *)
(* delegation totals, so a behaviour exercises one part.                    *)
(****************************************************************************)
EXTENDS Integers, Sequences, FiniteSets, FiniteSetsExt, SequencesExt

CONSTANTS
  Parts,        \* the parts exercised, one in each behaviour
  Callers,      \* goroutines calling the service
  Jobs, Names, Deployments, NodeIDs, Providers,
  Amounts,      \* token amounts, in units of the lowest staking tier
  Period,       \* duration of an escrow
  Initial,      \* tokens the mock account and the wallet start with
  Unit,         \* bytes in a megabyte, milliseconds in an hour: one scale
  MinScore, MaxScore,
  Nothing,
  MaxCalls,     \* bound: calls of the service
  MaxFaults     \* bound: transactions the endpoint refuses

VARIABLES
  part,     \* the part exercised
  mock,     \* the books of the mock contracts
  local,    \* the local ledgers
  client,   \* the wallet, its nonce, and the transactions under way
  calls, faults

payments == <<part, mock, local, client, calls, faults>>

Spenders == {"escrow", "staking", "registry"}
Self == CHOOSE p \in Providers : TRUE

-----------------------------------------------------------------------------
(* NewPaymentService and setupMockMode: every part starts empty.            *)
NoCall == [op |-> "none", step |-> "idle", cost |-> 0, nonce |-> 0]

NewPaymentService ==
  [nonce |-> 0,                                 \* BaseClient.pendingNonce
   next |-> 0,                                  \* the account's next nonce on chain
   pool |-> {},                                 \* transactions accepted, not mined
   allow |-> [s \in Spenders |-> 0],            \* allowances on chain
   failed |-> {},                               \* nonces of mined transactions that reverted
   call |-> [x \in Callers |-> NoCall],
   proposals |-> 0, reports |-> 0,
   lost |-> FALSE, overlapped |-> FALSE]

setupMockMode ==
  [balances |-> [p \in Providers |-> IF p = Self THEN Initial ELSE 0],
   allowance |-> 0,
   stake |-> 0, pending |-> << >>, staked |-> 0,
   node |-> Nothing, nodeMap |-> {},
   escrows |-> [j \in Jobs |-> [state |-> "none", amount |-> 0, released |-> 0, back |-> 0]],
   reserved |-> {},
   disputes |-> << >>, slashed |-> 0, violations |-> 0, punished |-> 0,
   delegation |-> [to |-> Self, amount |-> 0], unbonding |-> << >>,
   delegated |-> [p \in Providers |-> 0],
   att |-> [known |-> FALSE, fresh |-> FALSE, missed |-> 0, suspended |-> FALSE],
   rep |-> [known |-> FALSE, score |-> 0, good |-> 0, bad |-> 0],
   names |-> [n \in Names |-> [owner |-> Nothing, dep |-> Nothing, primary |-> FALSE,
                               held |-> FALSE]]]

NewLedgers ==
  [stake |-> 0, known |-> FALSE, request |-> 0, matured |-> FALSE, slashed |-> 0, in |-> 0,
   paid |-> 0, beneficiary |-> Self, change |-> Nothing, due |-> FALSE,
   rewards |-> 0, cut |-> FALSE,
   credit |-> 0, records |-> << >>, deposits |-> 0, spent |-> 0, refunded |-> 0,
   held |-> [x \in Callers |-> [op |-> "idle", rec |-> 0, amount |-> 0]], raced |-> FALSE,
   escrow |-> [amount |-> 0, released |-> 0, paid |-> 0],
   stored |-> 0, quote |-> [of |-> "none", args |-> << >>, cost |-> 0]]

Init ==
  /\ part \in Parts
  /\ mock = setupMockMode
  /\ local = NewLedgers
  /\ client = NewPaymentService
  /\ calls = 0
  /\ faults = 0

MockCall(m) ==
  /\ calls < MaxCalls
  /\ calls' = calls + 1
  /\ mock' = m
  /\ UNCHANGED <<part, local, client, faults>>

LocalCall(l) ==
  /\ calls < MaxCalls
  /\ calls' = calls + 1
  /\ local' = l
  /\ UNCHANGED <<part, mock, client, faults>>

-----------------------------------------------------------------------------
(* The mock token.  The one account that calls is Self.                     *)
mockApprove(a) == MockCall([mock EXCEPT !.allowance = a])

Moved(from, to, a) ==
  [[mock EXCEPT !.balances[from] = @ - a] EXCEPT !.balances[to] = @ + a]

mockTransfer(to, a) ==
  /\ mock.balances[Self] >= a
  /\ MockCall(Moved(Self, to, a))

(* The allowance of the caller is checked before the balance.               *)
mockTransferFrom(to, a) ==
  /\ mock.allowance >= a
  /\ mock.balances[Self] >= a
  /\ MockCall([Moved(Self, to, a) EXCEPT !.allowance = @ - a])

-----------------------------------------------------------------------------
(* The mock staking contract.                                               *)
Stake(a) == [mock EXCEPT !.stake = @ + a, !.staked = @ + a]

mockStake(a) == MockCall(Stake(a))

(* The stake moves to the queue at once and waits there for the cooldown.   *)
mockRequestUnstake(a) ==
  /\ mock.stake >= a
  /\ MockCall([mock EXCEPT !.stake = @ - a,
                           !.pending = Append(@, [amount |-> a, ready |-> FALSE, done |-> FALSE])])

CompleteTwice(i) ==
  /\ mock.pending[i].ready
  /\ MockCall([mock EXCEPT !.pending[i].done = TRUE, !.staked = @ - mock.pending[i].amount])

mockCompleteUnstake(i) ==
  /\ ~mock.pending[i].done
  /\ mock.pending[i].ready
  /\ MockCall([mock EXCEPT !.pending[i].done = TRUE, !.staked = @ - mock.pending[i].amount])

(* StakeWithIdentity stakes, then binds the node; an older binding of the   *)
(* same account stays in the map.                                           *)
StakeWithIdentity(a, n) ==
  MockCall([Stake(a) EXCEPT !.node = n, !.nodeMap = @ \cup {n}])

UpdateIdentity(n) ==
  MockCall([mock EXCEPT !.nodeMap = (@ \ {mock.node}) \cup {n}, !.node = n])

Tiers == {1, 5, 10, 100, 1000}
determineTier(s) == Cardinality({t \in Tiers : s >= t})
GetTier == determineTier(mock.stake)
IsActiveProvider == mock.stake >= 1
TotalUnbonding ==
  FoldSeq(LAMBDA r, n : IF r.done THEN n ELSE n + r.amount, 0, mock.pending)
EffectiveTier == determineTier(mock.stake + mock.delegated[Self])

(* A week goes by: requests unlock and the last attestation is stale.       *)
Week ==
  /\ mock' = [mock EXCEPT
       !.pending = [i \in DOMAIN @ |-> [@[i] EXCEPT !.ready = TRUE]],
       !.unbonding = [i \in DOMAIN @ |-> [@[i] EXCEPT !.ready = TRUE]],
       !.att.fresh = FALSE]
  /\ local' = [local EXCEPT !.matured = local.request # 0, !.due = local.change # Nothing]
  /\ <<mock, local>>' # <<mock, local>>
  /\ UNCHANGED <<part, client, calls, faults>>

-----------------------------------------------------------------------------
(* The mock escrow.  A share is a big.Float quotient times the amount, cut  *)
(* to an integer: short of the whole duration it may be off by one.         *)
Share(a, d) ==
  LET e == Min({d, Period})
      q == (a * e) \div Period
  IN IF e = Period THEN {a} ELSE {q - 1, q, q + 1} \cap (0 .. a)

mockCreateEscrow(j, a) ==
  /\ mock.escrows[j].state = "none"
  /\ MockCall([mock EXCEPT !.escrows[j] = [state |-> "created", amount |-> a, released |-> 0, back |-> 0],
                           !.reserved = @ \cup {j}])

mockSelectProviders(j) ==
  /\ mock.escrows[j].state = "created"
  /\ MockCall([mock EXCEPT !.escrows[j].state = "active"])

mockReleasePayment(j, d) ==
  /\ mock.escrows[j].state = "active"
  /\ \E s \in Share(mock.escrows[j].amount, d) :
       MockCall([mock EXCEPT !.escrows[j].released = Max({@, s})])

RefundAgain(j) ==
  /\ mock.escrows[j].state # "none"
  /\ MockCall([mock EXCEPT !.escrows[j].state = "refunded",
                           !.escrows[j].back = @ + mock.escrows[j].amount - mock.escrows[j].released,
                           !.reserved = @ \ {j}])

mockRefund(j) ==
  /\ mock.escrows[j].state \in {"created", "active"}
  /\ MockCall([mock EXCEPT !.escrows[j].state = "refunded",
                           !.escrows[j].back = @ + mock.escrows[j].amount - mock.escrows[j].released,
                           !.reserved = @ \ {j}])

(* Finalization looks at no state: a refunded escrow becomes completed.     *)
mockFinalizeEscrow(j) ==
  /\ mock.escrows[j].state # "none"
  /\ MockCall([mock EXCEPT !.escrows[j].state = "completed", !.reserved = @ \ {j}])

InvalidateReservation(j) == MockCall([mock EXCEPT !.reserved = @ \ {j}])

-----------------------------------------------------------------------------
(* Mock slashing.  A dispute's id hashes the time of the report with the    *)
(* provider and the job, so a second report of one job is a new dispute.    *)
mockReportViolation == MockCall([mock EXCEPT !.disputes = Append(@, "pending")])

mockSubmitDefense(i) ==
  /\ mock.disputes[i] = "pending"
  /\ MockCall([mock EXCEPT !.disputes[i] = "defended"])

mockSlash(a) ==
  MockCall([mock EXCEPT !.slashed = @ + a, !.violations = @ + 1, !.punished = @ + 1])

mockResolveDispute(i, a) ==
  /\ mock.disputes[i] # "resolved"
  /\ MockCall([mock EXCEPT !.disputes[i] = "resolved", !.slashed = @ + a, !.violations = @ + 1])

-----------------------------------------------------------------------------
(* Mock delegation.  A new delegation replaces the caller's record; the     *)
(* provider's total only ever grows.                                        *)
mockDelegate(p, a) ==
  MockCall([mock EXCEPT !.delegation = [to |-> p, amount |-> a], !.delegated[p] = @ + a])

mockRequestUndelegate(a) ==
  /\ mock.delegation.amount >= a
  /\ MockCall([mock EXCEPT !.delegation.amount = @ - a,
                           !.unbonding = Append(@, [amount |-> a, ready |-> FALSE, done |-> FALSE])])

mockCompleteUndelegate(i) ==
  /\ ~mock.unbonding[i].done
  /\ mock.unbonding[i].ready
  /\ MockCall([mock EXCEPT !.unbonding[i].done = TRUE])

(* Mock attestations: three missed in a row suspend; an attestation clears. *)
mockSubmitAttestation ==
  MockCall([mock EXCEPT !.att = [known |-> TRUE, fresh |-> TRUE, missed |-> 0, suspended |-> FALSE]])

mockCheckMissed ==
  /\ mock.att.known /\ ~mock.att.fresh
  /\ MockCall([mock EXCEPT !.att.missed = @ + 1, !.att.suspended = @ \/ mock.att.missed + 1 >= 3])

ChallengeAttestation ==
  /\ mock.att.known
  /\ MockCall([mock EXCEPT !.att.suspended = TRUE])

IsAttestationCurrent == mock.att.known /\ mock.att.fresh /\ ~mock.att.suspended

(* Mock reputation: first contact registers with the initial score.         *)
ensureRegistered ==
  IF mock.rep.known THEN mock.rep
  ELSE [known |-> TRUE, score |-> MaxScore \div 2, good |-> 0, bad |-> 0]
Clamp(n, lo, hi) == Max({lo, Min({n, hi})})
Scored(delta) ==
  [mock EXCEPT !.rep = [ensureRegistered EXCEPT !.score = Clamp(@ + delta, 0, MaxScore)]]

RegisterProvider == MockCall([mock EXCEPT !.rep = ensureRegistered])
RecordJobCompleted == MockCall([Scored(10) EXCEPT !.rep.good = @ + 1])
RecordJobFailed == MockCall([Scored(-50) EXCEPT !.rep.bad = @ + 1])
RecordSlashEvent == MockCall([Scored(-100) EXCEPT !.rep.bad = @ + 1])
RecordEvent(delta) == MockCall(Scored(Clamp(delta, -200, 200)))
IsEligibleForJobs == mock.rep.known /\ mock.rep.score >= MinScore

-----------------------------------------------------------------------------
(* The mock registry.                                                       *)
Taken(n) == mock.names[n].owner # Nothing
Unnamed == [owner |-> Nothing, dep |-> Nothing, primary |-> FALSE, held |-> FALSE]

Register(n, d) ==
  /\ ~Taken(n)
  /\ MockCall([mock EXCEPT !.names[n] = [Unnamed EXCEPT !.owner = Self, !.dep = d]])
Reserve(n) ==
  /\ ~Taken(n)
  /\ MockCall([mock EXCEPT !.names[n] = [Unnamed EXCEPT !.owner = Self, !.held = TRUE]])
ClaimReservation(n, d) ==
  /\ Taken(n)
  /\ MockCall([mock EXCEPT !.names[n].dep = d, !.names[n].held = FALSE])
UpdateDeployment(n, d) == Taken(n) /\ MockCall([mock EXCEPT !.names[n].dep = d])
TransferName(n, p) == Taken(n) /\ MockCall([mock EXCEPT !.names[n].owner = p])
SetPrimaryName(n) == Taken(n) /\ MockCall([mock EXCEPT !.names[n].primary = TRUE])
Release(n) == Taken(n) /\ MockCall([mock EXCEPT !.names[n] = Unnamed])

ReverseResolve(d) == {n \in Names : Taken(n) /\ mock.names[n].dep = d /\ mock.names[n].primary}

-----------------------------------------------------------------------------
(* The staking manager.  A request leaves the stake where it is until the   *)
(* cooldown is over.  "in" and "paid" are what providers brought and what   *)
(* left; "cut" notes a slash while a request was waiting.                   *)
StakeLocally(a) ==
  /\ a >= 1
  /\ LocalCall([local EXCEPT !.stake = @ + a, !.known = TRUE, !.in = @ + a])

SlashLocally(a) ==
  /\ local.known
  /\ LET n == Min({a, local.stake}) IN
     LocalCall([local EXCEPT !.stake = @ - n, !.slashed = @ + n, !.cut = @ \/ local.request # 0])

SetBeneficiary(p) ==
  /\ local.known /\ local.stake # 0
  /\ LocalCall([local EXCEPT !.change = p, !.due = FALSE])

Matured(l) ==
  IF l.due THEN [l EXCEPT !.beneficiary = l.change, !.change = Nothing, !.due = FALSE] ELSE l
GetBeneficiary == local.due /\ LocalCall(Matured(local))
AddRewards(a) == LocalCall([local EXCEPT !.rewards = @ + a])
ClaimRewards == (local.rewards # 0 \/ local.due) /\ LocalCall([Matured(local) EXCEPT !.rewards = 0])

(* A second request executes a matured first one, and may then be refused.  *)
Unstake(a) ==
  /\ local.known /\ local.stake # 0 /\ a <= local.stake
  /\ local.request = 0 \/ local.matured
  /\ LET left == local.stake - local.request IN
     LocalCall([local EXCEPT !.stake = left, !.paid = @ + local.request, !.matured = FALSE,
                             !.request = IF a > left THEN 0 ELSE a])

CompleteUnstake ==
  /\ local.matured
  /\ LET n == Min({local.request, local.stake}) IN
     LocalCall([local EXCEPT !.stake = @ - n, !.paid = @ + n, !.request = 0, !.matured = FALSE])

-----------------------------------------------------------------------------
(* Prepaid credits.  The record is found under the manager's lock and       *)
(* changed under its own, so a refund may take a record out of the table    *)
(* between the two.  records[local.credit] is the record in the table.      *)
Hold(x, r) == [local EXCEPT !.held[x] = r]
Idle == [op |-> "idle", rec |-> 0, amount |-> 0]

Deposit(x, a) ==
  /\ local.held[x].op = "idle"
  /\ LocalCall(IF local.credit # 0
               THEN Hold(x, [op |-> "deposit", rec |-> local.credit, amount |-> a])
               ELSE [Hold(x, [op |-> "deposit", rec |-> Len(local.records) + 1, amount |-> a])
                       EXCEPT !.records = Append(@, 0), !.credit = Len(local.records) + 1])

Deduct(x, a) ==
  /\ local.held[x].op = "idle" /\ local.credit # 0
  /\ LocalCall(Hold(x, [op |-> "deduct", rec |-> local.credit, amount |-> a]))

RefundAll(x) ==
  /\ local.held[x].op = "idle" /\ local.credit # 0
  /\ LocalCall([Hold(x, [op |-> "refund", rec |-> local.credit, amount |-> 0])
                  EXCEPT !.credit = 0,
                         !.raced = @ \/ \E y \in Callers : local.held[y].op = "deposit"])

DeductUnchecked(x) ==
  LET h == local.held[x]
      b == local.records[h.rec]
  IN
  /\ h.op # "idle"
  /\ local' = CASE h.op = "deposit" -> [Hold(x, Idle) EXCEPT !.records[h.rec] = b + h.amount,
                                                            !.deposits = @ + h.amount]
             [] h.op = "refund" -> [Hold(x, Idle) EXCEPT !.records[h.rec] = 0,
                                                         !.refunded = @ + b]
             [] OTHER -> [Hold(x, Idle) EXCEPT !.records[h.rec] = b - h.amount,
                                               !.spent = @ + h.amount]
  /\ UNCHANGED <<part, mock, client, calls, faults>>

(* A deduction the balance does not cover is refused.                       *)
ChangeRecord(x) ==
  LET h == local.held[x]
      b == local.records[h.rec]
  IN
  /\ h.op # "idle"
  /\ local' = CASE h.op = "deposit" -> [Hold(x, Idle) EXCEPT !.records[h.rec] = b + h.amount,
                                                            !.deposits = @ + h.amount]
             [] h.op = "refund" -> [Hold(x, Idle) EXCEPT !.records[h.rec] = 0,
                                                         !.refunded = @ + b]
             [] b < h.amount -> Hold(x, Idle)
             [] OTHER -> [Hold(x, Idle) EXCEPT !.records[h.rec] = b - h.amount,
                                               !.spent = @ + h.amount]
  /\ UNCHANGED <<part, mock, client, calls, faults>>

-----------------------------------------------------------------------------
(* The escrow manager: an escrow made again under the same reservation      *)
(* starts over.                                                             *)
CreateEscrow(a) ==
  LocalCall([local EXCEPT !.escrow = [amount |-> a, released |-> 0, paid |-> local.escrow.paid]])

ReleasePayment(d) ==
  /\ local.escrow.amount # 0
  /\ \E s \in Share(local.escrow.amount, d) :
       LET n == Max({0, s - local.escrow.released}) IN
       LocalCall([local EXCEPT !.escrow.released = @ + n, !.escrow.paid = @ + n])

(* The meter: bytes stored, never below zero.                               *)
RecordStorageUpload(n) == LocalCall([local EXCEPT !.stored = @ + n])
RecordStorageDelete(n) == LocalCall([local EXCEPT !.stored = Max({0, @ - n})])

-----------------------------------------------------------------------------
(* The price formulas, on a scale where a megabyte and an hour are Unit.    *)
CeilDiv(a, b) == (a + b - 1) \div b

CalculatePrice(cpu, mem, ms) == (cpu * 1000 + mem \div Unit) * (ms \div Unit)

CalculateBid(base, stake) ==
  LET bid == (base * Unit) \div (Unit + stake)
  IN IF bid <= 0 /\ base > 0 THEN 1 ELSE bid

(* Each component is cut to an integer, and something is always charged.    *)
CalculateMoltInvocationPrice(ms, mem) ==
  LET billed == Max({ms, 2})
      mb == Max({1, CeilDiv(mem, Unit)})
  IN Max({1, (5 * billed) \div Unit + (3 * mb * billed) \div Unit})

CalculateProxyCost(n) == IF n <= 0 THEN 0 ELSE Max({1, (3 * n) \div Unit})
CalculateCrawlCost(pages, n) == 2 * pages + 3 * CeilDiv(n, Unit)
CalculateAgentCost(tokens) == 5 + 2 * CeilDiv(tokens, Unit)
CalculateStorageBill == CeilDiv(3 * local.stored, Unit)

mockCalculateCost(cpu, mem, gpu, hours) ==
  5 * cpu * hours + 3 * mem * hours + (IF gpu > 0 THEN 7 * gpu * hours ELSE 0)

Never == -1
breakEvenJobs(net, cost, fixed) ==
  IF net - cost <= 0 THEN Never
  ELSE IF fixed <= 0 THEN 0 ELSE CeilDiv(fixed, net - cost)

CalculateSlashAmount(reason, stake) ==
  (stake * (CASE reason = "downtime" -> 5 [] reason = "abandonment" -> 10
              [] reason = "violation" -> 15 [] reason = "fraud" -> 50
              [] reason = "leak" -> 100 [] OTHER -> 25)) \div 100

Quoted(of, args, cost) == LocalCall([local EXCEPT !.quote = [of |-> of, args |-> args, cost |-> cost]])

Quote(a, b) ==
  \/ Quoted("price", <<a, b>>, CalculatePrice(a, b, a * b))
  \/ Quoted("bid", <<a, b>>, CalculateBid(a, b))
  \/ Quoted("molt", <<a, b>>, CalculateMoltInvocationPrice(a, b))
  \/ Quoted("proxy", <<a, b>>, CalculateProxyCost(a + b))
  \/ Quoted("crawl", <<a, b>>, CalculateCrawlCost(a, b))
  \/ Quoted("agent", <<a, b>>, CalculateAgentCost(a))
  \/ Quoted("cost", <<a, b>>, mockCalculateCost(a, b, a, b))
  \/ Quoted("even", <<a, b>>, breakEvenJobs(a, 1, b))
  \/ \E r \in {"downtime", "abandonment", "violation", "fraud", "leak", "other"} :
       Quoted("slash", <<a, b>>, CalculateSlashAmount(r, a))

-----------------------------------------------------------------------------
(* The clients against the chain.  Transact takes the next nonce whatever   *)
(* becomes of the transaction; the endpoint estimates it on the pending     *)
(* state and refuses one that would revert.                                 *)
SpenderOf(op) ==
  CASE op = "CreateEscrow" -> "escrow" [] op \in {"Stake", "StakeWithIdentity"} -> "staking"
    [] OTHER -> "registry"
Spending == {"CreateEscrow", "Stake", "StakeWithIdentity", "Register"}
Busy(x) == client.call[x].step # "idle"

Run(t) == Cardinality({n \in client.next .. t - 1 : \E u \in client.pool : u.nonce = n})
Pending == client.next + Max({n \in 0 .. Cardinality(client.pool) : Run(client.next + n) = n})
At(n) == CHOOSE u \in client.pool : u.nonce = n

Effect(u, sp, a) ==
  IF u.sp # sp THEN a
  ELSE IF u.kind = "approve" THEN u.cost
  ELSE IF a >= u.cost THEN a - u.cost ELSE a
PendingAllowance(sp) ==
  LET after[n \in client.next .. Pending] ==
        IF n = client.next THEN client.allow[sp] ELSE Effect(At(n - 1), sp, after[n - 1])
  IN after[Pending]

Acceptable == client.nonce >= client.next /\ \A u \in client.pool : u.nonce # client.nonce

(* Transact with transaction u for x, who goes on to call c if it is taken. *)
Transact(x, u, ok, c) ==
  client' = IF ok /\ Acceptable
            THEN [client EXCEPT !.nonce = @ + 1, !.pool = @ \cup {u}, !.call[x] = c]
            ELSE [client EXCEPT !.nonce = @ + 1, !.lost = TRUE, !.call[x] = NoCall]

(* The allowance is set, not raised: two calls at once on one spender clash.*)
Approve(x, op, a) ==
  LET sp == SpenderOf(op) IN
  /\ calls < MaxCalls /\ ~Busy(x)
  /\ calls' = calls + 1
  /\ LET clash == \E y \in Callers : Busy(y) /\ SpenderOf(client.call[y].op) = sp
         u == [nonce |-> client.nonce, kind |-> "approve", sp |-> sp, cost |-> a]
     IN client' = [client EXCEPT
          !.nonce = @ + 1,
          !.pool = IF Acceptable THEN @ \cup {u} ELSE @,
          !.lost = @ \/ ~Acceptable,
          !.overlapped = @ \/ clash,
          !.call[x] = IF Acceptable
                      THEN [op |-> op, step |-> "approved", cost |-> a, nonce |-> client.nonce]
                      ELSE NoCall]
  /\ UNCHANGED <<part, mock, local, faults>>

Waited(op) == op \in {"CreateEscrow", "Stake"}

PayAtOnce(x) ==
  LET c == client.call[x]
      u == [nonce |-> client.nonce, kind |-> "pay", sp |-> SpenderOf(c.op), cost |-> c.cost]
  IN
  /\ c.step = "approved"
  /\ Transact(x, u, client.allow[u.sp] >= u.cost,
        IF Waited(c.op) THEN [c EXCEPT !.step = "sent", !.nonce = client.nonce] ELSE NoCall)
  /\ UNCHANGED <<part, mock, local, calls, faults>>

(* The escrow waits until its approval is mined; the others do not.         *)
Pay(x) ==
  LET c == client.call[x]
      u == [nonce |-> client.nonce, kind |-> "pay", sp |-> SpenderOf(c.op), cost |-> c.cost]
  IN
  /\ c.step = "approved"
  /\ c.op = "CreateEscrow" => c.nonce < client.next
  /\ Transact(x, u, PendingAllowance(u.sp) >= u.cost,
        IF Waited(c.op) THEN [c EXCEPT !.step = "sent", !.nonce = client.nonce] ELSE NoCall)
  /\ UNCHANGED <<part, mock, local, calls, faults>>

(* WaitForTransaction: a failed receipt resynchronizes the nonce, which is  *)
(* read from the endpoint and then stored.                                  *)
WaitForTransaction(x) ==
  LET c == client.call[x] IN
  /\ c.step = "sent" /\ c.nonce < client.next
  /\ client' = [client EXCEPT !.call[x] =
       IF c.nonce \in client.failed THEN [c EXCEPT !.step = "syncing", !.nonce = Pending] ELSE NoCall]
  /\ UNCHANGED <<part, mock, local, calls, faults>>

SyncNonce(x) ==
  /\ client.call[x].step = "syncing"
  /\ client' = [client EXCEPT !.nonce = client.call[x].nonce, !.call[x] = NoCall]
  /\ UNCHANGED <<part, mock, local, calls, faults>>

(* The context of a wait ends first; the resynchronization that follows     *)
(* uses the same context and does nothing.                                  *)
WaitEnds(x) ==
  LET c == client.call[x] IN
  /\ faults < MaxFaults
  /\ c.step = "sent" \/ (c.step = "approved" /\ c.op = "CreateEscrow")
  /\ c.nonce >= client.next
  /\ client' = [client EXCEPT !.call[x] = NoCall]
  /\ faults' = faults + 1
  /\ UNCHANGED <<part, mock, local, calls>>

(* The endpoint refuses what x is about to send.                            *)
SendFails(x) ==
  /\ faults < MaxFaults
  /\ client.call[x].step = "approved"
  /\ client.call[x].op = "CreateEscrow" => client.call[x].nonce < client.next
  /\ client' = [client EXCEPT !.nonce = @ + 1, !.lost = TRUE, !.call[x] = NoCall]
  /\ faults' = faults + 1
  /\ UNCHANGED <<part, mock, local, calls>>

(* A call that spends nothing is one transaction; nobody waits for it.      *)
Send(x) ==
  /\ calls < MaxCalls /\ ~Busy(x)
  /\ calls' = calls + 1
  /\ Transact(x, [nonce |-> client.nonce, kind |-> "plain", sp |-> "none", cost |-> 0], TRUE, NoCall)
  /\ UNCHANGED <<part, mock, local, faults>>

(* A violation is reported as a proposal to slash nothing, which the        *)
(* staking contract refuses: the estimate fails and the nonce is spent.     *)
ReportViolation(x) ==
  /\ calls < MaxCalls /\ ~Busy(x)
  /\ calls' = calls + 1
  /\ client' = [client EXCEPT !.nonce = @ + 1, !.lost = TRUE, !.reports = @ + 1]
  /\ UNCHANGED <<part, mock, local, faults>>

Mine ==
  /\ \E u \in client.pool :
       /\ u.nonce = client.next
       /\ client' = [client EXCEPT
            !.next = @ + 1,
            !.pool = @ \ {u},
            !.allow = [sp \in Spenders |-> Effect(u, sp, @[sp])],
            !.failed = IF u.kind = "pay" /\ client.allow[u.sp] < u.cost THEN @ \cup {u.nonce} ELSE @]
  /\ UNCHANGED <<part, mock, local, calls, faults>>

-----------------------------------------------------------------------------
MockToken ==
  \E a \in Amounts : mockApprove(a) \/ \E p \in Providers : mockTransfer(p, a) \/ mockTransferFrom(p, a)
MockStaking ==
  \/ \E a \in Amounts : mockStake(a) \/ mockRequestUnstake(a) \/ mockRequestUndelegate(a)
  \/ \E i \in DOMAIN mock.pending : mockCompleteUnstake(i)
  \/ \E i \in DOMAIN mock.unbonding : mockCompleteUndelegate(i)
  \/ \E a \in Amounts, n \in NodeIDs : StakeWithIdentity(a, n)
  \/ \E n \in NodeIDs : UpdateIdentity(n)
  \/ \E p \in Providers, a \in Amounts : mockDelegate(p, a)
MockEscrow ==
  \E j \in Jobs :
    \/ \E a \in Amounts : mockCreateEscrow(j, a)
    \/ \E d \in 1 .. Period + 1 : mockReleasePayment(j, d)
    \/ mockSelectProviders(j) \/ mockRefund(j) \/ mockFinalizeEscrow(j)
    \/ InvalidateReservation(j)
MockSlashing ==
  \/ mockReportViolation
  \/ \E i \in DOMAIN mock.disputes : mockSubmitDefense(i) \/ \E a \in Amounts : mockResolveDispute(i, a)
  \/ \E a \in Amounts : mockSlash(a)
MockConduct ==
  \/ mockSubmitAttestation \/ mockCheckMissed \/ ChallengeAttestation
  \/ RegisterProvider \/ RecordJobCompleted \/ RecordJobFailed \/ RecordSlashEvent
  \/ \E delta \in {-300, 300} : RecordEvent(delta)
MockRegistry ==
  \E n \in Names :
    \/ \E d \in Deployments : Register(n, d) \/ ClaimReservation(n, d) \/ UpdateDeployment(n, d)
    \/ \E p \in Providers : TransferName(n, p)
    \/ Reserve(n) \/ SetPrimaryName(n) \/ Release(n)
Stakes ==
  \/ \E a \in Amounts : StakeLocally(a) \/ SlashLocally(a) \/ AddRewards(a) \/ Unstake(a)
  \/ \E p \in Providers : SetBeneficiary(p)
  \/ GetBeneficiary \/ ClaimRewards \/ CompleteUnstake
Credits ==
  \E x \in Callers :
    \/ \E a \in Amounts : Deposit(x, a) \/ Deduct(x, a)
    \/ RefundAll(x) \/ ChangeRecord(x)
Ledgers ==
  \/ \E a \in Amounts : CreateEscrow(a) \/ RecordStorageUpload(a) \/ RecordStorageDelete(a)
  \/ \E d \in 1 .. Period + 1 : ReleasePayment(d)
  \/ Quoted("bill", <<local.stored, 0>>, CalculateStorageBill)
Chain ==
  \/ \E x \in Callers :
       \/ \E op \in Spending, a \in Amounts : Approve(x, op, a)
       \/ Pay(x) \/ WaitForTransaction(x) \/ SyncNonce(x) \/ WaitEnds(x) \/ SendFails(x)
       \/ Send(x) \/ ReportViolation(x)
  \/ Mine

Next ==
  \/ part = "token" /\ MockToken
  \/ part = "staking" /\ (MockStaking \/ Week)
  \/ part = "escrow" /\ MockEscrow
  \/ part = "slashing" /\ MockSlashing
  \/ part = "conduct" /\ (MockConduct \/ Week)
  \/ part = "registry" /\ MockRegistry
  \/ part = "stakes" /\ (Stakes \/ Week)
  \/ part = "credits" /\ Credits
  \/ part = "ledgers" /\ Ledgers
  \/ part = "quotes" /\ \E a, b \in 0 .. Unit + 1 : Quote(a, b)
  \/ part = "chain" /\ Chain

Spec == Init /\ [][Next]_payments

-----------------------------------------------------------------------------
(* The mock books balance: transfers move tokens and make none; the stake   *)
(* and the requests not completed are what was staked and not paid out; an  *)
(* escrow never gives out more than it holds, and a reservation that still  *)
(* resolves has an escrow that can pay.                                     *)
MockBooks ==
  /\ MapThenSumSet(LAMBDA p : mock.balances[p], Providers) = Initial
  /\ \A p \in Providers : mock.balances[p] >= 0
  /\ mock.stake + TotalUnbonding = mock.staked
  /\ mock.delegated[mock.delegation.to] >= mock.delegation.amount
  /\ EffectiveTier >= GetTier /\ (IsActiveProvider <=> GetTier >= 1)
  /\ mock.node # Nothing => mock.node \in mock.nodeMap
  /\ \A j \in Jobs : LET e == mock.escrows[j] IN
       /\ e.released + e.back <= e.amount
       /\ j \in mock.reserved => e.state \in {"created", "active"}
  /\ mock.violations = mock.punished + Cardinality({i \in DOMAIN mock.disputes : mock.disputes[i] = "resolved"})
  /\ mock.att.missed >= 3 => mock.att.suspended
  /\ IsAttestationCurrent => mock.att.missed = 0
  /\ mock.rep.score \in 0 .. MaxScore
  /\ \A n \in Names : mock.names[n].primary => n \in ReverseResolve(mock.names[n].dep)

(* The local ledgers balance: credit deposited is held, spent or refunded,  *)
(* and credit no requester can reach comes only of a deposit that a refund  *)
(* overtook between its two locks; stake is held, slashed or paid out, and  *)
(* is negative only after a slash during the cooldown.                      *)
LedgersBalance ==
  /\ local.deposits = FoldSeq(LAMBDA b, n : n + b, 0, local.records) + local.spent + local.refunded
  /\ \A i \in DOMAIN local.records :
       /\ local.records[i] >= 0
       /\ i # local.credit /\ local.records[i] > 0
            => local.raced \/ \E x \in Callers : local.held[x].op = "refund"
  /\ local.stake + local.slashed + local.paid = local.in
  /\ local.stake < 0 => local.cut
  /\ local.escrow.released <= local.escrow.amount
  /\ local.stored >= 0

(* Against a reference: a bid never exceeds the price nor falls with less   *)
(* stake, an invocation is charged the exact cost less at most one unit for *)
(* each component, and the break-even count is the smallest that pays.      *)
QuotesRight ==
  LET q == local.quote
      a == q.args[1]
      b == q.args[2]
  IN
  /\ q.of = "bid" => q.cost <= a /\ (a > 0 => q.cost > 0) /\ q.cost <= CalculateBid(a, Max({0, b - 1}))
  /\ q.of = "molt" =>
       /\ q.cost >= 1
       /\ LET exact == (5 + 3 * Max({1, CeilDiv(b, Unit)})) * Max({a, 2}) IN
          q.cost * Unit <= Max({exact, Unit}) /\ exact < (q.cost + 2) * Unit
  /\ q.of = "even" => IF a <= 1 THEN q.cost = Never
                      ELSE q.cost = CHOOSE n \in 0 .. b : (a - 1) * n >= b
                                      /\ \A m \in 0 .. n - 1 : (a - 1) * m < b
  /\ q.of = "proxy" => (q.cost = 0 <=> a + b = 0)
  /\ q.of = "slash" => q.cost <= a
  /\ q.of = "bill" => q.cost * Unit >= 3 * a /\ (q.cost - 1) * Unit < 3 * a

(* A call that spends approves first, and as long as no two such calls on   *)
(* one contract overlap, the endpoint takes every transaction and nothing   *)
(* is reported, no transaction reverts, no nonce is lost, and once all is   *)
(* mined no allowance is left behind.                                       *)
ApprovalsHold ==
  LET calm == ~client.overlapped /\ faults = 0 /\ client.reports = 0 IN
  calm => /\ ~client.lost /\ client.failed = {}
          /\ client.pool = {} /\ (\A x \in Callers : ~Busy(x)) => \A sp \in Spenders : client.allow[sp] = 0

PaymentsSound == MockBooks /\ LedgersBalance /\ QuotesRight /\ ApprovalsHold

(* A completed withdrawal is capped at what a slash during the cooldown     *)
(* left, so that no stake is negative.                                      *)
StakeNonNegative == local.stake >= 0

(* A violation reported to the chain opens a proposal there.                *)
ReportsLand == client.reports > 0 => client.proposals > 0

=============================================================================
