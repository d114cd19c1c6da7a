--------------------------- MODULE BunkerRegistry ---------------------------
(***************************************************************************)
(* contracts/src/BunkerRegistry.sol: names are registered or reserved for  *)
(* a fee, expire with a grace period, and can be taken over when expired,  *)
(* when a reservation lapsed or when they were never used.  bulkRegister   *)
(* and bulkRenew are sequences of the steps Register and Renew.            *)
(***************************************************************************)
EXTENDS Integers, Sequences, FiniteSets, SequencesExt

CONSTANTS Users, NoUser,
          Names, NoName,
          ShortNames,            \* those of at most three characters
          Multiplier,            \* premium multiplier of each name, by its length
          Deployments, NoDeployment,
          TierDiscountBps,       \* what getTier of the staking contract earns a user
          MAX_NAMES_PER_OWNER,
          MIN_REGISTRATION_FEE,
          Options,               \* for every setting, the values the owner may choose
          InitialSettings,
          InitialBalance,        \* of every user's wallet
          MaxTime,               \* bound on the clock
          MaxExpiry              \* bound on how far ahead a name is renewed

BURN_BPS == 8000
BPS_DENOMINATOR == 10000

VARIABLES subdomains,   \* one record per name; owner NoUser for none
          nameOf,       \* the names whose string is stored
          ownedNames,   \* _ownedNames
          metadata,     \* the names that have metadata
          primaryName,  \* of each deployment, NoName for none
          reservedNames,
          set,          \* what the owner sets
          wallet, treasury, burned,
          now

tokens == <<wallet, treasury, burned>>
vars == <<subdomains, nameOf, ownedNames, metadata, primaryName, reservedNames, set, tokens, now>>

SubdomainRecord ==
  [owner : Users \cup {NoUser}, deploymentID : Deployments \cup {NoDeployment},
   registeredAt : Nat, expiresAt : Nat, reservedUntil : Nat]

NoRecord == [owner |-> NoUser, deploymentID |-> NoDeployment,
             registeredAt |-> 0, expiresAt |-> 0, reservedUntil |-> 0]

SettingsType ==
  [registrationFee : Nat, changeFee : Nat, expirationPeriod : Nat, gracePeriod : Nat,
   reservationPeriod : Nat, squattingGracePeriod : Nat, referralDiscountBps : 0 .. 2000,
   referralRewardBps : 0 .. 1000, staking : BOOLEAN, shortNamesEnabled : BOOLEAN,
   paused : BOOLEAN]

Init ==
  /\ subdomains = [n \in Names |-> NoRecord]
  /\ nameOf = {}
  /\ ownedNames = [u \in Users |-> <<>>]
  /\ metadata = {}
  /\ primaryName = [d \in Deployments |-> NoName]
  /\ reservedNames = {}
  /\ set = InitialSettings
  /\ wallet = [u \in Users |-> InitialBalance] /\ treasury = 0 /\ burned = 0
  /\ now = 1

-----------------------------------------------------------------------------
(* Expiry. *)

(* _isExpired, _isInGracePeriod, _isFullyExpired *)
IsExpired(n) == subdomains[n].expiresAt > 0 /\ now > subdomains[n].expiresAt
IsInGracePeriod(n) == IsExpired(n) /\ now <= subdomains[n].expiresAt + set.gracePeriod

(* Mutant: the grace period is forgotten. *)
IsFullyExpiredAtOnce(n) == IsExpired(n)

IsFullyExpired(n) == IsExpired(n) /\ now > subdomains[n].expiresAt + set.gracePeriod

(* A reservation whose time is over. *)
IsLapsed(n) == subdomains[n].reservedUntil > 0 /\ now > subdomains[n].reservedUntil

isAvailable(n) == subdomains[n].owner = NoUser \/ IsFullyExpired(n) \/ IsLapsed(n)

-----------------------------------------------------------------------------
(* Fees. *)

Part(amount, bps) == (amount * bps) \div BPS_DENOMINATOR

(* _calculatePrice and _applyStakingDiscount *)
Price(n, u) ==
  LET base == set.registrationFee * Multiplier[n]
  IN  IF set.staking THEN base - Part(base, TierDiscountBps[u]) ELSE base

(* _applyReferralDiscount *)
Discounted(price) == price - Part(price, set.referralDiscountBps)
ReferrerReward(price) == Part(price, set.referralRewardBps)

TreasuryPart(amount, reward) == amount - Part(amount, BURN_BPS) - reward

(* _collectFee: nobody is paid when the fee is zero, and the subtraction   *)
(* of the reward reverts below zero.                                       *)
CollectFee(u, amount, referrer, reward) ==
  \/ amount = 0 /\ UNCHANGED tokens
  \/ /\ amount > 0
     /\ wallet[u] >= amount
     /\ TreasuryPart(amount, reward) >= 0
     /\ wallet' = [v \in Users |-> wallet[v] - (IF v = u THEN amount ELSE 0)
                                             + (IF v = referrer THEN reward ELSE 0)]
     /\ treasury' = treasury + TreasuryPart(amount, reward)
     /\ burned' = burned + Part(amount, BURN_BPS)

-----------------------------------------------------------------------------
(* Names. *)

(* Mutant: the name stays on the list. *)
WithoutKept(names, n) == names

(* _removeOwnedName: the last name takes the place of the removed one. *)
Without(names, n) ==
  IF \E i \in DOMAIN names : names[i] = n
  THEN LET i == CHOOSE j \in DOMAIN names : names[j] = n
       IN  Front([names EXCEPT ![i] = Last(names)])
  ELSE names

(* The previous owner's list loses n before the new owner's list gains it. *)
Moved(n, to) ==
  LET removed == [u \in Users |-> IF u = subdomains[n].owner THEN Without(ownedNames[u], n)
                                  ELSE ownedNames[u]]
  IN  [u \in Users |-> IF u = to THEN Append(removed[u], n) ELSE removed[u]]

(* Deleting the record of n, with the name in the owner's list. *)
Dropped(n) ==
  /\ subdomains' = [subdomains EXCEPT ![n] = NoRecord]
  /\ nameOf' = nameOf \ {n}
  /\ ownedNames' = Moved(n, NoUser)

(* Forget n as the primary name of the deployment it points to. *)
PrimaryCleared(n) ==
  [d \in Deployments |-> IF d = subdomains[n].deploymentID /\ primaryName[d] = n
                         THEN NoName ELSE primaryName[d]]

RoomFor(u) == Len(ownedNames[u]) < MAX_NAMES_PER_OWNER

Takeable(u, n) ==
  /\ ~set.paused
  /\ n \in ShortNames => set.shortNamesEnabled
  /\ n \notin reservedNames
  /\ RoomFor(u)
  /\ isAvailable(n)

Taken(u, n, d, reservedUntil) ==
  /\ subdomains' = [subdomains EXCEPT ![n] =
       [owner |-> u, deploymentID |-> d, registeredAt |-> now,
        expiresAt |-> now + set.expirationPeriod, reservedUntil |-> reservedUntil]]
  /\ nameOf' = nameOf \cup {n}
  /\ ownedNames' = Moved(n, u)

(* register, registerWithReferral and each step of bulkRegister.  A        *)
(* lapsed reservation that is not fully expired keeps its primary name.    *)
Register(u, n, d, referrer) ==
  LET price == Price(n, u)
  IN  /\ Takeable(u, n)
      /\ d # NoDeployment /\ referrer # u
      /\ IF referrer = NoUser THEN CollectFee(u, price, NoUser, 0)
         ELSE CollectFee(u, Discounted(price), referrer, ReferrerReward(price))
      /\ Taken(u, n, d, 0)
      /\ primaryName' = IF IsFullyExpired(n) THEN PrimaryCleared(n) ELSE primaryName
      /\ metadata' = IF subdomains[n].owner # NoUser THEN metadata \ {n} ELSE metadata
      /\ UNCHANGED <<reservedNames, set, now>>

(* renew and each step of bulkRenew. *)
Renew(u, n) ==
  /\ ~set.paused
  /\ subdomains[n].owner = u
  /\ ~IsFullyExpired(n)
  /\ subdomains[n].expiresAt + set.expirationPeriod <= MaxExpiry
  /\ CollectFee(u, Price(n, u), NoUser, 0)
  /\ subdomains' = [subdomains EXCEPT ![n].expiresAt =
       (IF now > @ THEN now ELSE @) + set.expirationPeriod]
  /\ UNCHANGED <<nameOf, ownedNames, metadata, primaryName, reservedNames, set, now>>

(* The old record's metadata and primary name are left as they are. *)
Reserve(u, n) ==
  /\ Takeable(u, n)
  /\ CollectFee(u, Price(n, u), NoUser, 0)
  /\ Taken(u, n, NoDeployment, now + set.reservationPeriod)
  /\ UNCHANGED <<metadata, primaryName, reservedNames, set, now>>

ClaimReservation(u, n, d) ==
  /\ ~set.paused
  /\ d # NoDeployment
  /\ subdomains[n].owner = u
  /\ subdomains[n].reservedUntil # 0
  /\ ~IsLapsed(n)
  /\ subdomains' = [subdomains EXCEPT ![n].deploymentID = d, ![n].reservedUntil = 0]
  /\ UNCHANGED <<nameOf, ownedNames, metadata, primaryName, reservedNames, set, tokens, now>>

CancelReservation(u, n) ==
  /\ ~set.paused
  /\ subdomains[n].owner = u
  /\ subdomains[n].reservedUntil # 0
  /\ Dropped(n)
  /\ UNCHANGED <<metadata, primaryName, reservedNames, set, tokens, now>>

Release(u, n) ==
  /\ ~set.paused
  /\ subdomains[n].owner = u
  /\ Dropped(n)
  /\ primaryName' = PrimaryCleared(n)
  /\ metadata' = metadata \ {n}
  /\ UNCHANGED <<reservedNames, set, tokens, now>>

TransferName(u, n, to) ==
  /\ ~set.paused
  /\ to # u
  /\ RoomFor(to)
  /\ subdomains[n].owner = u
  /\ ~IsExpired(n)
  /\ subdomains' = [subdomains EXCEPT ![n].owner = to]
  /\ ownedNames' = Moved(n, to)
  /\ UNCHANGED <<nameOf, metadata, primaryName, reservedNames, set, tokens, now>>

(* The reservation, if it is one, stays a reservation. *)
UpdateDeployment(u, n, d) ==
  /\ ~set.paused
  /\ d # NoDeployment
  /\ subdomains[n].owner = u
  /\ ~IsExpired(n)
  /\ CollectFee(u, set.changeFee, NoUser, 0)
  /\ primaryName' = PrimaryCleared(n)
  /\ subdomains' = [subdomains EXCEPT ![n].deploymentID = d]
  /\ UNCHANGED <<nameOf, ownedNames, metadata, reservedNames, set, now>>

SetMetadata(u, n) ==
  /\ ~set.paused
  /\ subdomains[n].owner = u
  /\ ~IsExpired(n)
  /\ CollectFee(u, set.changeFee, NoUser, 0)
  /\ metadata' = metadata \cup {n}
  /\ UNCHANGED <<subdomains, nameOf, ownedNames, primaryName, reservedNames, set, now>>

IsSquatted(n) ==
  \/ IsLapsed(n)
  \/ /\ subdomains[n].deploymentID = NoDeployment
     /\ subdomains[n].reservedUntil = 0
     /\ now > subdomains[n].registeredAt + set.squattingGracePeriod

ReclaimSquatted(n) ==
  /\ ~set.paused
  /\ subdomains[n].owner # NoUser
  /\ IsSquatted(n)
  /\ Dropped(n)
  /\ metadata' = metadata \ {n}
  /\ UNCHANGED <<primaryName, reservedNames, set, tokens, now>>

SetPrimaryName(u, n) ==
  /\ ~set.paused
  /\ subdomains[n].owner = u
  /\ ~IsExpired(n)
  /\ subdomains[n].deploymentID # NoDeployment
  /\ primaryName' = [primaryName EXCEPT ![subdomains[n].deploymentID] = n]
  /\ UNCHANGED <<subdomains, nameOf, ownedNames, metadata, reservedNames, set, tokens, now>>

-----------------------------------------------------------------------------
(* The owner and the clock. *)

(* The bounds of the setters.  Those of the periods are left to Options,   *)
(* whose time units are not seconds.                                       *)
WithinBounds(k, v) ==
  /\ k \in {"registrationFee", "changeFee"} => v = 0 \/ v >= MIN_REGISTRATION_FEE
  /\ k = "referralDiscountBps" => v <= 2000
  /\ k = "referralRewardBps" => v <= 1000

(* setRegistrationFee, setChangeFee, the setters of the periods and of the *)
(* referral rates, setStakingContract, setShortNamesEnabled, pause and     *)
(* unpause.                                                                *)
SetParameter(k, v) ==
  /\ WithinBounds(k, v)
  /\ set' = [set EXCEPT ![k] = v]
  /\ UNCHANGED reservedNames

(* setReservedName and batchReserveNames. *)
SetReservedName(n, reserved) ==
  /\ reservedNames' = IF reserved THEN reservedNames \cup {n} ELSE reservedNames \ {n}
  /\ UNCHANGED set

OwnerStep ==
  /\ \/ \E k \in DOMAIN set : \E v \in Options[k] : SetParameter(k, v)
     \/ \E n \in Names \cap Options.reservable, b \in BOOLEAN : SetReservedName(n, b)
  /\ UNCHANGED <<subdomains, nameOf, ownedNames, metadata, primaryName, tokens, now>>

Tick ==
  /\ now < MaxTime
  /\ now' = now + 1
  /\ UNCHANGED <<subdomains, nameOf, ownedNames, metadata, primaryName, reservedNames, set, tokens>>

UserStep(u, n) ==
  \/ \E d \in Deployments, r \in Users \cup {NoUser} : Register(u, n, d, r)
  \/ Renew(u, n)
  \/ Reserve(u, n)
  \/ \E d \in Deployments : ClaimReservation(u, n, d) \/ UpdateDeployment(u, n, d)
  \/ CancelReservation(u, n)
  \/ Release(u, n)
  \/ \E to \in Users : TransferName(u, n, to)
  \/ SetMetadata(u, n)
  \/ SetPrimaryName(u, n)

Next ==
  \/ \E n \in Names : ReclaimSquatted(n) \/ \E u \in Users : UserStep(u, n)
  \/ OwnerStep
  \/ Tick

Spec == Init /\ [][Next]_vars

-----------------------------------------------------------------------------
(* Properties. *)

(* The state keeps its shape; balances do not go below zero and the owner's *)
(* settings keep their bounds.                                              *)
TypeOK ==
  /\ subdomains \in [Names -> SubdomainRecord]
  /\ nameOf \subseteq Names /\ metadata \subseteq Names /\ reservedNames \subseteq Names
  /\ \A u \in Users : ownedNames[u] \in Seq(Names)
  /\ primaryName \in [Deployments -> Names \cup {NoName}]
  /\ set \in SettingsType
  /\ wallet \in [Users -> Nat] /\ treasury \in Nat /\ burned \in Nat
  /\ now \in Nat

(* Whatever sequence of takeovers, transfers, releases and reclaims came    *)
(* before, a user's list holds each owned name once and nothing else, and   *)
(* not more than MAX_NAMES_PER_OWNER; a name has its string exactly while   *)
(* it is owned.                                                             *)
ListsMatchRecords ==
  /\ \A u \in Users :
       /\ ToSet(ownedNames[u]) = {n \in Names : subdomains[n].owner = u}
       /\ IsInjective(ownedNames[u])
       /\ Len(ownedNames[u]) <= MAX_NAMES_PER_OWNER
  /\ nameOf = {n \in Names : subdomains[n].owner # NoUser}

(* Nobody loses a name in time: the owner's own call apart, an owner        *)
(* changes only when the name is past its grace period, when a reservation  *)
(* lapsed, or when the name never got a deployment.                         *)
HolderKeepsName ==
  \A n \in Names :
    LET u == subdomains[n].owner
    IN  u # NoUser /\ subdomains'[n].owner # u =>
          \/ now > subdomains[n].expiresAt + set.gracePeriod
          \/ IsLapsed(n)
          \/ subdomains[n].deploymentID = NoDeployment
          \/ Release(u, n) \/ CancelReservation(u, n)
          \/ \E to \in Users : TransferName(u, n, to)

(* The owner of a name within its grace period can renew it, and then no    *)
(* takeover of the expired name is possible any more.                       *)
GraceAllowsRenewal ==
  \A n \in Names :
    LET u == subdomains[n].owner
    IN  u # NoUser /\ IsInGracePeriod(n) /\ ~set.paused /\ wallet[u] >= Price(n, u)
          /\ subdomains[n].expiresAt + set.expirationPeriod <= MaxExpiry
          => ENABLED Renew(u, n)

(* No fee is lost or paid twice between the payer, the referrer, the        *)
(* treasury and the burn.                                                   *)
TokensConserved ==
  FoldSet(LAMBDA u, s : wallet[u] + s, 0, Users) + treasury + burned
    = InitialBalance * Cardinality(Users)

(* registerWithReferral never fails because of the reward: for every price  *)
(* and every rate the owner may set, the treasury's share of the discounted *)
(* price pays for it.                                                       *)
ReferralAffordable ==
  \A n \in Names, u \in Users :
    TreasuryPart(Discounted(Price(n, u)), ReferrerReward(Price(n, u))) >= 0

(* "an expired reservation (no deployment set, reservation expired)": a     *)
(* name that may be taken as a lapsed reservation points nowhere.           *)
LapsedMeansUnused ==
  \A n \in Names : IsLapsed(n) => subdomains[n].deploymentID = NoDeployment
=============================================================================
