----------------------------- MODULE MCContracts -----------------------------
(* Small instances of the contracts that are checked one at a time: the     *)
(* delegation, reputation and verification contracts, the name registry,    *)
(* the timelock and the pricing contract. A behaviour runs one scenario,    *)
(* chosen in its initial state; the other contracts do not exist in it, or  *)
(* stay as they were deployed: the two that this module extends.            *)
EXTENDS BunkerVerification, BunkerTimelock, Sequences, FiniteSets

CONSTANTS Scenarios,                 \* the scenarios this model runs
          None,                      \* nobody, no name, no deployment, no feed
          Absent,                    \* the state of a contract not in the scenario
          p1, p2,                    \* providers
          u1, u2,                    \* users of the registry
          n1, n2, n3, d1, d2,        \* names and deployments
          t1, o1                     \* a contract behind the timelock, a feed

VARIABLES scenario,
          time,                      \* the clock of the contracts not extended
          info, config, queue, totalDelegated, maxRewardCutBps, unbondingPeriod, paused,
          staking, activeProvider, delegatorWallet, balance,
          rep, param,
          subdomains, nameOf, ownedNames, metadata, primaryName, reservedNames, set,
          wallet, treasury, burned,
          prices, multipliers, maxMultiplierBps, providerPrices, bounds, stale,
          priceOracle, useOracleForPricing

delegationVars == <<info, config, queue, totalDelegated, maxRewardCutBps, unbondingPeriod,
                    paused, staking, activeProvider, delegatorWallet, balance>>
reputationVars == <<rep, param>>
registryVars == <<subdomains, nameOf, ownedNames, metadata, primaryName, reservedNames,
                  set, wallet, treasury, burned>>
pricingVars == <<prices, multipliers, maxMultiplierBps, providerPrices, bounds, stale,
                 priceOracle, useOracleForPricing>>
mcVars == <<scenario, time, delegationVars, reputationVars, vars, registryVars,
            timelockVars, pricingVars>>

NoDelegation ==
  /\ info = Absent /\ config = Absent /\ queue = Absent /\ totalDelegated = Absent
  /\ maxRewardCutBps = Absent /\ unbondingPeriod = Absent /\ paused = Absent
  /\ staking = Absent /\ activeProvider = Absent /\ delegatorWallet = Absent
  /\ balance = Absent

NoReputation == rep = Absent /\ param = Absent

(* Deployed with the first of their parameters, and never called. *)
NoVerification ==
  /\ Init
  /\ attestationInterval = 2 /\ maxMissedAttestations = 2 /\ reinstatementCooldown = 2

NoRegistry ==
  /\ subdomains = Absent /\ nameOf = Absent /\ ownedNames = Absent /\ metadata = Absent
  /\ primaryName = Absent /\ reservedNames = Absent /\ set = Absent /\ wallet = Absent
  /\ treasury = Absent /\ burned = Absent

NoTimelock == TimelockInit /\ minDelay = 2 /\ setting = [t \in Targets |-> 0]

NoPricing ==
  /\ prices = Absent /\ multipliers = Absent /\ maxMultiplierBps = Absent
  /\ providerPrices = Absent /\ bounds = Absent /\ stale = Absent
  /\ priceOracle = Absent /\ useOracleForPricing = Absent

-----------------------------------------------------------------------------
(* BunkerDelegation: two delegators and their funds; one provider's cuts. *)
Funds ==
  INSTANCE BunkerDelegation WITH NumDelegators <- 2, Providers <- {p1, p2},
    NoProvider <- None, Amounts <- {1, 2}, Cuts <- {}, MaxCuts <- {5}, Periods <- {1},
    InitialBalance <- 2, MAX_UNBONDING_QUEUE <- 2, MaxTime <- 1,
    now <- time

CutRaises ==
  INSTANCE BunkerDelegation WITH NumDelegators <- 1, Providers <- {p1},
    NoProvider <- None, Amounts <- {}, Cuts <- {0, 2, 4}, MaxCuts <- {2, 4},
    Periods <- {1, 2}, InitialBalance <- 1, MAX_UNBONDING_QUEUE <- 2, MaxTime <- 3,
    now <- time

(* BunkerReputation: scores 0..10, a week of two ticks. *)
Scores ==
  INSTANCE BunkerReputation WITH Providers <- {p1}, MAX_SCORE <- 10, INITIAL_SCORE <- 5,
    WEEK <- 2, JobCompletedDeltas <- {1}, JobTimeoutDeltas <- {-2},
    SlashEventDeltas <- {-5}, CustomDeltas <- {-3, 4}, MaxCustomDeltas <- {4},
    DecayRates <- {0, 1, 2}, DecayFloors <- {0, 2, 5}, MinScores <- {3},
    Thresholds <- {<<2, 5, 7, 9>>, <<3, 2, 7, 9>>}, MaxCount <- 1, MaxTime <- 7,
    now <- time

(* BunkerVerification: two providers in any rhythm of checks and            *)
(* challenges, and an owner who changes the parameters for one.             *)
AttestingNext == (\E p \in Providers : ProviderStep(p)) \/ Tick

AdjustedNext == ProviderStep(p1) \/ OwnerStep \/ Tick

(* BunkerRegistry: a name's life between two users; an owner who pauses and *)
(* shortens the grace period; fees with referrals; the lists of several     *)
(* names. Premium names cost five times the fee, and only u1 has a tier.    *)
Start ==
  [registrationFee |-> 0, changeFee |-> 0, expirationPeriod |-> 2, gracePeriod |-> 1,
   reservationPeriod |-> 1, squattingGracePeriod |-> 1, referralDiscountBps |-> 1000,
   referralRewardBps |-> 500, staking |-> TRUE, shortNamesEnabled |-> TRUE, paused |-> FALSE]

NoOptions == [k \in DOMAIN Start \cup {"reservable"} |-> {}]

NameLife ==
  INSTANCE BunkerRegistry WITH Users <- {u1, u2}, NoUser <- None, Names <- {n1},
    NoName <- None, ShortNames <- {n1}, Multiplier <- [n \in {n1} |-> 5],
    Deployments <- {d1, d2}, NoDeployment <- None, TierDiscountBps <- [u \in {u1, u2} |-> 0],
    MAX_NAMES_PER_OWNER <- 1, MIN_REGISTRATION_FEE <- 3,
    Options <- [NoOptions EXCEPT !.gracePeriod = {1}], InitialSettings <- Start,
    InitialBalance <- 0, MaxTime <- 8, MaxExpiry <- 9, now <- time

Governed ==
  INSTANCE BunkerRegistry WITH Users <- {u1}, NoUser <- None, Names <- {n1},
    NoName <- None, ShortNames <- {n1}, Multiplier <- [n \in {n1} |-> 5],
    Deployments <- {d1}, NoDeployment <- None, TierDiscountBps <- [u \in {u1} |-> 2000],
    MAX_NAMES_PER_OWNER <- 1, MIN_REGISTRATION_FEE <- 3,
    Options <- [NoOptions EXCEPT !.paused = BOOLEAN, !.gracePeriod = {0, 1},
                                 !.shortNamesEnabled = BOOLEAN, !.reservable = {n1},
                                 !.staking = {FALSE}],
    InitialSettings <- Start, InitialBalance <- 0, MaxTime <- 5, MaxExpiry <- 7, now <- time

Fees ==
  INSTANCE BunkerRegistry WITH Users <- {u1, u2}, NoUser <- None, Names <- {n1},
    NoName <- None, ShortNames <- {}, Multiplier <- [n \in {n1} |-> 1],
    Deployments <- {d1}, NoDeployment <- None,
    TierDiscountBps <- [u \in {u1, u2} |-> IF u = u1 THEN 2000 ELSE 0],
    MAX_NAMES_PER_OWNER <- 1, MIN_REGISTRATION_FEE <- 3,
    Options <- [NoOptions EXCEPT !.registrationFee = {77}, !.referralRewardBps = {1000},
                                 !.referralDiscountBps = {2000, 9000}],
    InitialSettings <- [Start EXCEPT !.registrationFee = 100, !.changeFee = 33],
    InitialBalance <- 140, MaxTime <- 1, MaxExpiry <- 3, now <- time

Lists ==
  INSTANCE BunkerRegistry WITH Users <- {u1, u2}, NoUser <- None, Names <- {n1, n2, n3},
    NoName <- None, ShortNames <- {n1},
    Multiplier <- [n \in {n1, n2, n3} |-> IF n = n1 THEN 5 ELSE 1],
    Deployments <- {d1}, NoDeployment <- None, TierDiscountBps <- [u \in {u1, u2} |-> 0],
    MAX_NAMES_PER_OWNER <- 2, MIN_REGISTRATION_FEE <- 3,
    Options <- [NoOptions EXCEPT !.gracePeriod = {0}],
    InitialSettings <- [Start EXCEPT !.expirationPeriod = 1, !.gracePeriod = 0],
    InitialBalance <- 0, MaxTime <- 2, MaxExpiry <- 2, now <- time

(* BunkerTimelock: a setter that is scheduled directly, by a helper or by   *)
(* another operation; a contract that the guardian and announced operations *)
(* pause and unpause.                                                       *)
SetCall == [fn |-> "set", target |-> t1, value |-> 1, salt |-> 0]
Setters == {SetCall, [fn |-> "schedule", call |-> SetCall]}
Pauses == [fn : {"pause", "unpause"}, target : {t1}, salt : {0}]

MCOperations == Setters \cup Pauses

SetterNext == (\E o \in Setters : Operate(o)) \/ Elapse

GuardianNext ==
  \/ \E o \in Pauses : Operate(o)
  \/ \E t \in Targets : EmergencyPause(t) \/ EmergencyUnpause(t)
  \/ Elapse

(* BunkerPricing: costs with a base of 10 for the basis points, 4           *)
(* milli-units and 3 hours a month, so that every division can leave a      *)
(* remainder; and the oracle settings.                                      *)
MCRequests ==
  { [cpu |-> 3, memory |-> 1, storage |-> 2, network |-> 1, hours |-> 1,
     gpu |-> "none", flags |-> {}],
    [cpu |-> 1, memory |-> 0, storage |-> 1, network |-> 0, hours |-> 2,
     gpu |-> "gpuBasic", flags |-> {"tor", "spot"}],
    [cpu |-> 0, memory |-> 5, storage |-> 0, network |-> 0, hours |-> 1,
     gpu |-> "gpuPremium", flags |-> {"tor", "premiumSLA", "spot"}],
    [cpu |-> 0, memory |-> 0, storage |-> 0, network |-> 0, hours |-> 0,
     gpu |-> "none", flags |-> {"spot"}] }

MultiplierChoices ==
  { [redundancy |-> 30, tor |-> 12, premiumSLA |-> 15, spot |-> 5],
    [redundancy |-> 11, tor |-> 13, premiumSLA |-> 7, spot |-> 9],
    [redundancy |-> 30, tor |-> 12, premiumSLA |-> 15, spot |-> 0] }

Quotes ==
  INSTANCE BunkerPricing WITH Providers <- {p1}, Requests <- MCRequests,
    PriceValues <- {0, 2, 3}, MultiplierSets <- MultiplierChoices,
    MultiplierCaps <- {40}, PriceBounds <- {<<5, 30>>, <<9, 11>>, <<12, 8>>},
    Thresholds <- {1, 2}, MaxThreshold <- 6, Oracles <- {}, NoOracle <- None,
    BPS_DENOMINATOR <- 10, Milli <- 4, HoursPerMonth <- 3

Oracle ==
  INSTANCE BunkerPricing WITH Providers <- {p1}, Requests <- MCRequests,
    PriceValues <- {1}, MultiplierSets <- MultiplierChoices,
    MultiplierCaps <- {9, 30}, PriceBounds <- {<<5, 30>>},
    Thresholds <- 0 .. 7, MaxThreshold <- 6, Oracles <- {o1}, NoOracle <- None,
    BPS_DENOMINATOR <- 10, Milli <- 4, HoursPerMonth <- 3

-----------------------------------------------------------------------------
Delegated ==
  /\ \/ scenario = "funds" /\ Funds!Init
     \/ scenario = "cuts" /\ CutRaises!Init
  /\ NoReputation /\ NoVerification /\ NoRegistry /\ NoTimelock /\ NoPricing

Rated ==
  /\ scenario = "scores" /\ Scores!Init
  /\ NoDelegation /\ NoVerification /\ NoRegistry /\ NoTimelock /\ NoPricing

Verified ==
  /\ time = 0
  /\ \/ scenario = "attesting" /\ NoVerification
     \/ scenario = "adjusted" /\ Init
  /\ NoDelegation /\ NoReputation /\ NoRegistry /\ NoTimelock /\ NoPricing

Named ==
  /\ \/ scenario \in {"name", "lapse"} /\ NameLife!Init
     \/ scenario = "governed" /\ Governed!Init
     \/ scenario = "fees" /\ Fees!Init
     \/ scenario = "lists" /\ Lists!Init
  /\ NoDelegation /\ NoReputation /\ NoVerification /\ NoTimelock /\ NoPricing

Timelocked ==
  /\ time = 0
  /\ \/ scenario = "setter" /\ TimelockInit
     \/ scenario = "guardian" /\ TimelockInit /\ setting = [t \in Targets |-> 0]
  /\ NoDelegation /\ NoReputation /\ NoVerification /\ NoRegistry /\ NoPricing

Priced ==
  /\ \/ scenario = "quotes" /\ Quotes!Init
     \/ scenario = "oracle" /\ Oracle!Init
  /\ time = 0
  /\ NoDelegation /\ NoReputation /\ NoVerification /\ NoRegistry /\ NoTimelock

MCInit ==
  /\ scenario \in Scenarios
  /\ Delegated \/ Rated \/ Verified \/ Named \/ Timelocked \/ Priced

DelegationStep ==
  /\ \/ scenario = "funds" /\ Funds!Next
     \/ scenario = "cuts" /\ CutRaises!Next
  /\ UNCHANGED <<scenario, reputationVars, vars, registryVars, timelockVars,
                 pricingVars>>

ReputationStep ==
  /\ scenario = "scores" /\ Scores!Next
  /\ UNCHANGED <<scenario, delegationVars, vars, registryVars, timelockVars,
                 pricingVars>>

VerificationStep ==
  /\ \/ scenario = "attesting" /\ AttestingNext
     \/ scenario = "adjusted" /\ AdjustedNext
  /\ UNCHANGED <<scenario, time, delegationVars, reputationVars, registryVars, timelockVars,
                 pricingVars>>

RegistryStep ==
  /\ \/ scenario \in {"name", "lapse"} /\ NameLife!Next
     \/ scenario = "governed" /\ Governed!Next
     \/ scenario = "fees" /\ Fees!Next
     \/ scenario = "lists" /\ Lists!Next
  /\ UNCHANGED <<scenario, delegationVars, reputationVars, vars, timelockVars,
                 pricingVars>>

TimelockStep ==
  /\ \/ scenario = "setter" /\ SetterNext
     \/ scenario = "guardian" /\ GuardianNext
  /\ UNCHANGED <<scenario, time, delegationVars, reputationVars, vars, registryVars,
                 pricingVars>>

PricingStep ==
  /\ \/ scenario = "quotes" /\ Quotes!Next
     \/ scenario = "oracle" /\ Oracle!Next
  /\ UNCHANGED <<scenario, time, delegationVars, reputationVars, vars,
                 registryVars, timelockVars>>

MCNext ==
  \/ DelegationStep
  \/ ReputationStep
  \/ VerificationStep
  \/ RegistryStep
  \/ TimelockStep
  \/ PricingStep

MCSpec == MCInit /\ [][MCNext]_mcVars
-----------------------------------------------------------------------------
(* Properties: those of the components, each in the scenarios made for it.  *)
(* SuspensionsFair and DelaysHold are those of the extended modules.        *)

(* Every contract's state keeps its shape: no subtraction of the contract   *)
(* traps, no timestamp lies ahead and no list passes its limit.             *)
ContractTypes ==
  /\ scenario = "funds" => Funds!TypeOK
  /\ scenario = "cuts" => CutRaises!TypeOK
  /\ scenario = "scores" => Scores!TypeOK
  /\ TypeOK /\ TimelockTypeOK
  /\ scenario \in {"name", "lapse"} => NameLife!TypeOK
  /\ scenario = "governed" => Governed!TypeOK
  /\ scenario = "fees" => Fees!TypeOK
  /\ scenario = "lists" => Lists!TypeOK
  /\ scenario = "quotes" => Quotes!TypeOK
  /\ scenario = "oracle" => Oracle!TypeOK


(* BunkerReputation: applyDecay, callable by anyone at any time, changes no *)
(* score shown now or later; an event moves the score getScore showed, not  *)
(* a stale stored one; and decay alone stops at the floor and improves      *)
(* neither tier nor eligibility.                                            *)
DecayIsFair ==
  [][scenario = "scores" => /\ Scores!DecayCallsNeutral
                            /\ Scores!EventsMoveShownScore
                            /\ Scores!DecayStopsAtFloor]_mcVars

(* BunkerRegistry: nobody loses a name that is in use and in time, their    *)
(* own calls apart, and within the grace period it can be renewed.          *)
NamesKept ==
  /\ [][scenario = "name" => NameLife!HolderKeepsName]_mcVars
  /\ [](scenario = "governed" => Governed!GraceAllowsRenewal)

(* BunkerRegistry: a user's list holds the names they own, each once and    *)
(* within the limit; no fee is lost or paid twice; and the treasury's share *)
(* pays for every referral reward the owner may set.                        *)
RegistryBooks ==
  /\ scenario = "lists" => Lists!ListsMatchRecords
  /\ scenario = "fees" => Fees!TokensConserved /\ Fees!ReferralAffordable

(* BunkerPricing: no quote is below the exact cost, through all the         *)
(* roundings; a provider's quote stays within the bounds in force, whatever *)
(* the owner changed since the provider set its prices; the stale threshold *)
(* stays within its bounds, and oracle pricing is on only with a feed.      *)
QuotesSound ==
  /\ scenario = "quotes" => Quotes!NeverUndercharges /\ Quotes!ProviderQuoteBounded
  /\ scenario = "oracle" => Oracle!ThresholdWithinBounds /\ Oracle!OraclePricingHasFeed

(* "an expired reservation (no deployment set, reservation expired)": a     *)
(* name that may be taken as a lapsed reservation points nowhere.           *)
LapsedMeansUnused == scenario = "lapse" => NameLife!LapsedMeansUnused
=============================================================================
