---------------------------- MODULE BunkerPricing ----------------------------
(***************************************************************************)
(* contracts/src/BunkerPricing.sol: the owner's price list, the prices     *)
(* providers set for themselves within bounds relative to it, multipliers, *)
(* and the optional conversion through a price feed.  The contract moves   *)
(* no tokens; what it promises is what its cost functions return.          *)
(***************************************************************************)
EXTENDS Integers, FiniteSets, FiniteSetsExt

CONSTANTS Providers,
          Requests,          \* ResourceRequests to quote
          PriceValues,       \* prices the owner or a provider may ask for
          MultiplierSets,    \* Multipliers the owner may set
          MultiplierCaps,    \* values for maxMultiplierBps
          PriceBounds,       \* pairs <<minBps, maxBps>> the owner may ask for
          Thresholds,        \* stale thresholds and their bounds
          MaxThreshold,      \* the 7 days no bound may exceed
          Oracles,           \* price feeds
          NoOracle,          \* the zero address
          BPS_DENOMINATOR, Milli, HoursPerMonth

Custom == {"cpu", "memory", "storage", "network"}
Gpu == {"gpuBasic", "gpuPremium"}
MultiplierNames == {"redundancy", "tor", "premiumSLA", "spot"}
Flags == {"tor", "premiumSLA", "spot"}

ResourceRequest ==
  [cpu : Nat, memory : Nat, storage : Nat, network : Nat, hours : Nat,
   gpu : Gpu \cup {"none"}, flags : SUBSET Flags]

VARIABLES prices, multipliers, maxMultiplierBps,
          providerPrices,    \* provider -> its prices; NotSet without isSet
          bounds,            \* minPriceMultiplierBps and maxPriceMultiplierBps
          stale,             \* stalePriceThreshold and its bounds
          priceOracle, useOracleForPricing

vars == <<prices, multipliers, maxMultiplierBps, providerPrices, bounds, stale,
          priceOracle, useOracleForPricing>>

Positive(f) == \A x \in DOMAIN f : f[x] > 0
Prices == {f \in [Custom \cup Gpu -> PriceValues] : Positive(f)}
NotSet == [c \in {} |-> 0]

(* The constructor's defaults, scaled down. *)
Init ==
  /\ prices = [x \in Custom \cup Gpu |-> Max(PriceValues)]
  /\ multipliers \in MultiplierSets
  /\ maxMultiplierBps \in MultiplierCaps
  /\ Positive(multipliers)
  /\ \A m \in MultiplierNames : multipliers[m] <= maxMultiplierBps
  /\ providerPrices = [p \in Providers |-> NotSet]
  /\ \E b \in PriceBounds : bounds = [min |-> b[1], max |-> b[2]] /\ 0 < b[1] /\ b[1] < b[2]
  /\ stale \in [threshold : Thresholds, min : Thresholds \ {0}, max : Thresholds]
  /\ stale.min < stale.max /\ stale.min <= stale.threshold /\ stale.threshold <= stale.max
  /\ priceOracle = NoOracle
  /\ useOracleForPricing = FALSE

----------------------------------------------------------------------------
(* Costs. *)

CeilDiv(a, b) == IF a = 0 THEN 0 ELSE (a - 1) \div b + 1

Scaled(cost, r, m) == IF m \in r.flags THEN CeilDiv(cost * multipliers[m], BPS_DENOMINATOR)
                      ELSE cost

CalculateBaseCost(r, p) ==
  LET resources == CeilDiv(r.cpu * p["cpu"] * r.hours, Milli)
                     + CeilDiv(r.memory * p["memory"] * r.hours, Milli)
                     + CeilDiv(r.storage * p["storage"] * r.hours, HoursPerMonth)
                     + r.network * p["network"]
                     + (IF r.gpu = "none" THEN 0 ELSE p[r.gpu] * r.hours)
      redundant == CeilDiv(resources * multipliers["redundancy"], BPS_DENOMINATOR)
  IN  Scaled(Scaled(Scaled(redundant, r, "tor"), r, "premiumSLA"), r, "spot")

MinAllowed(default) == (default * bounds.min) \div BPS_DENOMINATOR
MaxAllowed(default) == (default * bounds.max) \div BPS_DENOMINATOR

(* Mutant: the price the provider set is quoted whatever the bounds now are. *)
ClampNot(price, default) == price

ClampToProviderBounds(price, default) ==
  IF price < MinAllowed(default) THEN MinAllowed(default)
  ELSE IF price > MaxAllowed(default) THEN MaxAllowed(default)
  ELSE price

ProviderPriceList(p) ==
  [x \in Custom \cup Gpu |->
     IF x \in DOMAIN providerPrices[p] THEN ClampToProviderBounds(providerPrices[p][x], prices[x])
     ELSE prices[x]]

(* calculateProviderCost before the conversion through the feed. *)
CalculateProviderCost(p, r) == CalculateBaseCost(r, ProviderPriceList(p))

----------------------------------------------------------------------------
(* The provider's calls. *)

ValidProviderPrice(price, default) ==
  price > 0 /\ MinAllowed(default) <= price /\ price <= MaxAllowed(default)

SetProviderPrices(p, pp) ==
  /\ \A c \in Custom : ValidProviderPrice(pp[c], prices[c])
  /\ providerPrices' = [providerPrices EXCEPT ![p] = pp]
  /\ UNCHANGED <<prices, multipliers, maxMultiplierBps, bounds, stale, priceOracle,
                 useOracleForPricing>>

ClearProviderPrices(p) ==
  /\ providerPrices' = [providerPrices EXCEPT ![p] = NotSet]
  /\ UNCHANGED <<prices, multipliers, maxMultiplierBps, bounds, stale, priceOracle,
                 useOracleForPricing>>

----------------------------------------------------------------------------
(* The owner's calls. *)

SetPrices(new) ==
  /\ Positive(new)
  /\ prices' = new
  /\ UNCHANGED <<multipliers, maxMultiplierBps, providerPrices, bounds, stale, priceOracle,
                 useOracleForPricing>>

(* setCPUPrice, setMemoryPrice, setStoragePrice and setNetworkPrice. *)
SetPrice(c, price) == SetPrices([prices EXCEPT ![c] = price])

SetGPUPrices(basic, premium) ==
  SetPrices([prices EXCEPT !["gpuBasic"] = basic, !["gpuPremium"] = premium])

SetMultipliers(new) ==
  /\ Positive(new) /\ \A m \in MultiplierNames : new[m] <= maxMultiplierBps
  /\ multipliers' = new
  /\ UNCHANGED <<prices, maxMultiplierBps, providerPrices, bounds, stale, priceOracle,
                 useOracleForPricing>>

OracleMode(oracle) == useOracleForPricing /\ oracle # NoOracle

SetPriceOracle(oracle) ==
  /\ priceOracle' = oracle
  /\ useOracleForPricing' = OracleMode(oracle)
  /\ UNCHANGED <<prices, multipliers, maxMultiplierBps, providerPrices, bounds, stale>>

EnableOraclePricing(enabled) ==
  /\ enabled => priceOracle # NoOracle
  /\ useOracleForPricing' = enabled
  /\ UNCHANGED <<prices, multipliers, maxMultiplierBps, providerPrices, bounds, stale,
                 priceOracle>>

SetStalePriceThreshold(t) ==
  /\ stale.min <= t /\ t <= stale.max
  /\ stale' = [stale EXCEPT !.threshold = t]
  /\ UNCHANGED <<prices, multipliers, maxMultiplierBps, providerPrices, bounds, priceOracle,
                 useOracleForPricing>>

ProperBounds(lo, hi) == 0 < lo /\ lo < hi

SetProviderPriceBounds(minBps, maxBps) ==
  /\ ProperBounds(minBps, maxBps)
  /\ bounds' = [min |-> minBps, max |-> maxBps]
  /\ UNCHANGED <<prices, multipliers, maxMultiplierBps, providerPrices, stale, priceOracle,
                 useOracleForPricing>>

SetMaxMultiplierBps(cap) ==
  /\ BPS_DENOMINATOR <= cap
  /\ maxMultiplierBps' = cap
  /\ UNCHANGED <<prices, multipliers, providerPrices, bounds, stale, priceOracle,
                 useOracleForPricing>>

Reclamped(lo, hi) == Min({Max({stale.threshold, lo}), hi})

SetStaleThresholdBounds(lo, hi) ==
  /\ ProperBounds(lo, hi) /\ hi <= MaxThreshold
  /\ stale' = [threshold |-> Reclamped(lo, hi), min |-> lo, max |-> hi]
  /\ UNCHANGED <<prices, multipliers, maxMultiplierBps, providerPrices, bounds, priceOracle,
                 useOracleForPricing>>

Next ==
  \/ \E p \in Providers :
       \/ \E pp \in [Custom -> PriceValues] : SetProviderPrices(p, pp)
       \/ ClearProviderPrices(p)
  \/ \E new \in [Custom \cup Gpu -> PriceValues] : SetPrices(new)
  \/ \E c \in Custom, price \in PriceValues : SetPrice(c, price)
  \/ \E basic, premium \in PriceValues : SetGPUPrices(basic, premium)
  \/ \E new \in MultiplierSets : SetMultipliers(new)
  \/ \E oracle \in Oracles \cup {NoOracle} : SetPriceOracle(oracle)
  \/ \E enabled \in BOOLEAN : EnableOraclePricing(enabled)
  \/ \E t \in Thresholds : SetStalePriceThreshold(t)
  \/ \E b \in PriceBounds : SetProviderPriceBounds(b[1], b[2])
  \/ \E cap \in MultiplierCaps : SetMaxMultiplierBps(cap)
  \/ \E lo, hi \in Thresholds : SetStaleThresholdBounds(lo, hi)

Spec == Init /\ [][Next]_vars

----------------------------------------------------------------------------

TypeOK ==
  /\ prices \in Prices
  /\ multipliers \in MultiplierSets /\ maxMultiplierBps \in MultiplierCaps
  /\ \A p \in Providers : providerPrices[p] \in [Custom -> PriceValues] \cup {NotSet}
  /\ bounds \in [min : Nat, max : Nat] /\ bounds.min < bounds.max
  /\ stale \in [threshold : Thresholds, min : Thresholds, max : Thresholds]
  /\ priceOracle \in Oracles \cup {NoOracle} /\ useOracleForPricing \in BOOLEAN

(* setStalePriceThreshold and setStaleThresholdBounds, in any order, leave *)
(* the age at which a feed's answer is refused between the bounds.         *)
ThresholdWithinBounds == stale.min <= stale.threshold /\ stale.threshold <= stale.max

(* Oracle pricing is on only while a feed is set, so that the cost         *)
(* functions do not revert for want of one.                                *)
OraclePricingHasFeed == useOracleForPricing => priceOracle # NoOracle

(* What the cost would be without any rounding, as a fraction of           *)
(* Milli * HoursPerMonth * BPS_DENOMINATOR ^ 4.                            *)
ExactCost(r, p) ==
  LET resources == (r.cpu * p["cpu"] + r.memory * p["memory"]) * r.hours * HoursPerMonth
                     + r.storage * p["storage"] * r.hours * Milli
                     + (r.network * p["network"]
                          + (IF r.gpu = "none" THEN 0 ELSE p[r.gpu] * r.hours))
                       * Milli * HoursPerMonth
  IN  FoldSet(LAMBDA m, cost : cost * (IF m \in r.flags THEN multipliers[m]
                                       ELSE BPS_DENOMINATOR),
              resources * multipliers["redundancy"], Flags)

(* The quote is never below the exact cost, however many roundings a       *)
(* request goes through, at the owner's prices and at any provider's.      *)
NeverUndercharges ==
  \A r \in Requests : \A list \in {prices} \cup {ProviderPriceList(p) : p \in Providers} :
    CalculateBaseCost(r, list) * Milli * HoursPerMonth * BPS_DENOMINATOR ^ 4
      >= ExactCost(r, list)

(* Whatever the owner changed since the provider set its prices, its quote *)
(* lies between those of the cheapest and the dearest list now allowed.    *)
ProviderQuoteBounded ==
  \A p \in Providers, r \in Requests :
    LET listAt(Bound(_)) == [x \in Custom \cup Gpu |-> IF x \in Custom THEN Bound(prices[x])
                                                       ELSE prices[x]]
    IN  providerPrices[p] # NotSet =>
          /\ CalculateBaseCost(r, listAt(MinAllowed)) <= CalculateProviderCost(p, r)
          /\ CalculateProviderCost(p, r) <= CalculateBaseCost(r, listAt(MaxAllowed))
=============================================================================
