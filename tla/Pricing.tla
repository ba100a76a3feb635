------------------------------ MODULE Pricing ------------------------------
(* How an RFQ is priced (cloud-agent/src/rfq_handler.rs, with                 *)
(* agent-logic/src/pool_impact.rs, forecast.rs, liquidity.rs and the venue    *)
(* overlays of config.rs) and what a confirm makes of a price that was held.  *)
(* Base quantities are whole units, spreads and impacts are tenths of the     *)
(* price.  Quote amounts are exact: they are multiplied by Scale, in which    *)
(* the divisions of the impact curve come out even.                           *)
EXTENDS Integers, FiniteSets, FiniteSetsExt, Sequences, SequencesExt

CONSTANTS
    Reserve,          \* base_reserve of the pool
    PoolCap,          \* max_pool_fraction of it, in base units
    FreeZone,         \* free_zone_base
    Multiplier,       \* impact_multiplier
    MaxImpact,        \* max_impact_percent, in tenths of the price
    Tolerance,        \* confirm_tolerance_percent, in tenths of the price
    Threshold,        \* SEQUENCER_OVERLOAD_THRESHOLD, in tenths
    MaxSize,          \* the largest size asked for
    HeldQuotes,       \* the quotes a taker may hold
    Even              \* for each side a number that the divisors of its impact curve divide

Sides == {"buy", "sell"}

ASSUME PricingAssumption ==
    /\ {Reserve, PoolCap} \subseteq Nat \ {0} /\ PoolCap < Reserve
    /\ {FreeZone, Multiplier, MaxImpact, Tolerance, Threshold, MaxSize} \subseteq Nat
    /\ IsFiniteSet(HeldQuotes)
    /\ Even \in [Sides -> Nat \ {0}]
    /\ \A u \in 0 .. PoolCap : Even["buy"] % (Reserve - u) = 0 /\ Even["sell"] % (Reserve + u) = 0

NoParty == "none"
Rejected(why) == [quoted |-> FALSE, why |-> why, base |-> 0, quote |-> 0, impact |-> 0, spread |-> 0]

AtLeast0(x) == IF x > 0 THEN x ELSE 0
Least(x, y) == IF x < y THEN x ELSE y

----------------------------------------------------------------------------
(* Which configuration applies                                               *)

\* VenueOverride::matches and specificity; absent is << >>, present is <<value>>.
Matches(o, market, venue, branch) ==
    o.venue = venue /\ o.branch \in {<< >>, branch} /\ (o.markets = << >> \/ market \in o.markets[1])
Specificity(o) == Len(o.branch) + Len(o.markets)

\* RfqOverlayConfig::apply: a set field replaces, an unset one inherits.
Apply(cfg, o) == [f \in DOMAIN cfg |-> IF f \in DOMAIN o.rfq THEN o.rfq[f] ELSE cfg[f]]

\* resolve_rfq_config: the matching overlays in ascending specificity, equal ones in
\* file order.
ResolveRfqConfig(pair, overrides, market, venue, branch) ==
    IF venue = << >> THEN pair
    ELSE LET Level(n) == SelectSeq(overrides, LAMBDA o : Matches(o, market, venue[1], branch) /\ Specificity(o) = n)
         IN  FoldLeft(Apply, pair, Level(0) \o Level(1) \o Level(2))

----------------------------------------------------------------------------
(* The impact of a size on the price                                         *)

\* The unit of amounts: a tenth of the price is a tenth of it, and so is an impact.
Scale(s) == 10 * Even[s]

\* g of marginal_impact_percent: the cost of moving x through the pool, whose
\* fraction is capped.
G(s, x) ==
    LET u == Least(x, PoolCap)
    IN  x * u * (Even[s] \div (IF s = "buy" THEN Reserve - u ELSE Reserve + u))

\* The charged position before and after the trade, past the free zone.
Before(s, net) == AtLeast0((IF s = "buy" THEN net ELSE -net) - FreeZone)
After(s, net, q) == AtLeast0(q + (IF s = "buy" THEN net ELSE -net) - FreeZone)

\* marginal_impact_percent, times the size: the increment in total cost, clamped.
Impact(s, q, net) ==
    IF q <= 0 THEN 0
    ELSE Least(AtLeast0(10 * Multiplier * (G(s, After(s, net, q)) - G(s, Before(s, net)))), MaxImpact * Even[s] * q)

\* The quote amount of a size: size * mid * (1 +- (spread + impact)).
QuoteFor(s, m, b, spread, impact) ==
    m * (Scale(s) * b + (IF s = "buy" THEN 1 ELSE -1) * (Even[s] * b * spread + impact))

\* solve_base_for_quote: bisection on what the bounds bracket, on whole base units.
\* It ends when the bracket is one unit wide.
SolveBaseForQuote(budget, lo, hi, costOf) ==
    LET bisect[n \in Nat, l \in Nat, h \in Nat] ==
            IF n = 0 \/ h - l <= 1 THEN l
            ELSE LET m == (l + h) \div 2
                 IN  IF costOf[m] > budget THEN bisect[n - 1, l, m] ELSE bisect[n - 1, m, h]
    IN  bisect[64, lo, hi]

----------------------------------------------------------------------------
(* price_rfq                                                                 *)

\* forecast.rs: the predicted coefficient, in tenths, 0 before the first one.
Overloaded(env) == env.coefficient > 0 /\ env.coefficient < Threshold
RejectedByOverload(env) == env.coefficient > 0 /\ env.coefficient < Threshold - 1
SpreadMultiplier(env, cfg) ==
    IF cfg.noOverload THEN 1 ELSE IF Overloaded(env) THEN 3 ELSE IF env.low THEN 2 ELSE 1

\* depletion_coefficient: from the hours the paying token would last, 0 to 10.
DepletionCoefficient(env, cfg) ==
    IF cfg.noDepletion \/ env.hours >= 12 THEN 0
    ELSE IF env.hours <= 1 THEN 10 ELSE (10 * (12 - env.hours)) \div 11

\* Mutant: stress multiplies an aggressive spread too.
StressAlways(spread, m) == m

\* stress_coefficient: stress widens a protective spread and leaves an aggressive
\* one alone.
Stress(spread, m) == IF spread >= 0 THEN m ELSE 1

\* v1_fee_headroom_usd and estimate_fee_cc; a V2 quote needs no fees of the maker.
FeeCc(env, v1, quote, unit) ==
    IF v1 /\ env.ccRate > 0 THEN (4 * (3 + (IF env.usd THEN (IF quote > 7 * unit THEN quote \div unit ELSE 7) ELSE 7))) \div (10 * env.ccRate)
    ELSE 0

\* The checks on a priced size, in the order the code makes them; base is CC.
Gate(env, cfg, req, priced) ==
    LET unit == Scale(req.side)
        pays == IF req.side = "buy" THEN unit * priced.base ELSE priced.quote
        fee == unit * FeeCc(env, req.v1, priced.quote, unit)
    IN  IF priced.quote <= 0 /\ priced.base > 0 THEN Rejected("price")
        ELSE IF cfg.maxQuantity <= 0 THEN Rejected("market")
        ELSE IF priced.base < cfg.minQuantity THEN Rejected("too small")
        ELSE IF priced.base > cfg.maxQuantity THEN Rejected("too large")
        ELSE IF req.v1 /\ env.usd /\ priced.quote < unit * cfg.minNotional THEN Rejected("too small")
        ELSE IF ~env.ready \/ env.stale THEN Rejected("balances")
        ELSE IF req.side = "buy" /\ unit * env.cc < pays + fee THEN Rejected("liquidity")
        ELSE IF req.side = "sell" /\ (unit * env.quoteToken < pays \/ unit * env.cc < fee) THEN Rejected("liquidity")
        ELSE priced

\* The price of a size, given in base or in quote, with the taker's net.
Price(env, cfg, req, net) ==
    LET unit == Scale(req.side)
        spread == (IF req.side = "buy" THEN cfg.offer ELSE cfg.bid)
        eff == spread * Stress(spread, SpreadMultiplier(env, cfg) + DepletionCoefficient(env, cfg))
        charged == cfg.impact = "on" /\ env.depth
        ImpactOf(b) == IF charged THEN Impact(req.side, b, net) ELSE 0
        costOf == [b \in Nat |-> QuoteFor(req.side, env.mid, b, eff, ImpactOf(b))]
        cheapest == QuoteFor(req.side, env.mid, 1, eff, IF charged /\ req.side = "sell" THEN MaxImpact * Even[req.side] ELSE 0)
        dearest == QuoteFor(req.side, env.mid, 1, eff, IF charged /\ req.side = "buy" THEN MaxImpact * Even[req.side] ELSE 0)
        base == IF req.inQuote THEN (IF cheapest <= 0 THEN 0
                                     ELSE SolveBaseForQuote(unit * req.size, (unit * req.size) \div dearest,
                                                            (unit * req.size) \div cheapest + 1, costOf))
                ELSE req.size
    IN  [quoted |-> TRUE, why |-> "", base |-> base, quote |-> costOf[base], impact |-> ImpactOf(base), spread |-> eff]

PriceRfq(env, pair, overrides, req, net) ==
    LET cfg == ResolveRfqConfig(pair, overrides, req.market, req.venue, req.branch)
    IN  IF ~env.market \/ ~cfg.enabled \/ req.side \in cfg.closed THEN Rejected("market")
        ELSE IF req.inQuote /\ req.size <= 0 THEN Rejected("size")
        ELSE IF env.unhealthy \/ RejectedByOverload(env) THEN Rejected("ledger")
        ELSE IF env.mid <= 0 THEN Rejected("no mid")
        ELSE LET priced == Price(env, cfg, req, IF req.party = NoParty THEN 0 ELSE net)
             IN  IF req.inQuote /\ priced.base <= 0 THEN Rejected("price") ELSE Gate(env, cfg, req, priced)

----------------------------------------------------------------------------
(* A taker's quotes, held and confirmed                                      *)

VARIABLES
    side,         \* the side this taker trades
    mid, depth,   \* the market's mid, 0 when withdrawn, and whether it came with a depth
    held,         \* quote -> what was quoted, or NotHeld
    taken,        \* the quotes that were confirmed and count in the net
    unchecked     \* those that were counted without the check against the net

priceVars == <<side, mid, depth, held, taken, unchecked>>

NotHeld == Rejected("none")
Bases == [q \in HeldQuotes |-> held[q].base]
\* The tracker's net of the taker: what it buys counts up, what it sells down.
NetNow == LET total == SumFunctionOnSet(Bases, taken) IN IF side = "buy" THEN total ELSE -total

DeskEnv == [market |-> TRUE, unhealthy |-> FALSE, coefficient |-> 0, low |-> FALSE, hours |-> 12, mid |-> mid,
            depth |-> depth, usd |-> FALSE, ready |-> TRUE, stale |-> FALSE, cc |-> 12, quoteToken |-> 12, ccRate |-> 0]
DeskPair == [enabled |-> TRUE, closed |-> {}, offer |-> 1, bid |-> 1, minQuantity |-> 1, maxQuantity |-> 100,
             minNotional |-> 0, noOverload |-> FALSE, noDepletion |-> FALSE, impact |-> "on"]
DeskRfq(size) == [market |-> "m", venue |-> << >>, branch |-> << >>, side |-> side, inQuote |-> FALSE, size |-> size,
                  v1 |-> FALSE, party |-> "taker"]

PriceInit == /\ side \in Sides /\ mid = 1 /\ depth = TRUE
             /\ held = [q \in HeldQuotes |-> NotHeld] /\ taken = {} /\ unchecked = {}

\* The price poller replaces mid and depth together.
MarketMoves == /\ mid' \in {0, 1} /\ depth' \in BOOLEAN /\ <<mid', depth'>> # <<mid, depth>>
               /\ UNCHANGED <<side, held, taken, unchecked>>

\* An indicative quote: priced from the net of what has been confirmed so far.
Ask(q, size) ==
    LET priced == PriceRfq(DeskEnv, DeskPair, << >>, DeskRfq(size), NetNow)
    IN  /\ held[q] = NotHeld /\ priced.quoted /\ held' = [held EXCEPT ![q] = priced]
        /\ UNCHANGED <<side, mid, depth, taken, unchecked>>

\* Mutant: the held price is checked against the net it was quoted with.
FairAsQuoted(q) == held[q].quote

\* The fair amount of a held quote now, with every other confirm counted.
FairNow(q) == QuoteFor(side, mid, held[q].base, held[q].spread, Impact(side, held[q].base, NetNow))

TakerFavourable(q) ==
    \/ FairNow(q) <= 0
    \/ side = "buy" /\ held[q].quote < FairNow(q) - (FairNow(q) * Tolerance) \div 10
    \/ side = "sell" /\ held[q].quote > FairNow(q) + (FairNow(q) * Tolerance) \div 10

\* handle_confirm: a withdrawn mid or a price that has become too good rejects; one
\* that was quoted without impact, or without a depth to check against, is counted
\* as it is.  Check and count are one step under the tracker's lock.
Confirm(q) ==
    /\ held[q].quoted /\ q \notin taken
    /\ LET checked == held[q].impact > 0 /\ depth
       IN  IF mid = 0 \/ (checked /\ TakerFavourable(q))
           THEN held' = [held EXCEPT ![q] = NotHeld] /\ UNCHANGED <<taken, unchecked>>
           ELSE /\ taken' = taken \cup {q} /\ UNCHANGED held
                /\ unchecked' = IF checked THEN unchecked ELSE unchecked \cup {q}
    /\ UNCHANGED <<side, mid, depth>>

\* A confirmed quote that fails later or lapses is reversed.
Lapse(q) ==
    /\ q \in taken /\ taken' = taken \ {q} /\ unchecked' = unchecked \ {q}
    /\ held' = [held EXCEPT ![q] = NotHeld] /\ UNCHANGED <<side, mid, depth>>

PriceNext ==
    \/ MarketMoves
    \/ \E q \in HeldQuotes : Confirm(q) \/ Lapse(q) \/ (\E size \in 1 .. MaxSize : Ask(q, size))

PriceSpec == PriceInit /\ [][PriceNext]_priceVars

----------------------------------------------------------------------------

\* What the tolerance lets a held price stay below the fair one, or above it.
Leeway(q) ==
    (QuoteFor(side, 1, held[q].base, held[q].spread, IF side = "buy" THEN MaxImpact * Even[side] * held[q].base ELSE 0) * Tolerance) \div 10
Paid == [q \in HeldQuotes |-> held[q].impact + Leeway(q)]

\* The confirmed quotes that were checked and are not charged the most there is.
Charged == {q \in taken \ unchecked : Paid[q] < MaxImpact * Even[side] * held[q].base}

\* A size costs its impact however it is cut: the quotes a taker asked for in any
\* order, held while others were confirmed or lapsed, and confirmed one by one cost
\* at least what their sum would have cost at once, but for the tolerance on each.
SplitPaysImpact ==
    SumFunctionOnSet(Paid, Charged) >= Impact(side, SumFunctionOnSet(Bases, Charged), 0)

=============================================================================
