---------------------------- MODULE MCDecisions ----------------------------
(* Small instances of the decisions the agent takes on what it is handed: the *)
(* inspection of a prepared transaction, its hash, the choice of inputs, the  *)
(* price of an RFQ and the net position behind it; of the onboarding that     *)
(* comes before all of it; and of the registry of the desk's venues.  Each    *)
(* initial state holds one input of one of them, or starts one of them, and   *)
(* the rest stand still.                                                      *)
EXTENDS Verifier, Hasher, InputChoice, Pricing, NetPosition, Onboarding, Venues, FillLoop

VARIABLES part, input

\* The prepared transactions the hash is computed of.
Text(s) == [sum |-> "text", str |-> s]
Int64(i) == [sum |-> "int64", int |-> i]
Unit == [sum |-> "unit"]
Atoms == {Unit, Int64(1), Text(<< >>), Text(<<1>>), Text(<<1, 1>>), [sum |-> "party", str |-> <<1>>],
          [sum |-> "contractId", str |-> <<1>>], [sum |-> "contractId", str |-> <<NotHex>>],
          [sum |-> "unset"]}
Some(S) == {<< >>} \cup {<<x>> : x \in S}
UpToTwo(S) == Some(S) \cup {<<x, y>> : x, y \in S}
Id(mod, ent) == [pkg |-> <<1>>, module |-> mod, entity |-> ent]
Ids == {Id(<<<<1>>>>, <<<<1>>, <<1>>>>), Id(<<<<1>>, <<1>>>>, <<<<1>>>>), Id(<<<<1, 1>>>>, <<<<1>>>>)}
Few == {Unit, Text(<< >>), Text(<<1>>)}
Wide ==
    Atoms
    \cup {[sum |-> "optional", part |-> p] : p \in Some(Few)}
    \cup {[sum |-> "list", elements |-> e] : e \in UpToTwo(Few)}
    \cup {[sum |-> "textMap", entries |-> e] :
            e \in UpToTwo({[key |-> k, value |-> v] : k \in {<< >>, <<1>>}, v \in {Unit, Text(<< >>)}})}
    \cup {[sum |-> "genMap", entries |-> e] : e \in UpToTwo({[key |-> k, value |-> v] : k, v \in {Unit, Text(<<1>>)}})}
    \cup {[sum |-> "record", id |-> i, fields |-> f] :
            i \in Some(Ids), f \in UpToTwo({[label |-> l, value |-> v] : l \in {<< >>, <<1>>}, v \in {Unit, Text(<< >>)}})}
    \cup {[sum |-> "variant", id |-> i, str |-> s, value |-> v] : i \in Some(Ids), s \in {<< >>, <<1>>}, v \in Few}
    \cup {[sum |-> "enum", id |-> i, str |-> s] : i \in Some(Ids), s \in {<< >>, <<1>>}}
Deep == {[sum |-> "list", elements |-> <<[sum |-> "list", elements |-> <<v>>]>>] : v \in {Unit, [sum |-> "list", elements |-> << >>]}}

Node(i, k, arg, kids) ==
    [id |-> i, kind |-> k, lfVersion |-> <<1>>, contractId |-> <<1>>, template |-> <<Id(<<<<1>>>>, <<<<1>>>>)>>,
     argument |-> <<arg>>, result |-> << >>, signatories |-> <<1, 2>>, children |-> kids]
Seeds(S) == SetToSeq({[id |-> i, seed |-> 1] : i \in S})
Tx(r, n, s) == [version |-> <<1>>, roots |-> r, nodes |-> n, seeds |-> s]
Meta == [actAs |-> <<1>>, commandId |-> <<1>>, minTime |-> << >>, maxTime |-> << >>, inputs |-> << >>, maxRecord |-> << >>]
P(t, mt, three) == [tx |-> t, meta |-> mt, v3 |-> three]

\* One create of every value; trees of up to four nodes, cycles, repeated and
\* missing nodes among them; and every metadata.
ByValue == {P(Tx(<<1>>, <<Node(1, "create", v, << >>)>>, << >>), Meta, FALSE) : v \in Wide \cup Deep}
Kids == {<< >>, <<2>>, <<3>>, <<2, 3>>, <<3, 2>>, <<2, 2>>, <<1>>, <<5>>}
ByTree ==
    {P(Tx(r, <<[Node(1, k, Unit, c) EXCEPT !.result = res], Node(2, "exercise", Unit, d),
               Node(3, "create", Int64(1), << >>), Node(4, "fetch", Unit, << >>)>>, Seeds({1, 2})), Meta, FALSE) :
        r \in {<<1>>, <<1, 4>>, <<1, 3>>, << >>}, k \in {"exercise", "rollback"}, c \in Kids,
        d \in {<< >>, <<3>>, <<4>>, <<3, 4>>}, res \in Some({Unit})}
ByParts ==
    {P(Tx(<<1>>, <<[Node(1, "exercise", Unit, << >>) EXCEPT !.signatories = sg, !.template = tp, !.lfVersion = lf]>>, s), Meta, FALSE) :
        sg \in {<< >>, <<1>>, <<1, 2>>, <<2, 1>>}, tp \in Some(Ids), lf \in {<< >>, <<1>>}, s \in {<< >>, Seeds({1}), Seeds({2})}}
ByMeta ==
    {P(Tx(<< >>, << >>, << >>),
       [actAs |-> a, commandId |-> c, minTime |-> mn, maxTime |-> mx, inputs |-> i, maxRecord |-> rt], three) :
        a \in UpToTwo({1, 2}), c \in {<< >>, <<1>>}, mn, mx, rt \in Some({1}),
        i \in UpToTwo({Node(1, "create", Unit, << >>)}), three \in BOOLEAN}
Transactions == ByValue \cup ByTree \cup ByParts \cup ByMeta

\* Inputs of price_rfq: every condition that moves a price, and every size.
Envs == [market : {TRUE}, unhealthy : {FALSE}, coefficient : {0, 4}, low : BOOLEAN, hours : {0, 6, 12}, mid : {1},
         depth : BOOLEAN, usd : {TRUE}, ready : {TRUE}, stale : {FALSE}, cc : {12}, quoteToken : {12}, ccRate : {1}]
Cfgs == [enabled : {TRUE}, closed : {{}}, offer : {-1, 1}, bid : {-1, 1}, minQuantity : {1}, maxQuantity : {8},
         minNotional : {0}, noOverload : BOOLEAN, noDepletion : {FALSE}, impact : {"on", "shadow"}]
Rfqs == [market : {"m"}, venue : {<< >>}, branch : {<< >>}, side : Sides, inQuote : BOOLEAN, size : 1 .. 3,
         v1 : BOOLEAN, party : {"taker"}]
Priceable == [env : Envs, cfg : {c \in Cfgs : c.offer = c.bid}, req : Rfqs, net : {-1, 0, 2}]

\* A pair's configuration and up to three overlays, venue-wide or narrower.
Overlay(b, ms, fs) == [venue |-> "v", branch |-> b, markets |-> ms, rfq |-> fs]
Overlays == {Overlay(b, ms, fs) : b \in {<< >>, <<"b">>}, ms \in {<< >>, <<{"m"}>>, <<{"n"}>>},
                                  fs \in {[offer |-> 1], [offer |-> 2], [enabled |-> FALSE], [enabled |-> TRUE, offer |-> 3]}}
Resolvable == [overrides : UNION {[1 .. n -> Overlays] : n \in 0 .. 2}, branch : {<< >>, <<"b">>}, venue : {<< >>, <<"v">>, <<"w">>}]
PairConfig == [enabled |-> TRUE, offer |-> 0]

\* The least common multiple of the divisors of each side's impact curve.
Gcd(a, b) == LET d == {n \in 1 .. a : a % n = 0 /\ b % n = 0} IN CHOOSE n \in d : \A k \in d : k <= n
Lcm(S) == FoldSet(LAMBDA n, m : (n * m) \div Gcd(n, m), 1, S)
MCEven == [s \in Sides |-> Lcm(IF s = "buy" THEN Reserve - PoolCap .. Reserve ELSE Reserve .. Reserve + PoolCap)]
MCDeltas == {-1, 1}
MCSymmetry == Permutations(OwnKeys) \cup Permutations(VenueMarkets)

\* Two instruments of one registry with two operators, one registry without an operator.
Instrument(t, r, o) == [token |-> t, registry |-> r, operator |-> o]
MCAdvertised == <<Instrument("Amulet", "dso", "fa"), Instrument("USDC", "r1", "op1"), Instrument("EURC", "r1", "op2"),
                  Instrument("Y", "r2", "")>>
MCPriorGrants == {Grant("r1", "op1", TRUE)}

Inputs(p) ==
    CASE p = "hash" -> {Transactions}
      [] p = "quote" -> Priceable
      [] p = "overlay" -> Resolvable
      [] OTHER -> {<< >>}

mcVars == <<asked, part, input>>

AnyInit ==
    /\ part \in {"verify", "hash", "select", "price", "quote", "overlay", "net", "onboard", "venues", "fill"} /\ input \in Inputs(part)
    /\ IF part = "verify" THEN VerifyInit
       ELSE op = "Allocate" /\ tx = << >> /\ mode = "normal" /\ verdict = "none" /\ signed = "none"
    /\ IF part = "select" THEN ChoiceInit ELSE asked = [amount |-> [h \in Holdings |-> 1], from |-> {}, target |-> 0]
    /\ PriceInit /\ (part # "price" => side = "buy")
    /\ NetInit /\ (part # "net" => \A q \in NetQuotes : deltaOf[q] = 1)
    /\ OnboardInit /\ (part # "onboard" => grants = {})
    /\ VenuesInit
    /\ Init

AnyNext ==
    \/ part = "verify" /\ VerifyNext /\ UNCHANGED <<priceVars, netVars, onboardVars, venueVars, vars, mcVars>>
    \/ part = "price" /\ PriceNext /\ UNCHANGED <<verifyVars, netVars, onboardVars, venueVars, vars, mcVars>>
    \/ part = "net" /\ NetNext /\ UNCHANGED <<verifyVars, priceVars, onboardVars, venueVars, vars, mcVars>>
    \/ part = "onboard" /\ OnboardNext /\ UNCHANGED <<verifyVars, priceVars, netVars, venueVars, vars, mcVars>>
    \/ part = "venues" /\ VenuesNext /\ UNCHANGED <<verifyVars, priceVars, netVars, onboardVars, vars, mcVars>>
    \/ part = "fill" /\ Next /\ UNCHANGED <<verifyVars, priceVars, netVars, onboardVars, venueVars, mcVars>>

AnySpec == AnyInit /\ [][AnyNext]_<<verifyVars, priceVars, netVars, onboardVars, venueVars, vars, mcVars>>

Names(hash) ==
    LET named == {p \in DOMAIN hash : hash[p] # Fault}
    IN  Cardinality({hash[p] : p \in named}) = Cardinality({<<hash[p], Meaning(p)>> : p \in named})

\* compute_hash names one transaction: two prepared transactions of one hash are the
\* same but for how nodes are numbered and parties listed.  A count, a tag or a
\* length left out of the encoding would break it only between two inputs nobody
\* would think to compare.
HashNamesTransaction == part = "hash" => Names([p \in input |-> ComputeHash(p)])

NotBetter(p, calm) ==
    LET better == IF input.req.side = "buy" THEN 1 ELSE -1
    IN  p.quoted /\ calm.quoted => better * p.quote >= better * calm.quote
LargestFor(p) ==
    LET QuoteOf(b) == Price(input.env, input.cfg, [input.req EXCEPT !.inQuote = FALSE, !.size = b], input.net).quote
    IN  p.quoted => /\ p.quote = QuoteOf(p.base) /\ p.quote <= Scale(input.req.side) * input.req.size
                    /\ QuoteOf(p.base + 1) > Scale(input.req.side) * input.req.size

\* price_rfq: load and depletion never improve a price for the taker, whatever the
\* sign of the configured spread; and a size given in quote is quoted the largest base
\* that it pays for at the price of that base, as if it had been asked for in base.
StressNeverFavours ==
    part = "quote" =>
        LET calm == [input.env EXCEPT !.coefficient = 0, !.low = FALSE, !.hours = 12]
            PriceIn(env) == PriceRfq(env, input.cfg, << >>, input.req, input.net)
        IN  IF input.req.inQuote THEN LargestFor(PriceIn(input.env))
            ELSE NotBetter(PriceIn(input.env), PriceIn(calm))

\* resolve_rfq_config: of the overlays that match the request, each field is taken from
\* the most specific one that sets it, the later in the file of two as specific, and
\* from the pair where none does.
MostSpecificWins ==
    part = "overlay" =>
        LET got == ResolveRfqConfig(PairConfig, input.overrides, "m", input.venue, input.branch)
            applies(f) == {i \in DOMAIN input.overrides :
                             /\ input.venue # << >> /\ Matches(input.overrides[i], "m", input.venue[1], input.branch)
                             /\ f \in DOMAIN input.overrides[i].rfq}
            wins(i, j) == LET a == Specificity(input.overrides[i]) b == Specificity(input.overrides[j])
                          IN  a > b \/ (a = b /\ i >= j)
        IN  \A f \in DOMAIN PairConfig :
                IF applies(f) = {} THEN got[f] = PairConfig[f]
                ELSE \E i \in applies(f) : (\A j \in applies(f) : wins(i, j)) /\ got[f] = input.overrides[i].rfq[f]

\* A request is priced by the configuration meant for it, and never better for the taker
\* because the desk is loaded, or because its size was given in the quote currency.
PricedFairly == MostSpecificWins /\ StressNeverFavours

=============================================================================
