----------------------------- MODULE SplitPlans -----------------------------
(* The planners of the denomination ladder (cloud-agent/src/split_worker.rs): *)
(* pure functions on plans, which are sequences of <<denomination, count>>.   *)
EXTENDS Integers, Sequences, SequencesExt, FiniteSets, FiniteSetsExt

CONSTANTS
    Divisor,          \* split_low_water_divisor
    MaxSplitOutputs,     \* MAX_SPLIT_OUTPUTS_PER_TX
    MaxSplitCount     \* MAX_SPLIT_COUNT

ASSUME SplitPlansAssumption == {Divisor, MaxSplitOutputs, MaxSplitCount} \subseteq Nat

\* One specification that is no positive amount and count within the limits fails them
\* all, and an instrument without rungs is passed over.
ParseSplits(specs) ==
    IF \A i \in DOMAIN specs : specs[i][1] > 0 /\ specs[i][2] \in 1 .. MaxSplitCount THEN specs ELSE << >>

CountSum(plan) == SumFunctionOnSet([i \in DOMAIN plan |-> plan[i][2]], DOMAIN plan)
Cost(plan) == SumFunctionOnSet([i \in DOMAIN plan |-> plan[i][1] * plan[i][2]], DOMAIN plan)

\* How many of one denomination a plan asks for: it may be named more than once.
CountOf(plan, d) == SumFunctionOnSet([i \in DOMAIN plan |-> IF plan[i][1] = d THEN plan[i][2] ELSE 0], DOMAIN plan)

\* The amounts of a plan's outputs, one by one.
Outputs(plan) == FoldLeft(LAMBDA s, x : s \o [i \in 1 .. x[2] |-> x[1]], << >>, plan)
InBand(a, d) == a >= d /\ a < 2 * d

\* As many outputs as a transaction takes, earlier rungs first.
CapSplitOutputs(plan, max) ==
    FoldLeft(LAMBDA out, x : LET take == Min({x[2], max - CountSum(out)})
                             IN  IF take > 0 THEN Append(out, <<x[1], take>>) ELSE out,
             << >>, plan)

\* What is missing of each rung.
Missing(rungs, haves) ==
    FoldLeftDomain(LAMBDA plan, i : IF rungs[i][2] > haves[i] THEN Append(plan, <<rungs[i][1], rungs[i][2] - haves[i]>>) ELSE plan,
                   << >>, rungs)

\* What is left of a request once a chunk of it was submitted: a rung misses what the
\* chunk does not cover once the rungs before it had their part.
SubtractSplitChunk(request, chunk) ==
    Missing(request, [i \in DOMAIN request |->
                          LET d == request[i][1] IN Max({0, CountOf(chunk, d) - CountOf(SubSeq(request, 1, i - 1), d)})])

\* amounts is a function from holdings to amounts.
RungDeficits(rungs, amounts) ==
    Missing(rungs, [i \in DOMAIN rungs |-> Cardinality({c \in DOMAIN amounts : InBand(amounts[c], rungs[i][1])})])

\* Nothing, until some rung falls below its low-water mark; then all that is missing.
PlanLadderRefill(rungs, haves) ==
    IF \E i \in DOMAIN rungs : haves[i] < Max({1, rungs[i][2] \div Max({1, Divisor})}) THEN Missing(rungs, haves) ELSE << >>

LadderOverfull(rungs, haves) ==
    CountSum(rungs) > 0 /\ FoldLeft(LAMBDA n, h : n + h, 0, haves) >= 2 * CountSum(rungs)

\* What a budget covers, rung by rung; in hundredths.
FundRungs(budget, rungs) ==
    FoldLeft(LAMBDA f, x : LET n == Min({x[2], f.budget \div (100 * x[1])})
                           IN  IF n > 0 THEN [budget |-> f.budget - 100 * x[1] * n, plan |-> Append(f.plan, <<x[1], n>>)] ELSE f,
             [budget |-> budget, plan |-> << >>], rungs).plan

\* What the reserve can fund, 5% of it kept back.
FundSplits(amount, deficits) == FundRungs(95 * amount, deficits)

=============================================================================
