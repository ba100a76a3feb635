----------------------------- MODULE Selection -----------------------------
(* How the agent picks the Amulet holdings a payment spends                 *)
(* (cloud-agent/src/payment_queue.rs).  Amounts are whole numbers of some    *)
(* small unit; rust_decimal's checked operations fail above MaxDecimal.      *)
EXTENDS Integers, FiniteSets, FiniteSetsExt, Functions

CONSTANTS
    MaxPicks,        \* MAX_AMULET_INPUTS: what Splice accepts in one transfer
    MaxDecimal        \* the largest Decimal

ASSUME SelectionAssumption == {MaxPicks, MaxDecimal} \subseteq Nat \ {0}

None == -1
Total(S, amount) == SumFunctionOnSet(amount, S)

\* with_fee_margin: 1.02 times the amount, rounded up to whole units here (the
\* selector only compares totals with it), or None out of range.
WithFeeMargin(n) ==
    LET m == (n * 102 + 99) \div 100 IN IF m > MaxDecimal THEN None ELSE m

\* The k largest of S.  Holdings of one amount are interchangeable.
Largest(S, amount, k) ==
    CHOOSE T \in kSubset(k, S) : \A a \in T, b \in S \ T : amount[a] >= amount[b]

\* Mutant: the smallest holdings first, so the input limit is reached below the target.
SelectSmallestFirst(S, amount, target) ==
    LET Smallest(k) == S \ Largest(S, amount, Cardinality(S) - k)
        enough == {k \in 1 .. Cardinality(S) : k <= MaxPicks /\ Total(Smallest(k), amount) >= target}
    IN  IF target <= 0 \/ enough = {} THEN {} ELSE Smallest(Min(enough))

\* select_amulet_indices: the smallest holding that covers the target by itself,
\* or the largest ones until they do; nothing when MaxPicks of them fall short.
\* A running total beyond the Decimal range is above any target, so it covers too.
SelectAmulets(S, amount, target) ==
    LET alone  == {c \in S : amount[c] >= target}
        enough == {k \in 1 .. Cardinality(S) :
                     k <= MaxPicks /\ Total(Largest(S, amount, k), amount) >= target}
    IN  IF target <= 0 THEN {}
        ELSE IF alone # {} THEN {CHOOSE c \in alone : \A d \in alone : amount[c] <= amount[d]}
        ELSE IF enough # {} THEN Largest(S, amount, Min(enough))
        ELSE {}

\* select_amulets_for_allocation
SelectForAllocation(S, amount, cc) ==
    IF cc <= 0 \/ WithFeeMargin(cc) = None THEN {}
    ELSE SelectAmulets(S, amount, WithFeeMargin(cc))

=============================================================================
