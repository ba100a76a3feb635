---------------------------- MODULE InputChoice ----------------------------
(* The choice of a payment's inputs by itself (cloud-agent/src/               *)
(* payment_queue.rs): which holdings are free, what each is worth and what    *)
(* they have to cover.                                                        *)
EXTENDS Selection

CONSTANTS
    Holdings,         \* the holdings there may be to pick from
    MaxAmount         \* their largest amount, and nearly the largest target

ASSUME HoldingsAssumption == IsFiniteSet(Holdings) /\ MaxAmount \in Nat

VARIABLE asked        \* the holdings that are free, what each is worth, the target

Asked == [amount : [Holdings -> 1 .. MaxAmount], from : SUBSET Holdings, target : 0 .. MaxAmount + 2]
ChoiceInit == asked \in Asked
ChoiceSpec == ChoiceInit /\ [][FALSE]_asked

Covers(T) == Cardinality(T) <= MaxPicks /\ Total(T, asked.amount) >= asked.target

\* select_amulet_indices: what is picked covers the target with as many inputs as a
\* transfer takes, and no fewer would do; and nothing is picked only when no such set of
\* holdings covers it.
SelectionRight ==
    LET picked == SelectAmulets(asked.from, asked.amount, asked.target)
    IN  IF picked = {} THEN asked.target = 0 \/ \A T \in SUBSET asked.from : ~Covers(T)
        ELSE /\ picked \subseteq asked.from /\ Covers(picked)
             /\ \A T \in SUBSET asked.from : Covers(T) => Cardinality(picked) <= Cardinality(T)

=============================================================================
