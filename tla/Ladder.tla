------------------------------- MODULE Ladder -------------------------------
(* The denomination ladder of one instrument (cloud-agent/src/                *)
(* split_worker.rs and merge_worker.rs): the maintenance tick and the          *)
(* on-demand kicks that split the largest holding into missing rungs, and the *)
(* merge of what is smaller than any rung.                                    *)
(*                                                                            *)
(* What keeps it from running away is a cache that lags the ledger, a gate    *)
(* on recorded attempts and the reservation of the input; each of them is     *)
(* read in a step of its own, and other calls come between.  The cache is     *)
(* reduced here to what it counts; HoldingsCache has its detail.              *)
EXTENDS SplitPlans

CONSTANTS
    Denominations,    \* the ladder as configured: a sequence of <<denomination, count>>
    MinInterval,      \* split_min_interval_secs
    Window, MaxOps,   \* SPLIT_BUDGET_WINDOW and split_max_ops_per_hour
    Callers,          \* the tick and the kicks that may be under way at once
    MergeThreshold, MaxMerge,      \* merge_threshold, merge_max_amulets
    Opening,          \* the amounts held at the start
    Incoming,         \* amounts that may arrive
    MaxCoins, MaxNow  \* bounds on the holdings ever made and on the clock

\* The tick is always there.
ASSUME LadderAssumption ==
    /\ Denominations \in Seq(Nat \X Nat) /\ Opening \in Seq(Nat) /\ Incoming \subseteq Nat
    /\ {MinInterval, Window, MaxOps, MergeThreshold, MaxMerge, MaxCoins, MaxNow} \subseteq Nat
    /\ IsFiniteSet(Callers) /\ Callers # {}

----------------------------------------------------------------------------
Rungs == ParseSplits(Denominations)

\* The times of recorded attempts against the budget, then the cooldown.
SplitGate(ops, t) ==
    LET recent == {i \in DOMAIN ops : t - ops[i] < Window}
    IN  IF Cardinality(recent) >= MaxOps THEN "budgetExhausted"
        ELSE IF recent # {} /\ t - Max({ops[i] : i \in recent}) < MinInterval THEN "cooldown" ELSE "allow"

----------------------------------------------------------------------------
VARIABLES
    coins,            \* on the ledger: holding -> [amount, by]; by says how it came about
    made,             \* how many holdings there have been
    cached,           \* what the cache knows and does not take for consumed: holding -> amount
    reserved,
    pendingRungs,     \* pending_splits: committed, not yet seen in a snapshot
    ops, now,         \* split_op_times, and the clock
    call,             \* caller -> where ensure_denominations stands
    merge,            \* where the merge cycle stands
    overlapped        \* some call planned or ran while another did

ladderVars == <<coins, made, cached, reserved, pendingRungs, ops, now, call, merge, overlapped>>

NoCall == [at |-> "idle", plan |-> << >>, input |-> 0]
NoMerge == [at |-> "idle", inputs |-> {}]

LadderInit ==
    /\ coins = [c \in DOMAIN Opening |-> [amount |-> Opening[c], by |-> "opening"]] /\ made = Len(Opening)
    /\ cached = Opening /\ reserved = {} /\ pendingRungs = << >>
    /\ ops = << >> /\ now = 0
    /\ call = [k \in Callers |-> NoCall] /\ merge = NoMerge /\ overlapped = FALSE

Known == DOMAIN cached
Amount(c) == cached[c]
Forget(S) == [c \in Known \ S |-> cached[c]]

\* splitter_reserve: the largest the cache knows, reserved or not, spent or not.
IsReserve(c) == \A o \in Known : Amount(o) < Amount(c) \/ (Amount(o) = Amount(c) /\ o <= c)

\* count_in_band: what exists, usable or not, but for the reserve, and what is pending.
CountInBand(d) ==
    Cardinality({c \in Known : ~IsReserve(c) /\ InBand(Amount(c), d)})
    + SumFunctionOnSet([i \in DOMAIN pendingRungs |-> IF InBand(pendingRungs[i][1], d) THEN pendingRungs[i][2] ELSE 0],
                       DOMAIN pendingRungs)
Haves == [i \in DOMAIN Rungs |-> CountInBand(Rungs[i][1])]

Worth(S) == SumFunctionOnSet([c \in S |-> coins[c].amount], S)

\* New holdings of a transaction that spends S: its outputs, and the change.
Transacted(S, plan, by) ==
    LET outputs == Outputs(plan)
        change == Worth(S) - Cost(plan)
        new == [i \in 1 .. Len(outputs) |-> [amount |-> outputs[i], by |-> by]]
               \o (IF change > 0 THEN <<[amount |-> change, by |-> "change"]>> ELSE << >>)
    IN  /\ coins' = [c \in (DOMAIN coins \ S) \cup (made + 1 .. made + Len(new)) |->
                        IF c \in DOMAIN coins THEN coins[c] ELSE new[c - made]]
        /\ made' = made + Len(new)

----------------------------------------------------------------------------
(* ensure_denominations, of the tick or of a kick                            *)

CountRungs(k) ==
    /\ call[k].at = "idle" /\ PlanLadderRefill(Rungs, Haves) # << >> /\ ~LadderOverfull(Rungs, Haves)
    /\ call' = [call EXCEPT ![k] = [NoCall EXCEPT !.at = "counted", !.plan = PlanLadderRefill(Rungs, Haves)]]
    /\ overlapped' = (overlapped \/ \E o \in Callers \ {k} : call[o].at # "idle")
    /\ UNCHANGED <<coins, made, cached, reserved, pendingRungs, ops, now, merge>>

PassGate(k) ==
    /\ call[k].at = "counted"
    /\ call' = [call EXCEPT ![k] = IF SplitGate(ops, now) = "allow" THEN [@ EXCEPT !.at = "gated"] ELSE NoCall]
    /\ UNCHANGED <<coins, made, cached, reserved, pendingRungs, ops, now, merge, overlapped>>

TakeReserve(k) ==
    /\ call[k].at = "gated"
    /\ LET of == {c \in Known : IsReserve(c) /\ c \notin reserved}
           plan == IF of = {} THEN << >> ELSE CapSplitOutputs(FundSplits(Amount(Max(of)), call[k].plan), MaxSplitOutputs)
       IN  IF plan = << >> THEN call' = [call EXCEPT ![k] = NoCall] /\ UNCHANGED <<reserved, ops>>
           ELSE /\ call' = [call EXCEPT ![k] = [at |-> "submitted", plan |-> plan, input |-> Max(of)]]
                /\ reserved' = reserved \cup of /\ ops' = Append(ops, now)
    /\ UNCHANGED <<coins, made, cached, pendingRungs, now, merge, overlapped>>

\* The submission is executed and told so, executed and not told so, or not executed;
\* without a verdict the input is given back.
SplitEnds(k, outcome) ==
    LET c == call[k].input
    IN  /\ call[k].at = "submitted" /\ (outcome = "refused" \/ c \in DOMAIN coins)
        /\ IF outcome = "refused" THEN UNCHANGED <<coins, made>>
           ELSE made + MaxSplitOutputs < MaxCoins /\ Transacted({c}, call[k].plan, outcome)
        /\ IF outcome = "told" THEN cached' = Forget({c}) /\ call' = [call EXCEPT ![k].at = "recording"] /\ UNCHANGED reserved
           ELSE reserved' = reserved \ {c} /\ call' = [call EXCEPT ![k] = NoCall] /\ UNCHANGED cached
        /\ UNCHANGED <<pendingRungs, ops, now, merge, overlapped>>

\* Mutant: the rungs count once a snapshot has them.
NotRecorded(k) ==
    /\ call[k].at = "recording" /\ call' = [call EXCEPT ![k] = NoCall] /\ reserved' = reserved \ {call[k].input}
    /\ UNCHANGED <<coins, made, cached, pendingRungs, ops, now, merge, overlapped>>
RecordPendingSplit(k) ==
    /\ call[k].at = "recording" /\ call' = [call EXCEPT ![k] = NoCall] /\ reserved' = reserved \ {call[k].input}
    /\ pendingRungs' = pendingRungs \o call[k].plan
    /\ UNCHANGED <<coins, made, cached, ops, now, merge, overlapped>>

----------------------------------------------------------------------------
(* check_and_merge_instrument                                                *)

Floor == Min({Rungs[i][1] : i \in DOMAIN Rungs})
Dust == {c \in Known \ reserved : ~IsReserve(c) /\ Amount(c) < Floor}
PlanMerge(S, threshold, most) ==
    IF Cardinality(S) <= threshold THEN {}
    ELSE CHOOSE T \in SUBSET S : /\ Cardinality(T) = Min({most, Cardinality(S)})
                                 /\ \A c \in T, o \in S \ T : Amount(c) <= Amount(o)

MergeStarts ==
    /\ merge = NoMerge
    /\ LET T == PlanMerge(Dust, MergeThreshold, MaxMerge)
       IN  Cardinality(T) >= 2 /\ merge' = [at |-> "submitted", inputs |-> T] /\ reserved' = reserved \cup T
    /\ UNCHANGED <<coins, made, cached, pendingRungs, ops, now, call, overlapped>>

MergeEnds(outcome) ==
    LET T == merge.inputs
        total == Worth(T)
    IN  /\ merge.at = "submitted" /\ (outcome = "refused" \/ T \subseteq DOMAIN coins)
        /\ IF outcome = "refused" THEN UNCHANGED <<coins, made>> ELSE made < MaxCoins /\ Transacted(T, <<<<total, 1>>>>, "merged")
        /\ pendingRungs' = IF outcome = "told" THEN Append(pendingRungs, <<total, 1>>) ELSE pendingRungs
        /\ cached' = IF outcome = "told" \/ ~(T \subseteq DOMAIN coins) THEN Forget(T) ELSE cached
        /\ reserved' = reserved \ T /\ merge' = NoMerge
        /\ UNCHANGED <<ops, now, call, overlapped>>

----------------------------------------------------------------------------
(* Around them                                                               *)

\* A complete snapshot shows what is there and settles what was pending.
AcsSnapshot ==
    /\ cached' = [c \in DOMAIN coins |-> coins[c].amount] /\ pendingRungs' = << >>
    /\ UNCHANGED <<coins, made, reserved, ops, now, call, merge, overlapped>>
\* A quote settles: the watcher sees its input go.
Settled(c) ==
    /\ c \in (Known \cap DOMAIN coins) \ reserved /\ ~IsReserve(c)
    /\ coins' = [o \in DOMAIN coins \ {c} |-> coins[o]] /\ cached' = Forget({c})
    /\ UNCHANGED <<made, reserved, pendingRungs, ops, now, call, merge, overlapped>>
\* A payment arrives, one at a time.
Arrives(a) ==
    /\ made < MaxCoins /\ made' = made + 1 /\ \A c \in DOMAIN coins : coins[c].by # "arrived"
    /\ coins' = [c \in DOMAIN coins \cup {made + 1} |-> IF c \in DOMAIN coins THEN coins[c] ELSE [amount |-> a, by |-> "arrived"]]
    /\ UNCHANGED <<cached, reserved, pendingRungs, ops, now, call, merge, overlapped>>
Later ==
    /\ now < MaxNow /\ now' = now + 1
    /\ UNCHANGED <<coins, made, cached, reserved, pendingRungs, ops, call, merge, overlapped>>

SplitOutcomes == {"told", "untold", "refused"}
LadderNext ==
    \/ \E k \in Callers : CountRungs(k) \/ PassGate(k) \/ TakeReserve(k) \/ RecordPendingSplit(k)
                          \/ \E o \in SplitOutcomes : SplitEnds(k, o)
    \/ MergeStarts \/ (\E o \in SplitOutcomes : MergeEnds(o))
    \/ AcsSnapshot \/ (\E c \in Known : Settled(c)) \/ (\E a \in Incoming : Arrives(a)) \/ Later

LadderSpec == LadderInit /\ [][LadderNext]_ladderVars

----------------------------------------------------------------------------
Told(d) == Cardinality({c \in DOMAIN coins : coins[c].by = "told" /\ coins[c].amount = d})

\* A refill never makes more of a rung than is missing of it, whatever the cache has
\* not seen yet, whatever failed and whatever arrives or settles meanwhile: of the
\* rungs it was told it made no more stand than the ladder asks for, but one, since the
\* holding that serves as the reserve is not counted, and but for calls that overlap,
\* each of which may make them all.
NoMoreThanAsked ==
    \A i \in DOMAIN Rungs :
        LET full == CountOf(Rungs, Rungs[i][1])
        IN  Told(Rungs[i][1]) <= 1 + (IF overlapped THEN Cardinality(Callers) * full ELSE full)

\* Attempts count when they start: within a window no more than the budget, and one for
\* each other call that was past the gate.
NoMoreThanBudgeted ==
    \A t \in 0 .. now : Cardinality({i \in DOMAIN ops : ops[i] >= t /\ ops[i] < t + Window}) < MaxOps + Cardinality(Callers)

\* A storm of refills stops itself even when every one is reported as failed, and what
\* a lost report, a late snapshot or a settling quote hides from ensure_denominations
\* is not made a second time.
LadderNotOverfilled == NoMoreThanAsked /\ NoMoreThanBudgeted

=============================================================================
