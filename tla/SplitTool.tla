----------------------------- MODULE SplitTool ------------------------------
(* The split commands (cloud-agent/src/lib.rs: atomic_split_denominations,    *)
(* fetch_split_holdings and refetch_after_split): a ladder that takes more    *)
(* outputs than one transaction may have is made chunk by chunk, each from a  *)
(* fresh look at the ledger.  `atomic setup` makes what is missing of every   *)
(* rung, `atomic split` makes exactly what it was asked for.                  *)
(*                                                                            *)
(* There is no cache here and no reservation: a look at the ledger may be of  *)
(* an earlier state of it, though never of one earlier than the look before.  *)
EXTENDS SplitPlans

CONSTANTS
    Wanted,           \* the rungs asked for
    Purses,           \* the amounts held at the start, one of these sequences
    MaxToolInputs,    \* inputs of one transaction
    MaxToolRuns       \* bound on how often a command is given

\* parse_splits takes no rung of nothing, and a transaction has some output.
ASSUME ToolAssumption ==
    /\ Wanted \in Seq((Nat \ {0}) \X (Nat \ {0})) /\ Purses \subseteq Seq(Nat)
    /\ {MaxToolInputs, MaxToolRuns} \subseteq Nat /\ MaxSplitOutputs # 0

VARIABLES
    onlyDeficit,      \* `atomic setup`, or else `atomic split`
    isCc,             \* whether CC is split, whose fees need a margin
    purse,            \* on the ledger: holding -> [amount, run], run 0 for what no command made
    past,             \* its states so far, the last one current
    tool,             \* where the command stands
    runs,             \* commands given
    elsewhere         \* another process spent a holding

toolVars == <<onlyDeficit, isCc, purse, past, tool, runs, elsewhere>>

NoTool == [at |-> "idle", view |-> 0, left |-> << >>, spent |-> {}, committed |-> 0, prev |-> -1, limit |-> 0,
           chunk |-> << >>, inputs |-> {}]

ToolInit ==
    /\ onlyDeficit \in BOOLEAN /\ isCc \in BOOLEAN
    /\ \E p \in Purses : purse = [c \in DOMAIN p |-> [amount |-> p[c], run |-> 0]]
    /\ past = <<purse>> /\ tool = NoTool /\ runs = 0 /\ elsewhere = FALSE

AmountsAt(v) == [c \in DOMAIN past[v] |-> past[v][c].amount]
Want(t) == IF onlyDeficit THEN RungDeficits(Wanted, AmountsAt(t.view)) ELSE t.left

\* The first look; nothing missing, nothing done.  Two more rounds than the chunks
\* it should take are allowed.
ToolStarts(v) ==
    /\ tool = NoTool /\ runs < MaxToolRuns
    /\ LET t == [NoTool EXCEPT !.at = "plan", !.view = v, !.left = Wanted]
           total == CountSum(Want(t))
       IN  tool' = IF total = 0 THEN NoTool ELSE [t EXCEPT !.limit = (total + MaxSplitOutputs - 1) \div MaxSplitOutputs + 2]
    /\ runs' = runs + 1
    /\ UNCHANGED <<onlyDeficit, isCc, purse, past, elsewhere>>

Stop == tool' = NoTool /\ UNCHANGED <<onlyDeficit, isCc, purse, past, runs, elsewhere>>

\* What the balance covers, rung by rung; for CC the fee margin is taken off first.
\* In hundredths.
Affordable(want, amounts) ==
    LET available == SumFunctionOnSet(amounts, DOMAIN amounts)
    IN  FundRungs(IF isCc THEN Max({0, ((available - 1) * 10000) \div 102}) ELSE 100 * available, want)

\* The holdings before c when the largest come first; the sort is stable, and those of
\* one amount stay as the ledger lists them, in the order of their making.
SortedBefore(amounts, c) == {o \in DOMAIN amounts : amounts[o] > amounts[c] \/ (amounts[o] = amounts[c] /\ o < c)}

\* The largest holdings, as many as it takes to cover the total, or as may be given.
LargestFirst(amounts, total) ==
    LET first(n) == {c \in DOMAIN amounts : Cardinality(SortedBefore(amounts, c)) < n}
        enough == {n \in 0 .. Min({MaxToolInputs, Cardinality(DOMAIN amounts)}) : 100 * SumFunctionOnSet(amounts, first(n)) >= total}
    IN  IF enough = {} THEN {} ELSE first(Min(enough))

PlanChunk ==
    /\ tool.at = "plan"
    /\ LET want == Want(tool)
           outstanding == CountSum(want)
           chunk == CapSplitOutputs(Affordable(want, AmountsAt(tool.view)), MaxSplitOutputs)
           total == IF isCc THEN 102 * Cost(chunk) + 100 ELSE 100 * Cost(chunk)
           inputs == LargestFirst(AmountsAt(tool.view), total)
           noProgress == onlyDeficit /\ tool.prev >= 0 /\ outstanding >= tool.prev
       IN  IF outstanding = 0 \/ noProgress \/ chunk = << >> \/ inputs = {} THEN Stop
           ELSE /\ tool' = [tool EXCEPT !.at = "submit", !.chunk = chunk, !.inputs = inputs,
                                        !.prev = IF onlyDeficit THEN outstanding ELSE -1]
                /\ UNCHANGED <<onlyDeficit, isCc, purse, past, runs, elsewhere>>

\* The ledger spends the inputs for the chunk's outputs and the change.
Spend(t) ==
    LET outputs == Outputs(t.chunk)
        change == SumFunctionOnSet([c \in t.inputs |-> purse[c].amount], t.inputs) - Cost(t.chunk)
        new == [i \in 1 .. Len(outputs) |-> [amount |-> outputs[i], run |-> runs]]
               \o (IF change > 0 THEN <<[amount |-> change, run |-> 0]>> ELSE << >>)
        last == Max(UNION {DOMAIN past[i] : i \in DOMAIN past})
    IN  /\ purse' = [c \in (DOMAIN purse \ t.inputs) \cup (last + 1 .. last + Len(new)) |->
                        IF c <= last THEN purse[c] ELSE new[c - last]]
        /\ past' = Append(past, purse')

\* A chunk that committed is taken off the request, which is done when nothing is left.
ChunkCommits ==
    /\ tool.at = "submit" /\ tool.inputs \subseteq DOMAIN purse /\ Spend(tool)
    /\ LET left == IF onlyDeficit THEN tool.left ELSE SubtractSplitChunk(tool.left, tool.chunk)
           committed == tool.committed + 1
       IN  tool' = IF left = << >> \/ committed = tool.limit THEN NoTool
                   ELSE [tool EXCEPT !.at = "refetch", !.left = left, !.committed = committed, !.spent = tool.inputs,
                                     !.chunk = << >>, !.inputs = {}]
    /\ UNCHANGED <<onlyDeficit, isCc, runs, elsewhere>>
\* A submission that fails ends the command, executed or not; so does a dry run.
ChunkUntold ==
    /\ tool.at = "submit" /\ tool.inputs \subseteq DOMAIN purse /\ Spend(tool) /\ tool' = NoTool
    /\ UNCHANGED <<onlyDeficit, isCc, runs, elsewhere>>
ChunkFails == tool.at = "submit" /\ Stop

\* Mutant: the next look is taken as it comes.
RefetchOnce(v) ==
    /\ tool.at = "refetch" /\ tool' = [tool EXCEPT !.at = "plan", !.view = v]
    /\ UNCHANGED <<onlyDeficit, isCc, purse, past, runs, elsewhere>>
\* A look that still shows what the last chunk spent is of before it: look again, and
\* after five such looks leave the rest to the next run.
Refetch(v) ==
    /\ tool.at = "refetch" /\ tool.spent \cap DOMAIN past[v] = {}
    /\ tool' = [tool EXCEPT !.at = "plan", !.view = v]
    /\ UNCHANGED <<onlyDeficit, isCc, purse, past, runs, elsewhere>>
RefetchStale == tool.at = "refetch" /\ Stop

\* The running agent, or another command, spends a holding.
SpentElsewhere(c) ==
    /\ ~elsewhere /\ elsewhere' = TRUE
    /\ purse' = [o \in DOMAIN purse \ {c} |-> purse[o]] /\ past' = Append(past, purse')
    /\ UNCHANGED <<onlyDeficit, isCc, tool, runs>>

ToolNext ==
    \/ \E v \in DOMAIN past : ToolStarts(v) \/ (v >= tool.view /\ Refetch(v))
    \/ PlanChunk \/ ChunkCommits \/ ChunkUntold \/ ChunkFails \/ RefetchStale
    \/ \E c \in DOMAIN purse : SpentElsewhere(c)

ToolSpec == ToolInit /\ [][ToolNext]_toolVars

----------------------------------------------------------------------------
MadeBy(S, d) == Cardinality({c \in DOMAIN purse : purse[c].amount = d /\ purse[c].run \in S})

\* Chunk after chunk, from looks that may be late, with failures and repeated commands:
\* what is made of a rung is never more than was asked for, by all setups together and
\* by each split; and as long as nobody else spends, no transaction is submitted on a
\* holding that is gone.
ToolSplitsRight ==
    /\ \A i \in DOMAIN Wanted :
         LET d == Wanted[i][1]
         IN  IF onlyDeficit THEN MadeBy(1 .. runs, d) <= CountOf(Wanted, d)
             ELSE \A r \in 1 .. runs : MadeBy({r}, d) <= CountOf(Wanted, d)
    /\ tool.at = "submit" /\ ~elsewhere /\ tool.committed > 0 => tool.inputs \subseteq DOMAIN purse

=============================================================================
