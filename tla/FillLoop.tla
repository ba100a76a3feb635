------------------------------ MODULE FillLoop ------------------------------
(***************************************************************************)
(* The taker's buy and sell command (fill_loop.rs) over every run of one   *)
(* order: the loop that accepts a quote and settles it, by the multicall   *)
(* of accept_settle.rs or atomically by atomic_swap.rs, the restart marker *)
(* in the state file, and the restart that resolves it.                    *)
(*                                                                         *)
(* A deal is one accepted quote, for one lot of the order; its number      *)
(* stands for the proposal or quote id.  Rounds that end before a quote is *)
(* accepted change nothing and are left out, and so is the round number,   *)
(* which only labels them.  remaining is Lots - filled.                    *)
(*                                                                         *)
(* A submit is on its way (flying) until it lands or is lost; what its     *)
(* errors mean is SubmitContract.  A save that fails leaves the file as it *)
(* was, which is also what a crash just before it does.                    *)
(***************************************************************************)
EXTENDS Integers, FiniteSets

CONSTANTS
  Lots,           \* lots of the order
  MaxDeals,       \* bound on accepted quotes
  MaxRuns,        \* bound on runs of the command
  Kinds,          \* the kinds of rounds a run may make: "v1", "atomic"
  DryRuns,        \* the runs made with --dry-run
  LateLanding,    \* may a submit land after its inputs were polled live?
  ForeignSpend    \* may the party's inputs be spent outside this process?

ASSUME BoundsAssumption ==
  Lots \in Nat \ {0} /\ MaxDeals \in Nat /\ MaxRuns \in Nat
ASSUME KindsAssumption == Kinds \subseteq {"v1", "atomic"}
ASSUME DryRunsAssumption == DryRuns \subseteq 1 .. MaxRuns
ASSUME SwitchesAssumption == {LateLanding, ForeignSpend} \subseteq BOOLEAN

Deals == 1 .. MaxDeals
NoDeal == 0

VARIABLES
  \* The ledger and the settlement server
  flying,    \* deals whose submit may still land
  landed,    \* deals whose submit has landed
  ended,     \* V1 deals whose settlement failed or was cancelled
  \* The state file
  file,      \* filled_total and the unresolved round
  \* The process
  pc,        \* stopped, quoting, accepted, settling, reconciling or resolving
  kind,      \* kind[d]: how deal d settles
  cur,       \* the deal of this round
  deals,     \* quotes accepted so far, in every run
  filled,    \* filled_total
  debits,    \* debits[d]: times the fee debits of d were started
  runs       \* runs of the command so far

\* Is this run a dry run?
Dry == runs \in DryRuns

ledgerVars == <<flying, landed, ended>>
vars == <<ledgerVars, file, pc, kind, cur, deals, filled, debits, runs>>

Init ==
  /\ flying = {} /\ landed = {} /\ ended = {}
  /\ file = [filled |-> 0, mark |-> NoDeal]
  /\ pc = "stopped" /\ kind = [d \in Deals |-> "v1"]
  /\ cur = NoDeal /\ deals = 0 /\ filled = 0
  /\ debits = [d \in Deals |-> 0] /\ runs = 0

-----------------------------------------------------------------------------
(* The ledger, the server and the operator *)

Land(d) ==
  /\ d \in flying
  /\ flying' = flying \ {d} /\ landed' = landed \cup {d}
  /\ UNCHANGED <<ended, file, pc, kind, cur, deals, filled, debits, runs>>

Lose(d) ==
  /\ d \in flying
  /\ flying' = flying \ {d}
  /\ UNCHANGED <<landed, ended, file, pc, kind, cur, deals, filled, debits, runs>>

\* The settlement fails or is cancelled, also after this side's accept landed,
\* or before: no operator settles it any more, so it is no trade.
End(d) ==
  /\ d <= deals /\ kind[d] = "v1" /\ d \notin ended
  /\ ended' = ended \cup {d}
  /\ UNCHANGED <<flying, landed, file, pc, kind, cur, deals, filled, debits, runs>>

\* unknown_round_help: the operator edits the file once the quote's window has
\* passed, by what the ledger shows.
OperatorEdits ==
  /\ pc = "stopped" /\ file.mark # NoDeal /\ kind[file.mark] = "atomic"
  /\ file.mark \notin flying
  /\ file' = [filled |-> file.filled + (IF file.mark \in landed THEN 1 ELSE 0),
              mark |-> NoDeal]
  /\ UNCHANGED <<ledgerVars, pc, kind, cur, deals, filled, debits, runs>>

-----------------------------------------------------------------------------
(* The state file *)

Unmarked == [filled |-> filled, mark |-> NoDeal]
Marked == [filled |-> filled, mark |-> cur]

\* FillStateSink::save where the caller goes on whether or not it worked
TrySave(state) == file' \in {file, state}

CountAndSave ==
  /\ filled' = filled + 1
  /\ TrySave([filled |-> filled + 1, mark |-> NoDeal])

\* debit_fees of a committed multicall
DebitFees(d) == debits' = [debits EXCEPT ![d] = @ + 1]

-----------------------------------------------------------------------------
(* restore_plan.  A file with nothing remaining starts another order, which *)
(* is outside the model; one that marks an atomic round is refused.         *)

Resume ==
  /\ pc = "stopped" /\ runs < MaxRuns /\ file.filled < Lots
  /\ file.mark = NoDeal
  /\ filled' = file.filled /\ pc' = "quoting" /\ runs' = runs + 1
  /\ UNCHANGED <<ledgerVars, file, kind, cur, deals, debits>>

Resolve ==
  /\ pc = "stopped" /\ runs < MaxRuns /\ file.filled < Lots
  /\ file.mark # NoDeal /\ kind[file.mark] = "v1"
  /\ filled' = file.filled /\ cur' = file.mark
  /\ pc' = "resolving" /\ runs' = runs + 1
  /\ UNCHANGED <<ledgerVars, file, kind, deals, debits>>

\* proves_commit: the taker's accept is recorded and the settlement goes on
Proved(d) == d \in landed \ ended

ResolveCommitted ==
  /\ pc = "resolving" /\ Proved(cur)
  /\ DebitFees(cur) /\ CountAndSave /\ pc' = "quoting"
  /\ UNCHANGED <<ledgerVars, kind, cur, deals, runs>>

ResolveEnded ==
  /\ pc = "resolving" /\ cur \in ended
  /\ TrySave(Unmarked) /\ pc' = "quoting"
  /\ UNCHANGED <<ledgerVars, kind, cur, deals, filled, debits, runs>>

ResolveNothing ==
  /\ pc = "resolving"
  /\ pc' = "stopped"
  /\ UNCHANGED <<ledgerVars, file, kind, cur, deals, filled, debits, runs>>

-----------------------------------------------------------------------------
(* The loop *)

AcceptQuote(k) ==
  /\ pc = "quoting" /\ filled < Lots /\ deals < MaxDeals
  /\ deals' = deals + 1 /\ cur' = deals + 1
  /\ kind' = [kind EXCEPT ![deals + 1] = k]
  /\ pc' = "accepted"
  /\ UNCHANGED <<ledgerVars, file, filled, debits, runs>>

\* No proposal, no fees, a failed pre-check, no own holdings: nothing is marked.
DropAccepted ==
  /\ pc = "accepted"
  /\ pc' \in {"quoting", "stopped"}
  /\ UNCHANGED <<ledgerVars, file, kind, cur, deals, filled, debits, runs>>

\* Mutant: the submit does not wait for the marker.
SubmitUnmarked ==
  /\ pc = "accepted"
  /\ flying' = IF Dry THEN flying ELSE flying \cup {cur}
  /\ TrySave(Marked) /\ pc' = "settling"
  /\ UNCHANGED <<landed, ended, kind, cur, deals, filled, debits, runs>>

\* The submit starts only once the marker is saved.
MarkAndSubmit ==
  /\ pc = "accepted"
  /\ flying' = IF Dry THEN flying ELSE flying \cup {cur}
  /\ file' = Marked /\ pc' = "settling"
  /\ UNCHANGED <<landed, ended, kind, cur, deals, filled, debits, runs>>

MarkerNotSaved ==
  /\ pc = "accepted"
  /\ pc' = "stopped"
  /\ UNCHANGED <<ledgerVars, file, kind, cur, deals, filled, debits, runs>>

SettleCommits ==
  /\ pc = "settling" /\ cur \in landed
  /\ IF kind[cur] = "v1" THEN DebitFees(cur) ELSE UNCHANGED debits
  /\ CountAndSave /\ pc' = "quoting"
  /\ UNCHANGED <<ledgerVars, kind, cur, deals, runs>>

\* An error without the ambiguity marker: nothing of this call commits.
\* A prompt nobody answered stops the loop, any other failure is retried.
SettleFails ==
  /\ pc = "settling" /\ cur \notin landed
  /\ flying' = flying \ {cur}
  /\ TrySave(Unmarked) /\ pc' \in {"quoting", "stopped"}
  /\ UNCHANGED <<landed, ended, kind, cur, deals, filled, debits, runs>>

\* Mutant: a multicall of unknown outcome is retried.
UnknownIsRetried ==
  /\ pc = "settling" /\ ~ Dry
  /\ TrySave(Unmarked) /\ pc' = "quoting"
  /\ UNCHANGED <<ledgerVars, kind, cur, deals, filled, debits, runs>>

\* An ambiguous error, a wait that ran out, or a submit task that died
SettleUnknown ==
  /\ pc = "settling" /\ ~ Dry
  /\ pc' = "reconciling"
  /\ UNCHANGED <<ledgerVars, file, kind, cur, deals, filled, debits, runs>>

\* The dry run of a V1 round returns Ok: finish skips the debits, the loop
\* counts the quantity.
SettleDryV1 ==
  /\ pc = "settling" /\ Dry /\ kind[cur] = "v1"
  /\ CountAndSave /\ pc' = "quoting"
  /\ UNCHANGED <<ledgerVars, kind, cur, deals, debits, runs>>

SettleDryAtomic ==
  /\ pc = "settling" /\ Dry /\ kind[cur] = "atomic"
  /\ TrySave(Unmarked) /\ pc' = "stopped"
  /\ UNCHANGED <<ledgerVars, kind, cur, deals, filled, debits, runs>>

-----------------------------------------------------------------------------
(* Reconciliation: settle_unknown for V1, poll_own_inputs for atomic *)

ReconcileProved ==
  /\ pc = "reconciling" /\ kind[cur] = "v1" /\ Proved(cur)
  /\ DebitFees(cur) /\ CountAndSave /\ pc' = "quoting"
  /\ UNCHANGED <<ledgerVars, kind, cur, deals, runs>>

\* Some own input is gone: consumed by the settle, or spent elsewhere
Consumed(d) == d \in landed \/ ForeignSpend

ReconcileConsumed ==
  /\ pc = "reconciling" /\ kind[cur] = "atomic" /\ Consumed(cur)
  /\ CountAndSave /\ pc' = "quoting"
  /\ UNCHANGED <<ledgerVars, kind, cur, deals, debits, runs>>

\* Every own input is live in the last of RECONCILE_ATTEMPTS polls.
ReconcileLive ==
  /\ pc = "reconciling" /\ kind[cur] = "atomic" /\ cur \notin landed
  /\ cur \in flying => LateLanding
  /\ TrySave(Unmarked) /\ pc' = "quoting"
  /\ UNCHANGED <<ledgerVars, kind, cur, deals, filled, debits, runs>>

\* Neither is established: the marker is saved again and the loop aborts.
ReconcileUnknown ==
  /\ pc = "reconciling"
  /\ TrySave(Marked) /\ pc' = "stopped"
  /\ UNCHANGED <<ledgerVars, kind, cur, deals, filled, debits, runs>>

\* Ctrl-C at the loop head, the order filled, or a crash anywhere
Stop ==
  /\ pc # "stopped"
  /\ pc' = "stopped"
  /\ UNCHANGED <<ledgerVars, file, kind, cur, deals, filled, debits, runs>>

-----------------------------------------------------------------------------
Next ==
  \/ \E d \in Deals : Land(d) \/ Lose(d) \/ End(d)
  \/ OperatorEdits
  \/ Resume \/ Resolve \/ ResolveCommitted \/ ResolveEnded \/ ResolveNothing
  \/ \E k \in Kinds : AcceptQuote(k)
  \/ DropAccepted \/ MarkAndSubmit \/ MarkerNotSaved
  \/ SettleCommits \/ SettleFails \/ SettleUnknown \/ SettleDryV1 \/ SettleDryAtomic
  \/ ReconcileProved \/ ReconcileConsumed \/ ReconcileLive \/ ReconcileUnknown
  \/ Stop

Spec == Init /\ [][Next]_vars

-----------------------------------------------------------------------------
(* Properties *)

\* The state of a run, the file and the ledger; the order is never overfilled
\* in the books of the loop.
TypeOK ==
  /\ flying \subseteq Deals /\ landed \subseteq Deals /\ ended \subseteq Deals
  /\ file \in [filled : 0 .. Lots, mark : Deals \cup {NoDeal}]
  /\ pc \in {"stopped", "quoting", "accepted", "settling", "reconciling", "resolving"}
  /\ kind \in [Deals -> {"v1", "atomic"}]
  /\ cur \in Deals \cup {NoDeal} /\ deals \in 0 .. MaxDeals
  /\ filled \in 0 .. Lots /\ runs \in 0 .. MaxRuns
  /\ debits \in [Deals -> Nat]

\* Deals that are, or may still become, a trade of this order
Trades == landed \ ended

\* While the loop may accept a quote, nothing it submitted may still land and
\* every trade is in filled_total: a quote is never accepted on top of a
\* settle that may have committed.
NeverDoubleFills ==
  pc \in {"quoting", "accepted"} =>
    /\ flying \subseteq ended
    /\ Cardinality(Trades) <= filled

\* The trades of all runs together never exceed the order.
NeverOverbought == Cardinality(Trades) <= Lots

\* Whatever the moment of a crash, everything on the ledger is in the saved
\* filled_total or is the marked round (RoundMark: saved before anything can
\* commit), so no restart loses or repeats it.
RestartKnowsAll ==
  /\ flying \subseteq {file.mark} \cup ended
  /\ Cardinality(Trades \ {file.mark}) <= file.filled

\* What fill_loop.rs says of filled_total: "Only proof of a commit counts as a
\* fill", in memory and in the file.
NoPhantomFills ==
  /\ pc # "stopped" => filled <= Cardinality(landed)
  /\ file.filled <= Cardinality(landed \ {file.mark})

\* Until a dry run has been made, only a commit counts as a fill: no failure,
\* restart or reconciliation counts a round twice or one that did not commit.
CountedIsCommitted == (\A r \in DryRuns : runs < r) => NoPhantomFills

\* The processing fees, which the LP waits for, are debited for every counted
\* V1 trade and for nothing that did not commit.
FeesFollowCommits ==
  /\ \A d \in Deals : debits[d] > 0 => d \in landed
  /\ pc = "quoting" => \A d \in Trades : kind[d] = "v1" => debits[d] > 0
=============================================================================
