------------------------- MODULE SubmitTransaction --------------------------
(***************************************************************************)
(* DAppProviderClient::submit_transaction (cloud-agent/ledger_client.rs):  *)
(* one call prepares, verifies, signs and executes a transaction, retrying *)
(* with a freshly prepared command, and looks for a command on the ledger  *)
(* when its execute failed without a verdict.                              *)
(*                                                                         *)
(* A command is identified by the attempt that prepared it.  The ledger is *)
(* external: `fate` says what became of each executed command.  A command  *)
(* "inflight" was taken by the participant and may still go either way, at *)
(* any later time, also after the call has returned.                       *)
(***************************************************************************)
EXTENDS Naturals

CONSTANT MaxRetries     \* MAX_RETRIES: attempts of one call

ASSUME MaxRetriesAssumption == MaxRetries \in Nat \ {0}

VARIABLES
    op,          \* the call's arguments: is_background_op, dry_run, force
    pc,          \* where the call stands
    attempt,     \* attempt_no
    recoverable, \* start_offset > 0
    answer,      \* what the last execute answered
    uncertain,   \* attempt whose execute failed but may still commit, 0 if none
    result,      \* what the call returned
    fate,        \* per attempt, what the ledger did with its command
    failures,    \* record_submit_failure calls (ledger-health breaker)
    successes,   \* record_submit_success calls
    paused       \* BACKGROUND_PAUSE_UNTIL_MS was pushed out

vars == <<op, pc, attempt, recoverable, answer, uncertain, result, fate,
          failures, successes, paused>>

-----------------------------------------------------------------------------
Attempts == 1..MaxRetries

Labels == {"ok", "rpc", "backpressure", "duplicate", "inactive", "locked", "other"}

\* An answer to an execute: what its text matches, and whether
\* server_failure_is_definite holds of it.
Answers == [label : Labels, definite : BOOLEAN]

NoAnswer == [label |-> "none", definite |-> FALSE]

Fates == {"none", "lost", "inflight", "committed"}

\* Substrings of an error text that callers look for.
Markers == {"outcomeUnknown", "DUPLICATE_COMMAND", "INACTIVE_CONTRACTS", "other"}

NoResult == [kind |-> "none", markers |-> {}]

\* Mutant: the last error is returned as it is.
ErrUnmarked(m, u) == [kind |-> "err", markers |-> {m}]

\* mark_uncertain: an error after an execute that may still commit says so,
\* and keeps its own text.
Err(m, u) ==
    [kind |-> "err",
     markers |-> {m} \cup (IF u # 0 THEN {"outcomeUnknown"} ELSE {})]

\* What the participant can have done with a command that got this answer: a
\* success is committed, a duplicate was taken before, a verdict is a refusal,
\* and a lost or unclassified answer says nothing.
FatesOf(a) ==
    CASE a.label = "ok"        -> {"committed"}
      [] a.label = "duplicate" -> {"inflight", "committed"}
      [] a.label \in {"inactive", "locked", "backpressure"} -> {"lost"}
      [] a.label = "rpc"       -> {"lost", "inflight", "committed"}
      [] a.label = "other"     -> IF a.definite THEN {"lost"}
                                  ELSE {"lost", "inflight", "committed"}

Committed == {c \in Attempts : fate[c] = "committed"}

-----------------------------------------------------------------------------
Init ==
    /\ op \in [background : BOOLEAN, dryRun : BOOLEAN, force : BOOLEAN]
    /\ pc = "start"
    /\ attempt = 1
    /\ recoverable = FALSE
    /\ answer = NoAnswer
    /\ uncertain = 0
    /\ result = NoResult
    /\ fate = [c \in Attempts |-> "none"]
    /\ failures = 0
    /\ successes = 0
    /\ paused = FALSE

Return(r) ==
    /\ pc' = "done"
    /\ result' = r
    /\ UNCHANGED attempt

RecordFailure(unreachable) ==
    /\ failures' = failures + (IF unreachable THEN 1 ELSE 0)
    /\ UNCHANGED successes

RecordSuccess ==
    /\ successes' = successes + 1
    /\ UNCHANGED failures

\* get_ledger_end: an error turns the update scan off for the whole call.
RecordOffset ==
    /\ pc = "start"
    /\ recoverable' \in BOOLEAN
    /\ pc' = "prepare"
    /\ UNCHANGED <<op, attempt, answer, uncertain, result, fate, failures,
                   successes, paused>>

\* prepare_transaction failed: no retry, whatever earlier attempts did.
PrepareFails ==
    /\ pc = "prepare"
    /\ Return(Err("other", uncertain))
    /\ \E unreachable \in BOOLEAN : RecordFailure(unreachable)
    /\ UNCHANGED <<op, recoverable, answer, uncertain, fate, paused>>

\* The verifier timed out or panicked, or it rejected the transaction and the
\* call is neither a dry run nor forced.
VerifyFails ==
    /\ pc = "prepare"
    /\ \E verdict \in {"error", "rejected"} :
          verdict = "rejected" => ~op.force /\ ~op.dryRun
    /\ Return(Err("other", uncertain))
    /\ UNCHANGED <<op, recoverable, answer, uncertain, fate, failures, successes,
                   paused>>

DryRun ==
    /\ pc = "prepare"
    /\ op.dryRun
    /\ Return([kind |-> "dryRun", markers |-> {}])
    /\ UNCHANGED <<op, recoverable, answer, uncertain, fate, failures, successes,
                   paused>>

\* Prepared, accepted (or --force), signed.
Sign ==
    /\ pc = "prepare"
    /\ ~op.dryRun
    /\ pc' = "execute"
    /\ UNCHANGED <<op, attempt, recoverable, answer, uncertain, result, fate,
                   failures, successes, paused>>

Execute ==
    /\ pc = "execute"
    /\ answer' \in Answers
    /\ \E f \in FatesOf(answer') : fate' = [fate EXCEPT ![attempt] = f]
    /\ pc' = "answered"
    /\ UNCHANGED <<op, attempt, recoverable, uncertain, result, failures,
                   successes, paused>>

\* A command the participant took is decided, with no regard to the client.
LedgerDecides(c) ==
    /\ fate[c] = "inflight"
    /\ \E f \in {"lost", "committed"} : fate' = [fate EXCEPT ![c] = f]
    /\ UNCHANGED <<op, pc, attempt, recoverable, answer, uncertain, result,
                   failures, successes, paused>>

-----------------------------------------------------------------------------
(* The answer is handled.                                                  *)

\* (The nudge to the auto-topup task that follows a success changes nothing
\* here.)
Succeeded ==
    /\ pc = "answered"
    /\ answer.label = "ok"
    /\ Return([kind |-> "ok", markers |-> {}])
    /\ RecordSuccess
    /\ UNCHANGED <<op, recoverable, answer, uncertain, fate, paused>>

\* SubmitBudget::allows_retry: attempts left, and time left for a wait and
\* another attempt as long as the last (time is not modelled: either way).
RetryAllowed == attempt < MaxRetries

Retry ==
    /\ RetryAllowed
    /\ attempt' = attempt + 1
    /\ pc' = "prepare"
    /\ UNCHANGED <<result, failures, successes>>

\* Back off and start over, or give up and count the failure.
RetryOrFail(m, u) ==
    \/ Retry
    \/ /\ Return(Err(m, u))
       /\ \E unreachable \in BOOLEAN : RecordFailure(unreachable)

\* The first uncertain execute is the one remembered.
NowUncertain == IF uncertain = 0 THEN attempt ELSE uncertain

\* The execute has no verdict: recover_after_execute_error looks at the ledger
\* first, when the start offset is known.
LooksAtLedger ==
    \/ answer.label = "rpc"
    \/ /\ answer.label \in {"backpressure", "locked", "other"}
       /\ ~answer.definite
       /\ ~(op.background /\ answer.label \in {"backpressure", "locked"})

StartRecovery ==
    /\ pc = "answered"
    /\ LooksAtLedger
    /\ recoverable
    /\ pc' = "scan"
    /\ paused' = (paused \/ answer.label = "backpressure")
    /\ UNCHANGED <<op, attempt, recoverable, answer, uncertain, result, fate,
                   failures, successes>>

RecoveryIsOff ==
    /\ pc = "answered"
    /\ LooksAtLedger
    /\ ~recoverable
    /\ uncertain' = NowUncertain
    /\ RetryOrFail("other", uncertain')
    /\ paused' = (paused \/ answer.label = "backpressure")
    /\ UNCHANGED <<op, recoverable, answer, fate>>

ScanFound ==
    /\ pc = "scan"
    /\ fate[attempt] = "committed"
    /\ Return([kind |-> "ok", markers |-> {}])
    /\ RecordSuccess
    /\ UNCHANGED <<op, recoverable, answer, uncertain, fate, paused>>

\* A complete scan without the command: it may still be in flight.
ScanNotFound ==
    /\ pc = "scan"
    /\ fate[attempt] # "committed"
    /\ uncertain' = NowUncertain
    /\ RetryOrFail("other", uncertain')
    /\ UNCHANGED <<op, recoverable, answer, fate, paused>>

\* The ledger end or the updates could not be read to the end: stop.
ScanUnknown ==
    /\ pc = "scan"
    /\ Return(Err("outcomeUnknown", uncertain))
    /\ \E unreachable \in BOOLEAN : RecordFailure(unreachable)
    /\ UNCHANGED <<op, recoverable, answer, uncertain, fate, paused>>

\* DUPLICATE_COMMAND: one look at the ledger, then an error of its own kind.
Duplicate ==
    /\ pc = "answered"
    /\ answer.label = "duplicate"
    /\ \/ /\ recoverable
          /\ fate[attempt] = "committed"
          /\ Return([kind |-> "ok", markers |-> {}])
       \/ Return(Err("DUPLICATE_COMMAND", uncertain))
    /\ RecordSuccess
    /\ UNCHANGED <<op, recoverable, answer, uncertain, fate, paused>>

\* INACTIVE_CONTRACTS: a fresh prepare may pick live contracts, except for
\* background operations, which pin theirs.
Inactive ==
    /\ pc = "answered"
    /\ answer.label = "inactive"
    /\ \/ ~op.background /\ Retry
       \/ /\ Return(Err("INACTIVE_CONTRACTS", uncertain))
          /\ UNCHANGED <<failures, successes>>
    /\ UNCHANGED <<op, recoverable, answer, uncertain, fate, paused>>

\* Background housekeeping gives up on the first push-back or locked contract.
BackgroundGivesUp ==
    /\ pc = "answered"
    /\ op.background
    /\ answer.label \in {"backpressure", "locked"}
    /\ Return(Err("other", uncertain))
    /\ paused' = (paused \/ answer.label = "backpressure")
    /\ UNCHANGED <<op, recoverable, answer, uncertain, fate, failures, successes>>

\* A definite refusal: nothing was submitted, so a retry is safe.
Refused ==
    /\ pc = "answered"
    /\ answer.label \in {"backpressure", "locked", "other"}
    /\ answer.definite
    /\ ~(op.background /\ answer.label \in {"backpressure", "locked"})
    /\ RetryOrFail("other", uncertain)
    /\ paused' = (paused \/ answer.label = "backpressure")
    /\ UNCHANGED <<op, recoverable, answer, uncertain, fate>>

-----------------------------------------------------------------------------
ClientStep ==
    \/ RecordOffset
    \/ PrepareFails \/ VerifyFails \/ DryRun \/ Sign
    \/ Execute
    \/ Succeeded \/ Duplicate \/ Inactive \/ BackgroundGivesUp \/ Refused
    \/ StartRecovery \/ RecoveryIsOff
    \/ ScanFound \/ ScanNotFound \/ ScanUnknown

Next ==
    \/ ClientStep
    \/ \E c \in Attempts : LedgerDecides(c)

Spec == Init /\ [][Next]_vars

-----------------------------------------------------------------------------
TypeOK ==
    /\ op \in [background : BOOLEAN, dryRun : BOOLEAN, force : BOOLEAN]
    /\ pc \in {"start", "prepare", "execute", "answered", "scan", "done"}
    /\ attempt \in Attempts
    /\ recoverable \in BOOLEAN
    /\ answer \in Answers \cup {NoAnswer}
    /\ uncertain \in 0..MaxRetries
    /\ result \in [kind : {"none", "ok", "dryRun", "err"}, markers : SUBSET Markers]
    /\ fate \in [Attempts -> Fates]
    /\ failures \in Nat
    /\ successes \in Nat
    /\ paused \in BOOLEAN

\* accept_settle::outcome_unknown: the errors a caller must not take for a
\* definite failure.
OutcomeUnknown(r) ==
    r.markers \cap {"outcomeUnknown", "DUPLICATE_COMMAND"} # {}

Unsettled(c) == fate[c] \in {"inflight", "committed"}

\* An attempt left behind for a retry is either known not to have committed or
\* remembered as uncertain: no retry forgets a command that may still commit.
NoForgottenExecute ==
    \A c \in Attempts : c < attempt /\ Unsettled(c) => uncertain # 0

\* The breaker hears of one call at most once, and hears of every command the
\* ledger accepted as a success (the two comments "once per submit_transaction
\* call" in submit_attempts).
BreakerHearsOnce ==
    /\ failures + successes <= 1
    /\ result.kind = "ok" => successes = 1

Reported ==
    CASE result.kind = "none"   -> "pending"
      [] result.kind = "ok"     -> "ok"
      [] result.kind = "dryRun" -> "failed"
      [] result.kind = "err"    -> IF OutcomeUnknown(result) THEN "unknown"
                                   ELSE "failed"

Contract == INSTANCE SubmitContract
    WITH Commands <- Attempts, Once <- FALSE,
         effects <- Committed, report <- Reported

\* The call keeps the submit contract: success means committed, and an error
\* that is not marked as of unknown outcome means that no command of the call
\* has committed or ever will, however late the participant decides.
KeepsContract == Contract!Spec
=============================================================================
