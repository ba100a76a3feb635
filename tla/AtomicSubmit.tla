---------------------------- MODULE AtomicSubmit ----------------------------
(***************************************************************************)
(* AtomicProviderClient::submit_atomic_transaction (ledger_client.rs): the *)
(* submit loop of the AtomicDVP service.  That service offers no update    *)
(* scan, so an execute without a verdict ends the call at once, and a      *)
(* settle carries a signed deadline after which a retry is pointless.      *)
(* Commands and their fates are as in SubmitTransaction.                   *)
(***************************************************************************)
EXTENDS Naturals

CONSTANT MaxRetries     \* MAX_RETRIES: attempts of one call

ASSUME MaxRetriesAssumption == MaxRetries \in Nat \ {0}

VARIABLES
    op,          \* dry_run, force, and whether the operation has a deadline
    pc,
    attempt,     \* attempt_no
    closed,      \* the clock has passed the deadline less its safety margin
    answer,      \* what the last execute answered
    result,      \* what the call returned
    fate,        \* per attempt, what the ledger did with its command
    failures,    \* record_submit_failure calls
    successes,   \* record_submit_success calls
    paused       \* BACKGROUND_PAUSE_UNTIL_MS was pushed out

vars == <<op, pc, attempt, closed, answer, result, fate, failures, successes, paused>>

-----------------------------------------------------------------------------
Attempts == 1..MaxRetries

Labels == {"ok", "rpc", "backpressure", "duplicate", "inactive", "other"}

Answers == [label : Labels, definite : BOOLEAN]

NoAnswer == [label |-> "none", definite |-> FALSE]

Fates == {"none", "lost", "inflight", "committed"}

Errors == {"ATOMIC_EXECUTE_AMBIGUOUS", "QUOTE_WINDOW_CLOSED", "INACTIVE_CONTRACTS", "other"}

Results == {"none", "ok", "dryRun"} \cup Errors

\* What the participant can have done with a command that got this answer.
FatesOf(a) ==
    CASE a.label = "ok"        -> {"committed"}
      [] a.label = "duplicate" -> {"inflight", "committed"}
      [] a.label \in {"inactive", "backpressure"} -> {"lost"}
      [] a.label = "rpc"       -> {"lost", "inflight", "committed"}
      [] a.label = "other"     -> IF a.definite THEN {"lost"}
                                  ELSE {"lost", "inflight", "committed"}

Committed == {c \in Attempts : fate[c] = "committed"}

-----------------------------------------------------------------------------
Init ==
    /\ op \in [dryRun : BOOLEAN, force : BOOLEAN, deadline : BOOLEAN]
    /\ pc = "prepare"
    /\ attempt = 1
    /\ closed = FALSE
    /\ answer = NoAnswer
    /\ result = "none"
    /\ fate = [c \in Attempts |-> "none"]
    /\ failures = 0
    /\ successes = 0
    /\ paused = FALSE

Return(r) ==
    /\ pc' = "done"
    /\ result' = r
    /\ UNCHANGED attempt

RecordFailure(unreachable) ==
    /\ failures' = failures + (IF unreachable THEN 1 ELSE 0)
    /\ UNCHANGED successes

RecordSuccess ==
    /\ successes' = successes + 1
    /\ UNCHANGED failures

\* The quote's deadline margin is reached.  Only a settle has a deadline.
ClockPassesDeadline ==
    /\ op.deadline
    /\ ~closed
    /\ closed' = TRUE
    /\ UNCHANGED <<op, pc, attempt, answer, result, fate, failures, successes, paused>>

\* The loop head of a retry, after the backoff sleep.
LoopHead ==
    /\ pc = "retry"
    /\ IF closed THEN Return("QUOTE_WINDOW_CLOSED")
                 ELSE pc' = "prepare" /\ UNCHANGED <<attempt, result>>
    /\ UNCHANGED <<op, closed, answer, fate, failures, successes, paused>>

PrepareFails ==
    /\ pc = "prepare"
    /\ Return("other")
    /\ \E unreachable \in BOOLEAN : RecordFailure(unreachable)
    /\ UNCHANGED <<op, closed, answer, fate, paused>>

VerifyFails ==
    /\ pc = "prepare"
    /\ \E verdict \in {"error", "rejected"} :
          verdict = "rejected" => ~op.force /\ ~op.dryRun
    /\ Return("other")
    /\ UNCHANGED <<op, closed, answer, fate, failures, successes, paused>>

DryRun ==
    /\ pc = "prepare"
    /\ op.dryRun
    /\ Return("dryRun")
    /\ UNCHANGED <<op, closed, answer, fate, failures, successes, paused>>

Sign ==
    /\ pc = "prepare"
    /\ ~op.dryRun
    /\ pc' = "execute"
    /\ UNCHANGED <<op, attempt, closed, answer, result, fate, failures, successes, paused>>

Execute ==
    /\ pc = "execute"
    /\ answer' \in Answers
    /\ \E f \in FatesOf(answer') : fate' = [fate EXCEPT ![attempt] = f]
    /\ pc' = "answered"
    /\ UNCHANGED <<op, attempt, closed, result, failures, successes, paused>>

LedgerDecides(c) ==
    /\ fate[c] = "inflight"
    /\ \E f \in {"lost", "committed"} : fate' = [fate EXCEPT ![c] = f]
    /\ UNCHANGED <<op, pc, attempt, closed, answer, result, failures, successes, paused>>

-----------------------------------------------------------------------------
\* signal_sequencer_backpressure, before the answer is looked at further.
PauseOnBackpressure == paused' = (paused \/ answer.label = "backpressure")

Succeeded ==
    /\ pc = "answered"
    /\ answer.label = "ok"
    /\ Return("ok")
    /\ RecordSuccess
    /\ UNCHANGED <<op, closed, answer, fate, paused>>

\* A transport error, or a failure text that does not prove a refusal.
NoVerdict ==
    \/ answer.label = "rpc"
    \/ answer.label \in {"backpressure", "inactive", "other"} /\ ~answer.definite

\* Never retried: a fresh prepare could settle twice.
Ambiguous ==
    /\ pc = "answered"
    /\ NoVerdict
    /\ Return("ATOMIC_EXECUTE_AMBIGUOUS")
    /\ \E unreachable \in BOOLEAN : RecordFailure(unreachable)
    /\ PauseOnBackpressure
    /\ UNCHANGED <<op, closed, answer, fate>>

\* Mutant: DUPLICATE_COMMAND is taken for an ordinary failure.
DuplicateFails ==
    /\ pc = "answered"
    /\ answer.label = "duplicate"
    /\ Return("other")
    /\ RecordSuccess
    /\ UNCHANGED <<op, closed, answer, fate, paused>>

\* DUPLICATE_COMMAND: an earlier delivery of this command was taken.
Duplicate ==
    /\ pc = "answered"
    /\ answer.label = "duplicate"
    /\ Return("ATOMIC_EXECUTE_AMBIGUOUS")
    /\ RecordSuccess
    /\ UNCHANGED <<op, closed, answer, fate, paused>>

\* SubmitBudget::allows_retry, without the time it measures.
RetryAllowed == attempt < MaxRetries

Retry ==
    /\ RetryAllowed
    /\ attempt' = attempt + 1
    /\ pc' = "retry"
    /\ UNCHANGED <<result, failures, successes>>

\* A refusal while the window is open: INACTIVE_CONTRACTS re-prepares without
\* touching the breaker, any other refusal counts when it is the last.
Refused ==
    /\ pc = "answered"
    /\ ~NoVerdict
    /\ answer.label \in {"backpressure", "inactive", "other"}
    /\ ~closed
    /\ \/ Retry
       \/ /\ Return(IF answer.label = "inactive" THEN "INACTIVE_CONTRACTS" ELSE "other")
          /\ \E unreachable \in BOOLEAN :
                RecordFailure(unreachable /\ answer.label # "inactive")
    /\ PauseOnBackpressure
    /\ UNCHANGED <<op, closed, answer, fate>>

\* A refusal after the window has closed: the caller re-quotes.
RefusedTooLate ==
    /\ pc = "answered"
    /\ ~NoVerdict
    /\ answer.label \in {"backpressure", "inactive", "other"}
    /\ closed
    /\ Return("QUOTE_WINDOW_CLOSED")
    /\ PauseOnBackpressure
    /\ UNCHANGED <<op, closed, answer, fate, failures, successes>>

-----------------------------------------------------------------------------
ClientStep ==
    \/ LoopHead
    \/ PrepareFails \/ VerifyFails \/ DryRun \/ Sign
    \/ Execute
    \/ Succeeded \/ Ambiguous \/ Duplicate \/ Refused \/ RefusedTooLate

Next ==
    \/ ClientStep
    \/ ClockPassesDeadline
    \/ \E c \in Attempts : LedgerDecides(c)

Spec == Init /\ [][Next]_vars

-----------------------------------------------------------------------------
TypeOK ==
    /\ op \in [dryRun : BOOLEAN, force : BOOLEAN, deadline : BOOLEAN]
    /\ pc \in {"prepare", "execute", "answered", "retry", "done"}
    /\ attempt \in Attempts
    /\ closed \in BOOLEAN
    /\ answer \in Answers \cup {NoAnswer}
    /\ result \in Results
    /\ fate \in [Attempts -> Fates]
    /\ failures \in Nat
    /\ successes \in Nat
    /\ paused \in BOOLEAN

\* A retry starts only when no earlier command of the call is on the ledger or
\* on its way there: the double-fill guard of submit_atomic_with_retries.
OnlyOneLiveCommand ==
    \A c \in Attempts : c < attempt => fate[c] = "lost"

Reported ==
    CASE result = "none" -> "pending"
      [] result = "ok"   -> "ok"
      [] result = "ATOMIC_EXECUTE_AMBIGUOUS" -> "unknown"
      [] OTHER           -> "failed"

Contract == INSTANCE SubmitContract
    WITH Commands <- Attempts, Once <- TRUE,
         effects <- Committed, report <- Reported

\* The call commits at most once, and an error other than
\* ATOMIC_EXECUTE_AMBIGUOUS (QUOTE_WINDOW_CLOSED in particular) means nothing
\* has committed or ever will, so that the caller may re-quote at once.
KeepsContract == Contract!Spec
=============================================================================
