---------------------------- MODULE LedgerHealth ----------------------------
(* The ledger-submission circuit breaker (agent-logic/src/ledger_health.rs)   *)
(* and the quoting it pauses.  Its three values are separate atomics, so the  *)
(* steps of two submissions interleave between them.                         *)
EXTENDS Naturals

CONSTANTS
    Threads,          \* submissions that end at the same time
    Threshold,        \* LEDGER_UNHEALTHY_FAILURE_THRESHOLD
    Cooldown,         \* LEDGER_UNHEALTHY_COOLDOWN_SECS
    MaxBacklog        \* bound on settlements waiting for a submission

ASSUME HealthAssumption == {Threshold, Cooldown, MaxBacklog} \subseteq Nat \ {0}

VARIABLES
    failing,      \* CONSECUTIVE_FAILURES, which only matters up to the threshold
    coolLeft,     \* time until UNHEALTHY_UNTIL_MS
    since,        \* whether UNHEALTHY_SINCE_MS is set
    thread,       \* the next atomic access of each submission's report
    wasHealthy,   \* was_healthy of each failure report
    ledgerUp, backlog

healthVars == <<failing, coolLeft, since, thread, wasHealthy, ledgerUp, backlog>>

HealthInit ==
    /\ failing = 0 /\ coolLeft = 0 /\ since = FALSE
    /\ thread = [h \in Threads |-> "idle"] /\ wasHealthy = [h \in Threads |-> FALSE]
    /\ ledgerUp = TRUE /\ backlog = 0

At(h, from, to) == thread[h] = from /\ thread' = [thread EXCEPT ![h] = to]

\* is_unhealthy: the deadline alone, so the breaker opens again without a success.
Unhealthy == coolLeft > 0

\* The RFQ handler quotes only while healthy; a quote becomes a settlement.
Quote ==
    /\ ~Unhealthy /\ backlog < MaxBacklog /\ backlog' = backlog + 1
    /\ UNCHANGED <<failing, coolLeft, since, thread, wasHealthy, ledgerUp>>

\* A settlement's submission ends: the sequencer cannot be reached, or it answers
\* (is_sequencer_unreachable: a business rejection is an answer).
SubmissionEnds(h) ==
    /\ backlog > 0 /\ backlog' = backlog - 1
    /\ At(h, "idle", IF ledgerUp THEN "clear failures" ELSE "count")
    /\ UNCHANGED <<failing, coolLeft, since, wasHealthy, ledgerUp>>

(* record_submit_failure *)

Count(h) ==
    /\ At(h, "count", IF failing + 1 < Threshold THEN "idle" ELSE "look")
    /\ failing' = IF failing < Threshold THEN failing + 1 ELSE failing
    /\ UNCHANGED <<coolLeft, since, wasHealthy, ledgerUp, backlog>>

Look(h) ==
    /\ At(h, "look", "trip") /\ wasHealthy' = [wasHealthy EXCEPT ![h] = ~Unhealthy]
    /\ UNCHANGED <<failing, coolLeft, since, ledgerUp, backlog>>

\* fetch_max of the deadline: a new failure extends it.
Trip(h) ==
    /\ At(h, "trip", IF wasHealthy[h] THEN "date" ELSE "idle") /\ coolLeft' = Cooldown
    /\ UNCHANGED <<failing, since, wasHealthy, ledgerUp, backlog>>

Date(h) ==
    /\ At(h, "date", "idle") /\ since' = TRUE
    /\ UNCHANGED <<failing, coolLeft, wasHealthy, ledgerUp, backlog>>

(* record_submit_success *)

ClearFailures(h) ==
    /\ At(h, "clear failures", "clear deadline") /\ failing' = 0
    /\ UNCHANGED <<coolLeft, since, wasHealthy, ledgerUp, backlog>>

ClearDeadline(h) ==
    /\ At(h, "clear deadline", "clear date") /\ coolLeft' = 0
    /\ UNCHANGED <<failing, since, wasHealthy, ledgerUp, backlog>>

ClearDate(h) ==
    /\ At(h, "clear date", "idle") /\ since' = FALSE
    /\ UNCHANGED <<failing, coolLeft, wasHealthy, ledgerUp, backlog>>

(* Time and the ledger *)

\* Mutant: only a success closes the breaker; time does not.
TickStands == Unhealthy /\ UNCHANGED healthVars

\* The cooldown runs out by itself.
Tick ==
    /\ Unhealthy /\ coolLeft' = coolLeft - 1
    /\ UNCHANGED <<failing, since, thread, wasHealthy, ledgerUp, backlog>>

LedgerMoves ==
    /\ ledgerUp' = ~ledgerUp
    /\ UNCHANGED <<failing, coolLeft, since, thread, wasHealthy, backlog>>

Report(h) ==
    \/ Count(h) \/ Look(h) \/ Trip(h) \/ Date(h)
    \/ ClearFailures(h) \/ ClearDeadline(h) \/ ClearDate(h)

HealthNext ==
    \/ Quote \/ Tick \/ LedgerMoves
    \/ \E h \in Threads : SubmissionEnds(h) \/ Report(h)

(* Properties *)

\* A ledger that is back for good has the agent quoting again for good, though
\* quoting, the only source of submissions, had stopped (ledger_health.rs:17-22).
QuotingResumes == <>[]ledgerUp => <>[](~Unhealthy)

=============================================================================
