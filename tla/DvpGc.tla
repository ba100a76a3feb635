------------------------------- MODULE DvpGc -------------------------------
(* The collector of expired DVP proposals                                    *)
(* (cloud-agent/src/dvp_gc_worker.rs): scan the party's active proposals,     *)
(* queue the ones past their settle deadline by a margin, and archive them    *)
(* one transaction at a time behind a gate.                                  *)
EXTENDS Integers, FiniteSets, SequencesExt

CONSTANTS
    Proposals,
    RoleOf,           \* the party's part in each: "proposer", "counterparty" or "none"
    SettleBefore,     \* its settle deadline
    SafetyMargin,     \* DVP_GC_SAFETY_MARGIN_SECS
    MaxNow,           \* bound on the clock
    RejectEnabled,    \* DVP_GC_REJECT_ENABLED
    Poison,           \* proposals whose archival always fails
    MaxFaults,        \* bound on what goes wrong outside the worker
    MaxFailures       \* MAX_CONSECUTIVE_FAILURES

ASSUME GcAssumption ==
    /\ RoleOf \in [Proposals -> {"proposer", "counterparty", "none"}]
    /\ SettleBefore \in [Proposals -> Nat]
    /\ {SafetyMargin, MaxNow, MaxFaults} \subseteq Nat
    /\ RejectEnabled \in BOOLEAN /\ Poison \subseteq Proposals /\ MaxFailures \in Nat \ {0}

VARIABLES
    now,          \* the agent's clock
    live,         \* proposals active on the ledger
    gc,           \* where the worker is
    queue,        \* what this cycle has still to archive, oldest deadline first
    failures,     \* consecutive_failures
    pushedBack,   \* a SEQUENCER_BACKPRESSURE pause is in effect
    cheap,        \* the forecast coefficient is at least DVP_GC_MIN_COEFFICIENT
    faults,       \* what went wrong so far
    gcStopping

gcVars == <<now, live, gc, queue, failures, pushedBack, cheap, faults, gcStopping>>
gcEnv == <<now, live, pushedBack, cheap, gcStopping>>

GcInit ==
    /\ now = 0 /\ live = Proposals /\ gc = "client" /\ queue = <<>> /\ failures = 0
    /\ pushedBack = FALSE /\ cheap = TRUE /\ faults = 0 /\ gcStopping = FALSE

\* classify_proposal: past the deadline by more than the margin, and ours to
\* cancel or to reject
Eligible(p) ==
    /\ SettleBefore[p] < now - SafetyMargin
    /\ RoleOf[p] = "proposer" \/ (RoleOf[p] = "counterparty" /\ RejectEnabled)

Fault == faults < MaxFaults /\ faults' = faults + 1

\* Every sleep and every wait ends at once on shutdown, before anything else.
StopOr(places, step) ==
    /\ gc \in places
    /\ \/ gcStopping /\ gc' = "stopped" /\ UNCHANGED <<queue, failures>>
       \/ ~gcStopping /\ step
    /\ UNCHANGED <<gcEnv, faults>>

\* create_client; a failure waits and tries again.
CreateClient ==
    StopOr({"client"}, gc' = "scan" /\ UNCHANGED <<queue, failures>>)

\* scan within SCAN_TIMEOUT, sorted by the deadline; a failure waits out the refresh.
Scan ==
    StopOr({"scan"},
        /\ queue' = SetToSortSeq({p \in live : Eligible(p)},
                                 LAMBDA p, q : SettleBefore[p] < SettleBefore[q])
        /\ failures' = 0 /\ gc' = "gate")

ScanFails ==
    /\ gc = "scan" /\ ~gcStopping /\ Fault /\ gc' = "refresh"
    /\ UNCHANGED <<queue, failures, gcEnv>>

\* gate_block: the observed pause outranks the forecast.
GateShut == pushedBack \/ ~cheap

\* await_gate, on entry and at every poll
Proceed ==
    StopOr({"gate", "wait"}, queue # <<>> /\ ~GateShut /\ gc' = "archive" /\ UNCHANGED <<queue, failures>>)

GateWaits ==
    StopOr({"gate"}, queue # <<>> /\ GateShut /\ gc' = "wait" /\ UNCHANGED <<queue, failures>>)

\* The gate was shut for DVP_GC_MAX_PAUSE_SECS: leave the cycle and rescan at once.
GateTimesOut ==
    StopOr({"wait"}, GateShut /\ gc' = "client" /\ UNCHANGED <<queue, failures>>)

\* The queue is done: wait out the refresh interval.
CycleDone ==
    StopOr({"gate"}, queue = <<>> /\ gc' = "refresh" /\ UNCHANGED <<queue, failures>>)

Refreshed ==
    StopOr({"refresh"}, gc' = "client" /\ UNCHANGED <<queue, failures>>)

(* archive_one *)

Onward == gc' = "delay" /\ queue' = Tail(queue)

\* The choice is exercised.
Archived ==
    /\ gc = "archive" /\ Head(queue) \in live \ Poison
    /\ live' = live \ {Head(queue)} /\ failures' = 0 /\ Onward
    /\ UNCHANGED <<faults, now, pushedBack, cheap, gcStopping>>

\* is_already_gone: skipped, the count of failures stays.
AlreadyGone ==
    /\ gc = "archive" /\ Head(queue) \notin live /\ Onward
    /\ UNCHANGED <<failures, gcEnv, faults>>

\* SEQUENCER_BACKPRESSURE arms the pause and is no failure either.
PushedBack ==
    /\ gc = "archive" /\ Fault /\ pushedBack' = TRUE /\ Onward
    /\ UNCHANGED <<failures, now, live, cheap, gcStopping>>

\* Mutant: the first failure abandons the cycle.
ArchiveFailsOnce ==
    /\ gc = "archive" /\ Head(queue) \in live
    /\ Fault \/ (Head(queue) \in Poison /\ UNCHANGED faults)
    /\ failures' = failures + 1 /\ gc' = "refresh" /\ queue' = <<>>
    /\ UNCHANGED gcEnv

\* Any other error: MaxFailures in a row abandon the cycle until the next refresh.
ArchiveFails ==
    /\ gc = "archive" /\ Head(queue) \in live
    /\ Fault \/ (Head(queue) \in Poison /\ UNCHANGED faults)
    /\ failures' = failures + 1
    /\ IF failures + 1 >= MaxFailures THEN gc' = "refresh" /\ queue' = <<>> ELSE Onward
    /\ UNCHANGED gcEnv

Delayed == StopOr({"delay"}, gc' = "gate" /\ UNCHANGED <<queue, failures>>)

(* The environment *)

\* Time passes; the forecast moves; the sequencer's pause begins with another
\* submission and ends by itself; a counterparty accepts a proposal before its
\* deadline; the agent is asked to stop.
TimePasses == now < MaxNow /\ now' = now + 1 /\ UNCHANGED <<live, gc, queue, failures, pushedBack, cheap, faults, gcStopping>>
ForecastMoves == cheap' = ~cheap /\ (IF cheap THEN Fault ELSE UNCHANGED faults) /\ UNCHANGED <<now, live, gc, queue, failures, pushedBack, gcStopping>>
PauseMoves == pushedBack' = ~pushedBack /\ (IF pushedBack THEN UNCHANGED faults ELSE Fault) /\ UNCHANGED <<now, live, gc, queue, failures, cheap, gcStopping>>
Accepted(p) ==
    /\ p \in live /\ now <= SettleBefore[p] /\ live' = live \ {p}
    /\ UNCHANGED <<now, gc, queue, failures, pushedBack, cheap, faults, gcStopping>>
GcStop == ~gcStopping /\ gcStopping' = TRUE /\ UNCHANGED <<now, live, gc, queue, failures, pushedBack, cheap, faults>>

GcStep ==
    \/ CreateClient \/ Scan \/ ScanFails \/ Proceed \/ GateWaits \/ GateTimesOut \/ CycleDone \/ Refreshed
    \/ Archived \/ AlreadyGone \/ PushedBack \/ ArchiveFails \/ Delayed

GcNext ==
    \/ GcStep \/ TimePasses \/ ForecastMoves \/ PauseMoves \/ GcStop
    \/ \E p \in Proposals : Accepted(p)

(* Properties *)

\* A proposal the worker may archive is archived in the end, whatever the gate,
\* refused submissions and failing neighbours do, while fewer than MaxFailures of
\* the others can never be archived (dvp_gc_worker.rs:368-432).
ExpiredIsCollected ==
    \A p \in Proposals \ Poison : (p \in live /\ Eligible(p)) ~> (p \notin live \/ gcStopping)

=============================================================================
