----------------------------- MODULE MCWorkers -----------------------------
(* Small instances of the background workers, and of the merge worker with    *)
(* the holdings cache, its snapshots and its watcher.  They share only the    *)
(* signal to stop, which each models by itself, so each initial state runs    *)
(* one of them while the others stand still.                                  *)
EXTENDS PaymentQueue, TopUp, DvpGc, Supervise, LedgerHealth, HoldingsCache, TLC

CONSTANTS a1, a2, f1, x1, p0, p1, p2, r1, e1, l1, h1, h2, c1, c2, c3, merge

VARIABLE part     \* the worker that runs

MCKindOf == a1 :> "cip56" @@ a2 :> "cc" @@ f1 :> "fee"
MCCcNeed == a1 :> 0 @@ a2 :> 1 @@ f1 :> 0
MCAmountOf == x1 :> 3
MCRoleOf == p0 :> "proposer" @@ p1 :> "counterparty" @@ p2 :> "proposer"
MCSettleBefore == p0 :> 0 @@ p1 :> 1 @@ p2 :> 2
MCRank == c1 :> 1 @@ c2 :> 2 @@ c3 :> 3
MCKind == merge :> "merge"
MCPolicyOf == r1 :> "Restart" @@ e1 :> "Escalate" @@ l1 :> "LogOnly"

\* The other workers stand still.
Rest ==
    /\ IF part = "payments" THEN TRUE ELSE UNCHANGED payVars
    /\ IF part = "topup" THEN TRUE ELSE UNCHANGED topVars
    /\ IF part = "gc" THEN TRUE ELSE UNCHANGED gcVars
    /\ IF part = "supervisor" THEN TRUE ELSE UNCHANGED superVars
    /\ IF part = "breaker" THEN TRUE ELSE UNCHANGED healthVars
    /\ IF part = "cache" THEN TRUE ELSE UNCHANGED vars
    /\ UNCHANGED part

WorkersInit ==
    /\ part \in {"payments", "topup", "gc", "supervisor", "breaker", "cache"}
    /\ Init /\ PaymentInit /\ TopupInit /\ GcInit /\ SuperInit /\ HealthInit

WorkersNext ==
    \/ part = "payments" /\ PaymentNext /\ Rest
    \/ part = "topup" /\ TopupNext /\ Rest
    \/ part = "gc" /\ GcNext /\ Rest
    \/ part = "supervisor" /\ SuperNext /\ Rest
    \/ part = "breaker" /\ HealthNext /\ Rest
    \/ part = "cache" /\ Next /\ Rest

\* The payment scheduler's task runs on, and a worker's submit has a budget.
PaymentFairness ==
    /\ WF_payVars(part = "payments" /\ Schedule)
    /\ \A p \in Payments : WF_payVars(part = "payments" /\ WorkerEnds(p))

\* The collector runs on; the pause ends by itself and the forecast recovers.
GcFairness ==
    /\ WF_gcVars(part = "gc" /\ GcStep)
    /\ WF_gcVars(part = "gc" /\ ~cheap /\ ForecastMoves)
    /\ WF_gcVars(part = "gc" /\ pushedBack /\ PauseMoves)

\* Tasks are scheduled; one that is told to stop looks at the signal in the end.
SuperFairness ==
    /\ \A t \in Tasks : /\ WF_superVars(part = "supervisor" /\ Start(t))
                        /\ WF_superVars(part = "supervisor" /\ Notices(t))
                        /\ WF_superVars(part = "supervisor" /\ BackoffOver(t))
    /\ WF_superVars(part = "supervisor" /\ StartCycle) /\ WF_superVars(part = "supervisor" /\ WaitCycle)

\* Clients keep asking for quotes, submissions end, their reports run on, time passes.
HealthFairness ==
    /\ WF_healthVars(part = "breaker" /\ Quote) /\ WF_healthVars(part = "breaker" /\ Tick)
    /\ \A h \in Threads : /\ WF_healthVars(part = "breaker" /\ SubmissionEnds(h))
                          /\ WF_healthVars(part = "breaker" /\ Report(h))

\* The ACS worker is supervised and restarts, so it keeps fetching; of the network, that
\* not every fetch fails and not every snapshot is truncated (SF); of the watcher, nothing.
CacheFairness ==
    /\ WF_vars(part = "cache" /\ StartFetch)
    /\ SF_vars(part = "cache" /\ ReadSnapshot) /\ SF_vars(part = "cache" /\ ApplyComplete)

WorkersSpec ==
    /\ WorkersInit /\ [][WorkersNext]_<<payVars, topVars, gcVars, superVars, healthVars, vars, part>>
    /\ PaymentFairness /\ GcFairness /\ SuperFairness /\ HealthFairness /\ CacheFairness

\* Once a holding is created or spent the cache finds out, whatever was lost, replayed
\* or reordered on the way: the refresh of the ACS worker alone repairs it, even when the
\* watcher delivers nothing more.  No holding stays wrongly selectable or wrongly
\* invisible for good.
CacheIsTruthful == part = "cache" => EventuallyTruthful

=============================================================================
