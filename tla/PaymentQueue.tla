---------------------------- MODULE PaymentQueue ----------------------------
(* The payment queue of the cloud agent (cloud-agent/src/payment_queue.rs):  *)
(* settlements submit allocations and fees and wait for the result; one      *)
(* scheduler task pops them by priority, reserves the holdings an allocation *)
(* spends and hands each payment to a worker of its own pool.                *)
EXTENDS Selection

CONSTANTS
    Payments,
    KindOf,           \* what each asks for: "fee", "cc" or "cip56"
    CcNeed,           \* the CC amount of each "cc" allocation
    Amulets, FirstAmulets,    \* every holding that may exist, and those that do at the start
    AmountOf,
    ReserveTier,      \* holdings set aside for the splitter
    AllocWorkers, FeeWorkers,
    RebuildAfter,     \* CHANNEL_REBUILD_AFTER
    SelectionMargin,  \* AMULET_SELECTION_MARGIN
    NoOne, Other      \* an unreserved holding; one reserved by another worker

ASSUME PaymentsAssumption ==
    /\ KindOf \in [Payments -> {"fee", "cc", "cip56"}]
    /\ CcNeed \in [Payments -> Nat]
    /\ FirstAmulets \cup ReserveTier \subseteq Amulets
    /\ AmountOf \in [Amulets -> Nat]
    /\ {AllocWorkers, FeeWorkers, RebuildAfter} \subseteq Nat \ {0}
    /\ NoOne # Other /\ {NoOne, Other} \cap Payments = {}

VARIABLES
    caller,       \* what the settlement that submitted each payment is doing
    order,        \* the sequence number of each queued payment
    inbox,        \* the unbounded channel
    heap, deferred,
    sched,        \* where the scheduler is
    item, picked, \* the payment it is dispatching and the holdings chosen for it
    dispatched,   \* dispatched_any of this pass
    channel,      \* whether the shared gRPC channel exists
    streak,       \* its workers' timeouts in a row
    worker,       \* what each payment's worker is doing
    held,         \* the holdings its ReservationGuard names
    reservedBy,   \* the cache's reservations
    cached,       \* holdings the cache offers
    stopping      \* the shutdown signal

payVars == <<caller, order, inbox, heap, deferred, sched, item, picked, dispatched, channel,
             streak, worker, held, reservedBy, cached, stopping>>
queueVars == <<order, inbox, heap, deferred, sched, item, picked, dispatched>>
cacheVars == <<reservedBy, cached>>
channelVars == <<channel, streak>>

Allocation(p) == KindOf[p] # "fee"
Waiting(p) == caller[p] = "waiting"
Running(p) == worker[p] = "running"

PaymentInit ==
    /\ caller = [p \in Payments |-> "idle"] /\ order = [p \in Payments |-> 0]
    /\ inbox = {} /\ heap = {} /\ deferred = {}
    /\ sched = "top" /\ item = NoOne /\ picked = {} /\ dispatched = FALSE
    /\ channel = FALSE /\ streak = 0
    /\ worker = [p \in Payments |-> "none"] /\ held = [p \in Payments |-> {}]
    /\ reservedBy = [a \in Amulets |-> NoOne] /\ cached = FirstAmulets
    /\ stopping = FALSE

(* Callers *)

\* submit_pay_fee and submit_allocate: a stopped scheduler's channel is closed.
Submit(p) ==
    /\ caller[p] = "idle"
    /\ IF sched = "stopped"
       THEN caller' = [caller EXCEPT ![p] = "answered"] /\ UNCHANGED <<order, inbox>>
       ELSE /\ caller' = [caller EXCEPT ![p] = "waiting"]
            /\ order' = [order EXCEPT ![p] = Max({order[q] : q \in Payments}) + 1]
            /\ inbox' = inbox \cup {p}
    /\ UNCHANGED <<heap, deferred, sched, item, picked, dispatched, channelVars, worker, held,
                   cacheVars, stopping>>

\* await_response after PAYMENT_WAIT
GivesUp(p) ==
    /\ Waiting(p)
    /\ caller' = [caller EXCEPT ![p] = "left"]
    /\ UNCHANGED <<queueVars, channelVars, worker, held, cacheVars, stopping>>

(* The scheduler *)

\* Its return drops what is queued, and with it the senders the callers wait on.
StopScheduler ==
    /\ order' = [p \in Payments |-> 0]
    /\ sched' = "stopped" /\ inbox' = {} /\ heap' = {} /\ deferred' = {} /\ item' = NoOne /\ picked' = {}
    /\ caller' = [p \in Payments |-> IF p \in inbox \cup heap \cup deferred /\ Waiting(p)
                                     THEN "answered" ELSE caller[p]]
    /\ UNCHANGED <<dispatched, channelVars, worker, held, cacheVars, stopping>>

\* The loop's head: leave on shutdown, wait for a payment when there is none, take
\* every one that is there.
Collect ==
    /\ sched = "top"
    /\ \/ stopping /\ StopScheduler
       \/ /\ ~stopping /\ heap \cup inbox # {}
          /\ heap' = heap \cup inbox /\ inbox' = {} /\ sched' = "channel"
          /\ UNCHANGED <<caller, order, deferred, item, picked, dispatched, channelVars, worker,
                         held, cacheVars, stopping>>

\* SharedChannel::get drops the channel once RebuildAfter workers in a row timed
\* out on it; a new one starts a streak of its own.
Worn == streak >= RebuildAfter

GetChannel ==
    /\ sched = "channel"
    /\ channel' = TRUE /\ streak' = IF channel /\ ~Worn THEN streak ELSE 0
    /\ sched' = "dispatch" /\ dispatched' = FALSE
    /\ UNCHANGED <<caller, order, inbox, heap, deferred, item, picked, worker, held, cacheVars, stopping>>

\* The connection fails: five seconds later the loop's head leaves on shutdown or
\* takes what came in, and tries again.
GetChannelFails ==
    /\ sched = "channel" /\ (Worn \/ ~channel)
    /\ \/ stopping /\ StopScheduler
       \/ /\ ~stopping /\ channel' = FALSE /\ streak' = IF Worn THEN 0 ELSE streak
          /\ heap' = heap \cup inbox /\ inbox' = {}
          /\ UNCHANGED <<caller, order, deferred, sched, item, picked, dispatched, worker, held,
                         cacheVars, stopping>>

\* QueuedPayment's order: allocations first, then first come first served.
Before(p, q) == IF Allocation(p) = Allocation(q) THEN order[p] < order[q] ELSE Allocation(p)
Foremost(p) == \A q \in heap \ {p} : Before(p, q)

\* payment_target, or None: an amount, or its fee margin, beyond the Decimal range
PaymentTarget(p) ==
    LET cc == IF KindOf[p] = "cc" THEN CcNeed[p] + SelectionMargin ELSE 0
    IN  IF cc > MaxDecimal \/ WithFeeMargin(cc) = None THEN None ELSE cc

\* Mutant: any payment nobody waits for is dropped, a fee too.
DroppedUnpaid(p) == caller[p] = "left"
\* screen: an allocation nobody waits for leaves the queue
Dropped(p) == caller[p] = "left" /\ Allocation(p)

FreeAmulets == {a \in cached : reservedBy[a] = NoOne}

\* The holdings for a CC allocation: the splitter's reserve only when the rest falls short
PickFor(p) ==
    LET own == SelectForAllocation(FreeAmulets \ ReserveTier, AmountOf, PaymentTarget(p))
    IN  IF KindOf[p] # "cc" THEN {}
        ELSE IF own # {} THEN own
        ELSE SelectForAllocation(FreeAmulets, AmountOf, PaymentTarget(p))

\* selection_short, and no holdings at all, for a payment that needs some
Short(p, S) ==
    PaymentTarget(p) > 0 /\ (S = {} \/ (KindOf[p] = "cc" /\ Total(S, AmountOf) < PaymentTarget(p)))

Leaves(p) == order' = [order EXCEPT ![p] = 0]

Pop ==
    /\ sched = "dispatch"
    /\ \E p \in heap :
       /\ Foremost(p)
       /\ heap' = heap \ {p}
       /\ \/ /\ Dropped(p) /\ Leaves(p)
             /\ UNCHANGED <<caller, deferred, sched, item, picked>>
          \/ /\ ~Dropped(p) /\ PaymentTarget(p) = None /\ Leaves(p)
             /\ caller' = [caller EXCEPT ![p] = IF @ = "waiting" THEN "answered" ELSE @]
             /\ UNCHANGED <<deferred, sched, item, picked>>
          \/ /\ ~Dropped(p) /\ PaymentTarget(p) # None /\ Short(p, PickFor(p))
             /\ deferred' = deferred \cup {p}
             /\ UNCHANGED <<caller, order, sched, item, picked>>
          \/ /\ ~Dropped(p) /\ PaymentTarget(p) # None /\ ~Short(p, PickFor(p))
             /\ item' = p /\ picked' = PickFor(p) /\ sched' = "reserve"
             /\ UNCHANGED <<caller, order, deferred>>
    /\ UNCHANGED <<inbox, dispatched, channelVars, worker, held, cacheVars, stopping>>

\* Reserving is all or nothing; another worker may have come first.
ReservePicked ==
    /\ sched = "reserve"
    /\ IF picked \subseteq FreeAmulets
       THEN /\ reservedBy' = [a \in Amulets |-> IF a \in picked THEN item ELSE reservedBy[a]]
            /\ sched' = "permit" /\ UNCHANGED <<deferred, item, picked>>
       ELSE /\ deferred' = deferred \cup {item}
            /\ sched' = "dispatch" /\ item' = NoOne /\ picked' = {} /\ UNCHANGED reservedBy
    /\ UNCHANGED <<caller, order, inbox, heap, dispatched, channelVars, worker, held, cached,
                   stopping>>

GiveBack(S) == reservedBy' = [a \in Amulets |-> IF a \in S THEN NoOne ELSE reservedBy[a]]

\* Each kind of payment has a pool of its own.
PoolFull(p) ==
    LET pool == {q \in Payments : Running(q) /\ (Allocation(q) <=> Allocation(p))}
    IN  Cardinality(pool) >= IF Allocation(p) THEN AllocWorkers ELSE FeeWorkers

\* The worker takes the permit and a guard over the holdings; with no permit they
\* are released and the payment waits for the next pass.
Permit ==
    /\ sched = "permit"
    /\ IF PoolFull(item)
       THEN GiveBack(picked) /\ deferred' = deferred \cup {item} /\ UNCHANGED <<order, dispatched, worker, held>>
       ELSE /\ Leaves(item) /\ worker' = [worker EXCEPT ![item] = "running"]
            /\ held' = [held EXCEPT ![item] = picked]
            /\ dispatched' = TRUE /\ UNCHANGED <<deferred, reservedBy>>
    /\ sched' = "dispatch" /\ item' = NoOne /\ picked' = {}
    /\ UNCHANGED <<caller, inbox, heap, channelVars, cached, stopping>>

\* Deferred payments go back; a pass that dispatched nothing backs off first.
EndPass ==
    /\ sched = "dispatch" /\ heap = {}
    /\ heap' = deferred /\ deferred' = {}
    /\ sched' = IF ~dispatched /\ deferred # {} THEN "backoff" ELSE "top"
    /\ UNCHANGED <<caller, order, inbox, item, picked, dispatched, channelVars, worker, held,
                   cacheVars, stopping>>

\* Five seconds, cut short by shutdown or by a new payment
Backoff ==
    /\ sched = "backoff"
    /\ \/ stopping /\ StopScheduler
       \/ /\ ~stopping /\ sched' = "top"
          /\ \/ UNCHANGED <<heap, inbox>>
             \/ \E p \in inbox : heap' = heap \cup {p} /\ inbox' = inbox \ {p}
          /\ UNCHANGED <<caller, order, deferred, item, picked, dispatched, channelVars, worker,
                         held, cacheVars, stopping>>

(* Workers *)

\* TimeoutStreak::record: a result, a timeout (as a worker past
\* PAYMENT_WORKER_TIMEOUT is, whatever its result), or the end of a worker of an
\* earlier channel, which counts on that one's streak.
Record == streak' \in {0, Min({streak + 1, RebuildAfter}), streak}

\* The end of a worker: the permit and the guard go, the caller is answered if it
\* still waits.
Ends(p) ==
    /\ worker' = [worker EXCEPT ![p] = "done"] /\ held' = [held EXCEPT ![p] = {}]
    /\ caller' = [caller EXCEPT ![p] = IF @ = "waiting" THEN "answered" ELSE @]
    /\ UNCHANGED <<queueVars, channel, stopping>>

\* execute_pay_fee: paid, refused at the prompt, a dry run or an error
FeeEnds(p) ==
    /\ Running(p) /\ ~Allocation(p) /\ Ends(p)
    /\ Record
    /\ UNCHANGED cacheVars

\* execute_allocate succeeds: process_tx_result takes the inputs out of the cache
\* and puts the change in.
AllocateSucceeds(p) ==
    /\ Running(p) /\ Allocation(p) /\ Ends(p) /\ Record
    /\ \E change \in SUBSET (Amulets \ cached) :
         cached' = (cached \ held[p]) \cup (IF held[p] = {} THEN {} ELSE change)
    /\ GiveBack(held[p])

\* INACTIVE_CONTRACTS: every input is taken out of the cache, whichever was stale.
AllocateInactive(p) ==
    /\ Running(p) /\ Allocation(p) /\ Ends(p) /\ Record
    /\ cached' = cached \ held[p] /\ GiveBack(held[p])

\* Mutant: an error leaves the reservation in place.
AllocateFailsKeeps(p) ==
    /\ Running(p) /\ Allocation(p) /\ Ends(p) /\ Record
    /\ UNCHANGED cacheVars

\* Any other error, a refused prompt or a client that cannot be made: the inputs are
\* released, though the transaction may have landed all the same.
AllocateFails(p) ==
    /\ Running(p) /\ Allocation(p) /\ Ends(p) /\ Record
    /\ GiveBack(held[p]) /\ UNCHANGED cached

\* A panic unwinds through the guard; nothing is recorded and the caller's channel closes.
WorkerPanics(p) ==
    /\ Running(p) /\ Ends(p) /\ GiveBack(held[p]) /\ UNCHANGED <<streak, cached>>

(* The rest of the agent *)

\* Other workers reserve holdings of the same cache, then spend them or let them go;
\* snapshots and the update stream change what it offers.
OtherReserves(a) ==
    /\ a \in FreeAmulets /\ reservedBy' = [reservedBy EXCEPT ![a] = Other]
    /\ UNCHANGED <<caller, queueVars, channelVars, worker, held, cached, stopping>>

OtherEnds(a) ==
    /\ reservedBy[a] = Other /\ reservedBy' = [reservedBy EXCEPT ![a] = NoOne]
    /\ cached' \in {cached, cached \ {a}}
    /\ UNCHANGED <<caller, queueVars, channelVars, worker, held, stopping>>

Appears(a) ==
    /\ a \notin cached /\ cached' = cached \cup {a}
    /\ UNCHANGED <<caller, queueVars, channelVars, worker, held, reservedBy, stopping>>

\* PaymentQueue::shutdown, or the agent's own signal
SignalStop ==
    /\ ~stopping /\ stopping' = TRUE
    /\ UNCHANGED <<caller, queueVars, channelVars, worker, held, cacheVars>>

Schedule == Collect \/ GetChannel \/ Pop \/ ReservePicked \/ Permit \/ EndPass \/ Backoff
WorkerEnds(p) ==
    FeeEnds(p) \/ AllocateSucceeds(p) \/ AllocateInactive(p) \/ AllocateFails(p) \/ WorkerPanics(p)

PaymentNext ==
    \/ \E p \in Payments : Submit(p) \/ GivesUp(p) \/ WorkerEnds(p)
    \/ Schedule \/ GetChannelFails
    \/ \E a \in Amulets : OtherReserves(a) \/ OtherEnds(a) \/ Appears(a)
    \/ SignalStop

PaymentSpec == PaymentInit /\ [][PaymentNext]_payVars

(* Properties *)

\* A holding reserved for a payment belongs to its running worker, or to the
\* scheduler between the reservation and the permit: no path through a full pool,
\* an error, a panic or a shutdown leaves one behind (payment_queue.rs:491-540).
ReservationsOwned ==
    \A a \in Amulets : reservedBy[a] \in Payments =>
        LET p == reservedBy[a]
        IN  (Running(p) /\ a \in held[p]) \/ (sched = "permit" /\ item = p /\ a \in picked)

\* A fee reaches a worker though allocations wait for holdings ahead of it, pools
\* fill up, and its caller stops waiting (payment_queue.rs:103-104, 462-463).
FeesServed ==
    \A p \in {q \in Payments : ~Allocation(q)} : (p \in inbox) ~> (worker[p] # "none" \/ sched = "stopped")

=============================================================================
