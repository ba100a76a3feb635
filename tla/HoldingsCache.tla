--------------------------- MODULE HoldingsCache ----------------------------
(***************************************************************************)
(* The shared holdings cache of the cloud agent (holdings_cache.rs) and    *)
(* everyone who writes to it: the ACS worker that merges ledger snapshots  *)
(* (acs_worker.rs), the updates watcher that applies ledger events         *)
(* (updates_worker.rs), payment workers (payment_queue.rs), the split and  *)
(* merge workers, and RFQ V2 quotes (rfq_v2.rs).                           *)
(*                                                                         *)
(* The ledger is external.  It is the only place where a holding really    *)
(* exists; the cache's pools are opinions about it, formed from snapshots, *)
(* events and transaction results that arrive late and out of order.       *)
(*                                                                         *)
(* There is no clock.  Time enters where the code compares instants:       *)
(*   - recent: entries whose discovered_at is after the start of the       *)
(*     running snapshot fetch, the merge boundary of a refresh;            *)
(*   - oldPending: pending splits recorded before that start;              *)
(*   - expired: reservations past their TTL;                               *)
(*   - TTL-stale entries are guessed afresh by every selection.            *)
(***************************************************************************)
EXTENDS Naturals, FiniteSets

CONSTANTS
    Cids,           \* contract ids, each created and archived at most once
    Initial,        \* the holdings that exist when the agent starts
    Rank,           \* a holding's place in the (amount, contract id) order
    CC,             \* the cids that are Canton Coin amulets
    Jobs,           \* workers and quotes that take inputs from the cache
    Crews,          \* the sets of jobs a configuration may enable
    Kind,           \* per job: "payment", "split", "merge" or "quote"
    NoJob,
    MaxInputs,      \* bound: inputs of one job
    MaxOutputs,     \* bound: outputs of one transaction
    WorkersMeetTTL, \* whether every worker ends before its reservation expires
    SweepMeetsTTL   \* whether the quote sweep runs before an expired quote's
                    \* inputs are reserved again

Kinds == {"payment", "split", "merge", "quote"}

ASSUME CacheAssumption ==
    /\ Initial \subseteq Cids
    /\ CC \subseteq Cids
    /\ Rank \in [Cids -> Nat]
    /\ \A c, d \in Cids : Rank[c] = Rank[d] => c = d
    /\ Kind \in [Jobs -> Kinds]
    /\ Crews \subseteq SUBSET Jobs
    /\ NoJob \notin Jobs
    /\ WorkersMeetTTL \in BOOLEAN
    /\ SweepMeetsTTL \in BOOLEAN

VARIABLES
    \* the ledger (external)
    active,     \* holdings that exist
    born,       \* holdings that exist or have existed
    \* the cache
    available,  \* HoldingsCache::available
    recent,     \* entries discovered since the running fetch started
    blobs,      \* entries whose created_event_blob is known
    consumed,   \* HoldingsCache::consumed
    holder,     \* HoldingsCache::reserved, per cid its owner or NoJob
    expired,    \* reservations past their TTL
    pending,    \* HoldingsCache::pending_splits, by the job that recorded them
    oldPending, \* pending splits recorded before the running fetch started
    \* the workers
    acs,        \* the ACS worker: "idle", "fetching", "fetched"
    snap,       \* the active contracts its fetch read
    watched,    \* per cid, how far the updates watcher has read its events
    phase,      \* per job
    inputs,     \* per job, the cids it selected
    outputs,    \* per job, the cids its committed transaction created
    answer,     \* per job, what its submit returned
    observed    \* quotes for which SettleObserved was sent

ledgerVars == <<active, born>>
poolVars   == <<available, recent, blobs, consumed>>
resVars    == <<holder, expired>>
splitVars  == <<pending, oldPending>>
acsVars    == <<acs, snap>>
jobVars    == <<phase, inputs, outputs, answer>>

vars == <<active, born, available, recent, blobs, consumed, holder,
          expired, pending, oldPending, acs, snap, watched, phase, inputs, outputs,
          answer, observed>>

-----------------------------------------------------------------------------
Phases == {"idle", "picked", "reserved", "sent", "answered", "marked", "over", "done"}

Answers == {"none", "ok", "inactive", "failed"}

\* The update stream, kept per holding: its created and its archived event.
\* Events of different holdings commute in the cache, so their order across
\* holdings is left open; the two events of one holding are read in order.
Progress == {"none", "created", "archived"}

\* A job that has its reservation and has not yet settled it.
InFlight(j) == phase[j] \in {"reserved", "sent", "answered"}

Reserved(c) == holder[c] # NoJob /\ c \notin expired

\* splitter_reserve_cid: the largest entry of the instrument that is neither
\* consumed nor TTL-stale; reservations do not matter.
IsSplitterReserve(c, pool, stale) ==
    LET candidates == (available \cap pool) \ (consumed \cup stale) IN
    /\ c \in candidates
    /\ \A d \in candidates : Rank[d] <= Rank[c]

\* get_selectable, with the reserve excluded or not.
Selectable(pool, stale, excludeReserve) ==
    {c \in (available \cap pool) \ (consumed \cup stale) :
        /\ ~Reserved(c)
        /\ excludeReserve => ~IsSplitterReserve(c, pool, stale)}

\* The instruments: Canton Coin and the one other token of the model.
Pools == {CC, Cids \ CC}

-----------------------------------------------------------------------------
Init ==
    /\ active = Initial
    /\ born = Initial
    /\ available = {}
    /\ recent = {}
    /\ blobs = {}
    /\ consumed = {}
    /\ holder = [c \in Cids |-> NoJob]
    /\ expired = {}
    /\ pending = {}
    /\ oldPending = {}
    /\ acs = "idle"
    /\ snap = {}
    /\ watched = [c \in Cids |-> IF c \in Initial THEN "created" ELSE "none"]
    /\ \E crew \in Crews :
          phase = [j \in Jobs |-> IF j \in crew THEN "idle" ELSE "done"]
    /\ inputs = [j \in Jobs |-> {}]
    /\ outputs = [j \in Jobs |-> {}]
    /\ answer = [j \in Jobs |-> "none"]
    /\ observed = {}

-----------------------------------------------------------------------------
(* Operations on the pools.                                                *)

\* add_created from an event or a transaction result: the entries are
\* (over)written, discovered now and blob-pending.
AddCreated(cids) ==
    /\ available' = available \cup cids
    /\ recent' = IF acs = "idle" THEN {} ELSE recent \cup cids
    /\ blobs' = blobs \ cids

\* mark_consumed: from reserved to consumed; available is left alone.
MarkConsumed(cids) ==
    /\ consumed' = consumed \cup cids
    /\ holder' = [c \in Cids |-> IF c \in cids THEN NoJob ELSE holder[c]]
    /\ expired' = expired \ cids

\* release_reservations: by cid, whoever holds it.
ReleaseReservations(cids) ==
    /\ holder' = [c \in Cids |-> IF c \in cids THEN NoJob ELSE holder[c]]
    /\ expired' = expired \ cids

-----------------------------------------------------------------------------
(* The ledger.                                                             *)

\* A holding arrives from outside: a deposit, a transfer, the faucet.
Deposit(c) ==
    /\ c \notin born
    /\ active' = active \cup {c}
    /\ born' = born \cup {c}
    /\ UNCHANGED <<poolVars, resVars, splitVars, acsVars, watched, jobVars, observed>>

\* One transaction: the inputs are archived and the outputs created.
Transact(ins, outs) ==
    /\ ins \subseteq active
    /\ outs \cap born = {}
    /\ active' = (active \ ins) \cup outs
    /\ born' = born \cup outs

-----------------------------------------------------------------------------
(* The ACS worker.                                                         *)

\* fetch_holdings: `started` is taken just before the call.
StartFetch ==
    /\ acs = "idle"
    /\ acs' = "fetching"
    /\ recent' = {}
    /\ oldPending' = pending
    /\ UNCHANGED <<ledgerVars, available, blobs, consumed, resVars, pending,
                   snap, watched, jobVars, observed>>

\* The participant answers with the contracts active at one offset.
ReadSnapshot ==
    /\ acs = "fetching"
    /\ acs' = "fetched"
    /\ snap' = active
    /\ UNCHANGED <<ledgerVars, poolVars, resVars, splitVars, watched, jobVars, observed>>

\* cleanup_expired_reservations ends every cycle but a shutdown.
CleanupExpired ==
    /\ holder' = [c \in Cids |-> IF c \in expired THEN NoJob ELSE holder[c]]
    /\ expired' = {}

EndCycle ==
    /\ acs' = "idle"
    /\ snap' = {}
    /\ oldPending' = {}
    /\ CleanupExpired

FetchFails ==
    /\ acs = "fetching"
    /\ recent' = {}
    /\ EndCycle
    /\ UNCHANGED <<ledgerVars, available, blobs, consumed, pending, watched, jobVars,
                   observed>>

\* Mutant: the snapshot is merged but evicts nothing.
RefreshNeverEvicts(cids, keep) ==
    /\ consumed' = consumed \cap cids
    /\ available' = available \cup cids
    /\ recent' = {}

\* refresh_from_acs_snapshot with merge boundary `keep`: consumed entries the
\* snapshot lacks are dropped, entries not in `keep` are replaced by it.
RefreshFrom(cids, keep) ==
    /\ consumed' = consumed \cap cids
    /\ available' = (available \cap keep) \cup cids
    /\ recent' = {}

\* The whole snapshot arrived.  It also supersedes the pending splits recorded before it.
ApplyComplete ==
    /\ acs = "fetched"
    /\ RefreshFrom(snap, recent)
    /\ blobs' = (blobs \cap recent) \cup snap
    /\ pending' = pending \ oldPending
    /\ EndCycle
    /\ UNCHANGED <<ledgerVars, watched, jobVars, observed>>

\* A truncated stream is merged additively and evicts nothing.
ApplyPartial ==
    /\ acs = "fetched"
    /\ \E part \in SUBSET snap :
          /\ available' = available \cup part
          /\ blobs' = blobs \cup part
    /\ recent' = {}
    /\ EndCycle
    /\ UNCHANGED <<ledgerVars, consumed, pending, watched, jobVars, observed>>

\* The snapshot call failed and the amulets alone were read.
\* CcView::refresh_from_acs: the amulets are replaced (without blobs, and with
\* the moment of the refresh as merge boundary), all else is re-inserted.
ApplyAmulets ==
    /\ acs = "fetched"
    /\ RefreshFrom((snap \cap CC) \cup (available \ CC), {})
    /\ blobs' = blobs \ CC
    /\ EndCycle
    /\ UNCHANGED <<ledgerVars, pending, watched, jobVars, observed>>

AcsWorker ==
    \/ StartFetch \/ ReadSnapshot \/ FetchFails
    \/ ApplyComplete \/ ApplyPartial \/ ApplyAmulets

-----------------------------------------------------------------------------
(* The updates watcher.                                                    *)

\* A created event adds the holding, blob-pending.
WatchCreated(c) ==
    /\ c \in born
    /\ watched[c] = "none"
    /\ AddCreated({c})
    /\ watched' = [watched EXCEPT ![c] = "created"]
    /\ UNCHANGED <<ledgerVars, consumed, resVars, splitVars, acsVars, jobVars,
                   observed>>

\* An archived event: the unexpired V2 reservation is read before the holding
\* is marked consumed, and reported as an observed settle.
WatchArchived(c) ==
    /\ c \in born \ active
    /\ watched[c] = "created"
    /\ observed' = observed \cup {j \in Jobs : Kind[j] = "quote" /\ Reserved(c)
                                              /\ holder[c] = j}
    /\ MarkConsumed({c})
    /\ watched' = [watched EXCEPT ![c] = "archived"]
    /\ UNCHANGED <<ledgerVars, available, recent, blobs, splitVars, acsVars, jobVars>>

\* The supervised task fails and starts again at its last recorded cursor: the
\* events of some holdings are read a second time (Resume::seed).
WatcherReplays(c) ==
    /\ watched[c] # "none"
    /\ c \in Initial => watched[c] = "archived"
    /\ watched' = [watched EXCEPT ![c] = IF c \in Initial THEN "created" ELSE "none"]
    /\ UNCHANGED <<ledgerVars, poolVars, resVars, splitVars, acsVars, jobVars,
                   observed>>

\* It failed at one cursor too often and skips to the ledger end: the events
\* in between are never read.
WatcherSkips ==
    /\ watched' = [c \in Cids |-> IF c \in active THEN "created"
                                  ELSE IF c \in born THEN "archived" ELSE "none"]
    /\ watched' # watched
    /\ UNCHANGED <<ledgerVars, poolVars, resVars, splitVars, acsVars, jobVars,
                   observed>>

Watcher(c) == WatchCreated(c) \/ WatchArchived(c) \/ WatcherReplays(c)

-----------------------------------------------------------------------------
(* Jobs: a payment, a split, a merge, or the confirm of an RFQ V2 quote.   *)

Bounded(S, n) == S # {} /\ Cardinality(S) <= n

\* The inputs a job of this kind may pick: v1 payments fall back to a
\* selection that includes the splitter reserve; a merge needs two holdings; a
\* split takes the reserve itself, reserved or not; a V2 disclosure excludes
\* the reserve and needs blobs.
MayPick(kind, S, pool, stale) ==
    CASE kind = "payment" -> S \subseteq Selectable(pool, stale, FALSE) /\ pool = CC
      [] kind = "merge"   -> S \subseteq Selectable(pool, stale, TRUE) /\ Cardinality(S) > 1
      [] kind = "split"   -> \E c \in S : S = {c} /\ IsSplitterReserve(c, pool, stale)
      [] kind = "quote"   -> S \subseteq Selectable(pool, stale, TRUE) \cap blobs

\* Selecting and reserving are two steps: the pools may change in between.
Pick(j) ==
    /\ phase[j] = "idle"
    /\ \E pool \in Pools : \E stale \in SUBSET (available \cap pool) :
         \E S \in SUBSET (available \cap pool) :
            /\ Bounded(S, MaxInputs)
            /\ MayPick(Kind[j], S, pool, stale)
            /\ inputs' = [inputs EXCEPT ![j] = S]
    /\ phase' = [phase EXCEPT ![j] = "picked"]
    /\ UNCHANGED <<ledgerVars, poolVars, resVars, splitVars, acsVars, watched,
                   outputs, answer, observed>>

\* Mutant: reserving checks the consumed pool only.
ReservableIfUnspent(cids) == cids \cap consumed = {}

\* reserve_with_kind: all or nothing; an expired reservation is overwritten.
Reservable(cids) == cids \cap consumed = {} /\ \A c \in cids : ~Reserved(c)

\* Timing assumption: the sweep has given back a closed quote's inputs before
\* another job reserves one of them.
SweptInTime(cids) ==
    SweepMeetsTTL => \A q \in Jobs : phase[q] = "over" => inputs[q] \cap cids = {}

Reserve(j) ==
    /\ phase[j] = "picked"
    /\ Reservable(inputs[j])
    /\ SweptInTime(inputs[j])
    /\ holder' = [c \in Cids |-> IF c \in inputs[j] THEN j ELSE holder[c]]
    /\ expired' = expired \ inputs[j]
    /\ phase' = [phase EXCEPT ![j] = "reserved"]
    /\ UNCHANGED <<ledgerVars, poolVars, splitVars, acsVars, watched, inputs, outputs,
                   answer, observed>>

ReserveFails(j) ==
    /\ phase[j] = "picked"
    /\ ~Reservable(inputs[j])
    /\ phase' = [phase EXCEPT ![j] = "idle"]
    /\ inputs' = [inputs EXCEPT ![j] = {}]
    /\ UNCHANGED <<ledgerVars, poolVars, resVars, splitVars, acsVars, watched, outputs,
                   answer, observed>>

\* Back to idle with the reservation released: the operator declined, the
\* confirm was rejected, the worker unwound (ReservationGuard), or its submit
\* failed; a split releases on every error.
Release(j) ==
    /\ \/ phase[j] = "reserved"
       \/ phase[j] = "answered" /\ answer[j] = "failed"
       \/ phase[j] = "answered" /\ answer[j] = "inactive" /\ Kind[j] = "split"
    /\ ReleaseReservations(inputs[j])
    /\ phase' = [phase EXCEPT ![j] = "idle"]
    /\ inputs' = [inputs EXCEPT ![j] = {}]
    /\ answer' = [answer EXCEPT ![j] = "none"]
    /\ UNCHANGED <<ledgerVars, poolVars, splitVars, acsVars, watched, outputs, observed>>

NewOutputs(S) == {O \in SUBSET (Cids \ born) : Cardinality(O) <= MaxOutputs
                                               /\ (S \subseteq CC => O \subseteq CC)}

\* The transaction commits.  Its answer may still be an error of unknown
\* outcome (see SubmitTransaction).
SubmitCommits(j) ==
    /\ phase[j] = "reserved"
    /\ Kind[j] # "quote"
    /\ \E O \in NewOutputs(inputs[j]) :
          /\ Transact(inputs[j], O)
          /\ outputs' = [outputs EXCEPT ![j] = O]
    /\ phase' = [phase EXCEPT ![j] = "answered"]
    /\ \E a \in {"ok", "failed"} : answer' = [answer EXCEPT ![j] = a]
    /\ UNCHANGED <<poolVars, resVars, splitVars, acsVars, watched, inputs, observed>>

\* The transaction is refused: INACTIVE_CONTRACTS when an input is gone.
SubmitRefused(j) ==
    /\ phase[j] = "reserved"
    /\ Kind[j] # "quote"
    /\ phase' = [phase EXCEPT ![j] = "answered"]
    /\ \E a \in {"inactive", "failed"} :
          /\ a = "inactive" => ~(inputs[j] \subseteq active)
          /\ answer' = [answer EXCEPT ![j] = a]
    /\ UNCHANGED <<ledgerVars, poolVars, resVars, splitVars, acsVars, watched, inputs,
                   outputs, observed>>

\* mark_consumed after a success.
MarkInputs(j) ==
    /\ phase[j] = "answered"
    /\ answer[j] = "ok"
    /\ MarkConsumed(inputs[j])
    /\ phase' = [phase EXCEPT ![j] = "marked"]
    /\ inputs' = [inputs EXCEPT ![j] = {}]
    /\ UNCHANGED <<ledgerVars, available, recent, blobs, splitVars, acsVars, watched,
                   outputs, answer, observed>>

\* process_tx_result: a payment's change enters the cache from its own result.
AddChange(j) ==
    /\ phase[j] = "marked"
    /\ Kind[j] = "payment"
    /\ AddCreated(outputs[j])
    /\ phase' = [phase EXCEPT ![j] = "done"]
    /\ outputs' = [outputs EXCEPT ![j] = {}]
    /\ UNCHANGED <<ledgerVars, consumed, resVars, splitVars, acsVars, watched, inputs,
                   answer, observed>>

\* record_pending_split: a split's or merge's outputs are only counted until a
\* snapshot shows them.
RecordPending(j) ==
    /\ phase[j] = "marked"
    /\ Kind[j] \in {"split", "merge"}
    /\ pending' = pending \cup {j}
    /\ phase' = [phase EXCEPT ![j] = "done"]
    /\ UNCHANGED <<ledgerVars, poolVars, resVars, oldPending, acsVars, watched, inputs,
                   outputs, answer, observed>>

\* handle_inactive_contracts: every input is marked, gone or not.
MarkInactive(j) ==
    /\ phase[j] = "answered"
    /\ answer[j] = "inactive"
    /\ Kind[j] # "split"
    /\ MarkConsumed(inputs[j])
    /\ phase' = [phase EXCEPT ![j] = "idle"]
    /\ inputs' = [inputs EXCEPT ![j] = {}]
    /\ answer' = [answer EXCEPT ![j] = "none"]
    /\ UNCHANGED <<ledgerVars, available, recent, blobs, splitVars, acsVars, watched,
                   outputs, observed>>

-----------------------------------------------------------------------------
(* RFQ V2 quotes.                                                          *)

\* The signed envelope leaves: from now on the taker can settle.
IssueQuote(q) ==
    /\ phase[q] = "reserved"
    /\ Kind[q] = "quote"
    /\ phase' = [phase EXCEPT ![q] = "sent"]
    /\ UNCHANGED <<ledgerVars, poolVars, resVars, splitVars, acsVars, watched, inputs,
                   outputs, answer, observed>>

\* The taker settles on the ledger, inside the signed window.
TakerSettles(q) ==
    /\ phase[q] = "sent"
    /\ answer[q] = "none"
    /\ \E O \in NewOutputs(inputs[q]) : Transact(inputs[q], O)
    /\ answer' = [answer EXCEPT ![q] = "ok"]
    /\ UNCHANGED <<poolVars, resVars, splitVars, acsVars, watched, phase, inputs,
                   outputs, observed>>

\* valid_until + grace has passed, settled or not.
WindowCloses(q) ==
    /\ phase[q] = "sent"
    /\ phase' = [phase EXCEPT ![q] = "over"]
    /\ UNCHANGED <<ledgerVars, poolVars, resVars, splitVars, acsVars, watched, inputs,
                   outputs, answer, observed>>

\* RfqV2State::sweep: a Confirmed quote past its expiry gives back its inputs,
\* by cid.  One that handle_settle_observed has made Settled is left alone, but
\* that event may still be on its way to it.
Sweep(q) ==
    /\ phase[q] = "over"
    /\ \/ q \in observed /\ UNCHANGED resVars
       \/ ReleaseReservations(inputs[q])
    /\ phase' = [phase EXCEPT ![q] = "done"]
    /\ inputs' = [inputs EXCEPT ![q] = {}]
    /\ UNCHANGED <<ledgerVars, poolVars, splitVars, acsVars, watched, outputs, answer,
                   observed>>

\* A reservation's TTL passes.  A quote's is never shorter than its window; a
\* worker's counts from the reservation, whether the worker has ended or not.
Expire(c) ==
    /\ Reserved(c)
    /\ IF Kind[holder[c]] = "quote"
       THEN phase[holder[c]] \in {"over", "done"}
       ELSE ~WorkersMeetTTL
    /\ expired' = expired \cup {c}
    /\ UNCHANGED <<ledgerVars, poolVars, holder, splitVars, acsVars, watched, jobVars,
                   observed>>

-----------------------------------------------------------------------------
JobStep(j) ==
    \/ Pick(j) \/ Reserve(j) \/ ReserveFails(j) \/ Release(j)
    \/ SubmitCommits(j) \/ SubmitRefused(j)
    \/ MarkInputs(j) \/ AddChange(j) \/ RecordPending(j) \/ MarkInactive(j)
    \/ IssueQuote(j) \/ TakerSettles(j) \/ WindowCloses(j) \/ Sweep(j)

Next ==
    \/ AcsWorker
    \/ WatcherSkips
    \/ \E c \in Cids : Deposit(c) \/ Expire(c) \/ Watcher(c)
    \/ \E j \in Jobs : JobStep(j)

Spec == Init /\ [][Next]_vars

-----------------------------------------------------------------------------
TypeOK ==
    /\ active \subseteq Cids
    /\ born \subseteq Cids
    /\ available \subseteq Cids
    /\ recent \subseteq Cids
    /\ blobs \subseteq Cids
    /\ consumed \subseteq Cids
    /\ holder \in [Cids -> Jobs \cup {NoJob}]
    /\ expired \subseteq Cids
    /\ pending \subseteq Jobs
    /\ oldPending \subseteq Jobs
    /\ acs \in {"idle", "fetching", "fetched"}
    /\ snap \subseteq Cids
    /\ watched \in [Cids -> Progress]
    /\ phase \in [Jobs -> Phases]
    /\ inputs \in [Jobs -> SUBSET Cids]
    /\ outputs \in [Jobs -> SUBSET Cids]
    /\ answer \in [Jobs -> Answers]
    /\ observed \subseteq Jobs

\* No holding that still exists is in the hands of two jobs at once: a payment,
\* split, merge or live quote never competes with another one for an input.
\* It is what the reserved pool is for (reserve_with_kind, mark_consumed and
\* release_reservations together), and it needs both TTL assumptions.
NoSharedInput ==
    \A j, k \in Jobs : j # k /\ InFlight(j) /\ InFlight(k) =>
        inputs[j] \cap inputs[k] \cap active = {}

\* The rungs a committed split or merge created are never lost from the count
\* that decides about the next split (count_in_band): until a snapshot shows
\* them they are pending, afterwards they stay available for as long as they
\* exist.
RungsStayCounted ==
    \A j \in Jobs : Kind[j] \in {"split", "merge"} /\ phase[j] = "done" =>
        j \in pending \/ outputs[j] \cap active \subseteq available

\* A complete snapshot never evicts a holding that exists, however many were
\* created, spent or discovered while it was on its way.
SnapshotKeepsExisting ==
    [][ApplyComplete => available \cap active \subseteq available']_vars

\* Once a holding is created or spent the cache finds out, whatever was lost,
\* replayed or reordered on the way: no holding stays wrongly selectable or
\* wrongly invisible for good.
EventuallyTruthful ==
    \A c \in Cids : []<>(c \in active <=> c \in available \ consumed)

=============================================================================
