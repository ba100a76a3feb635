-------------------------------- MODULE RfqV2 --------------------------------
(***************************************************************************)
(* The maker side of the atomic RFQ (rfq_v2.rs) with the pool of           *)
(* settlement tickets (ticket_pool.rs), the V2 reservations of the         *)
(* holdings cache, the commitments of the liquidity manager and the        *)
(* pending counts of the net position (net_position.rs).                   *)
(*                                                                         *)
(* Confirms run in tasks of their own, several may name one quote, and a   *)
(* task may panic.  The sweep, the settle observations and the reconcile   *)
(* of the tickets run beside them.  An envelope that left the agent is     *)
(* self-contained: the taker may settle it until its validity ends,        *)
(* whatever the agent does, and across a restart.                          *)
(*                                                                         *)
(* There is no clock.  age[q] says where the current instant lies: before  *)
(* or past the indicative validity (fresh, stale), and, counted from the   *)
(* confirm's start, before valid_until (open), before valid_until +        *)
(* settle_grace (closed), or past it (lapsed).                             *)
(***************************************************************************)
EXTENDS Naturals, FiniteSets

CONSTANTS
  Quotes,            \* quote ids
  Confirms,          \* confirm requests the relay may forward
  Crews,             \* which of them it forwards in one behaviour
  QuoteOf,           \* QuoteOf[k]: the quote that request k names
  Cids,              \* holdings
  Tickets,           \* settlement tickets
  NoQuote, NoTicket,
  MaxInputs,         \* max_input_holdings
  Funds,             \* quotes that the balance can pay for at a time
  ReserveAttempts,   \* RESERVE_ATTEMPTS
  MaxRestarts,       \* bound on restarts of the agent
  SweepMeetsTTL,     \* what is due for release is released before another
                     \* confirm takes the lapsed holding
  WatcherPrompt,     \* a settle is observed within settle_grace
  ConfirmsPrompt     \* a confirm ends before its reservation lapses

ASSUME ConfirmsAssumption == QuoteOf \in [Confirms -> Quotes]
ASSUME SetsAssumption ==
  /\ IsFiniteSet(Quotes)
  /\ NoQuote \notin Quotes /\ NoTicket \notin Tickets
ASSUME BoundsAssumption ==
  /\ MaxInputs \in Nat /\ Funds \in Nat /\ MaxRestarts \in Nat
  /\ ReserveAttempts \in Nat \ {0}
ASSUME SwitchesAssumption == {SweepMeetsTTL, WatcherPrompt, ConfirmsPrompt} \subseteq BOOLEAN

VARIABLES
  \* RfqV2State
  entry,       \* entry[q]: pending; "restored" is Confirmed without an envelope
  pc,          \* pc[k]: where the task of confirm k stands
  picks,       \* picks[k]: the holdings it has picked or reserved
  ticket,      \* ticket[k]: the ticket it was assigned
  lost,        \* lost[k]: lost_races, 0 outside the loop
  sweeping,    \* sweeping[q]: what the running sweep still releases for q
  sweep,       \* is a sweep running? (sweep_running)
  observed,    \* quotes with a SettleObserved in the channel
  settling,    \* the quote whose settle observation is being applied, if any
  \* The stores it reserves in
  holder,      \* holder[c]: the quote of the V2 reservation on c
  committed,   \* quotes with a commitment of the liquidity manager
  net,         \* net[q]: the quote's part in the net position
  pool,        \* pool[t]: status of a ticket of the pool
  assignee,    \* assignee[t]: the quote an assigned ticket is for
  blobs,       \* tickets with every field a disclosure needs
  fetching,    \* has a reconcile read the tickets of the ledger,
  fetched,     \* and which are they?
  \* The ledger and the taker
  age,         \* age[q]: see above
  signed,      \* signed[q]: holdings and ticket of the envelope of q
  sent,        \* quotes whose envelope the taker has
  filled,      \* quotes settled on the ledger
  seen,        \* settles the updates watcher has applied or skipped
  \* The session
  closing,     \* lp_shutdown: the stream and the workers have stopped
  restarts     \* restarts so far

taskVars == <<pc, picks, ticket, lost>>
sweepVars == <<sweeping, sweep>>
settleVars == <<observed, settling, seen>>
fetchVars == <<fetching, fetched>>
ticketVars == <<pool, assignee, blobs, fetchVars>>
takerVars == <<signed, sent, filled>>
sessionVars == <<closing, restarts>>
vars == <<entry, taskVars, sweepVars, settleVars, holder, committed, net,
          ticketVars, age, takerVars, sessionVars>>

NoEnvelope == [cids |-> {}, ticket |-> NoTicket]

Init ==
  /\ entry = [q \in Quotes |-> "none"]
  /\ \E crew \in Crews : 
       pc = [k \in Confirms |-> IF k \in crew THEN "idle" ELSE "done"]
  /\ picks = [k \in Confirms |-> {}]
  /\ ticket = [k \in Confirms |-> NoTicket]
  /\ lost = [k \in Confirms |-> 0]
  /\ sweeping = [q \in Quotes |-> "none"] /\ sweep = FALSE
  /\ observed = {} /\ settling = {} /\ seen = {}
  /\ holder = [c \in Cids |-> NoQuote]
  /\ committed = {}
  /\ net = [q \in Quotes |-> "none"]
  /\ pool = [t \in Tickets |-> "absent"]
  /\ assignee = [t \in Tickets |-> NoQuote]
  /\ blobs = {} /\ fetching = FALSE /\ fetched = {}
  /\ age = [q \in Quotes |-> "unborn"]
  /\ signed = [q \in Quotes |-> NoEnvelope]
  /\ sent = {} /\ filled = {}
  /\ closing = FALSE /\ restarts = 0

-----------------------------------------------------------------------------
(* The ledger, the taker and the clock *)

Spent == UNION {signed[q].cids : q \in filled}
TicketSpent(t) == \E q \in filled : signed[q].ticket = t
LiveTickets == {t \in Tickets : ~ TicketSpent(t)}

\* The ledger checks the validity, the holdings and the ticket.
Settle(q) ==
  /\ q \in sent \ filled /\ age[q] = "open"
  /\ signed[q].cids \cap Spent = {}
  /\ signed[q].ticket # NoTicket => signed[q].ticket \in LiveTickets
  /\ filled' = filled \cup {q}
  /\ UNCHANGED <<entry, taskVars, sweepVars, settleVars, holder, committed, net,
                 ticketVars, age, signed, sent, sessionVars>>

Running(k) == pc[k] \notin {"idle", "done"}

Later == [fresh |-> "stale", open |-> "closed", closed |-> "lapsed"]

TimePasses(q) ==
  /\ age[q] \in DOMAIN Later
  /\ WatcherPrompt /\ ~ closing /\ age[q] = "closed" /\ q \in filled =>
       q \in seen \ (observed \cup settling)
  /\ ConfirmsPrompt /\ age[q] = "closed" =>
       \A k \in Confirms : QuoteOf[k] = q => ~ Running(k)
  /\ age' = [age EXCEPT ![q] = Later[age[q]]]
  /\ UNCHANGED <<entry, taskVars, sweepVars, settleVars, holder, committed, net,
                 ticketVars, takerVars, sessionVars>>

-----------------------------------------------------------------------------
(* register_indicative: the check is advisory and nothing is reserved *)

RegisterIndicative(q) ==
  /\ ~ closing /\ age[q] = "unborn"
  /\ Cardinality(committed) < Funds
  /\ entry' = [entry EXCEPT ![q] = "indicative"]
  /\ age' = [age EXCEPT ![q] = "fresh"]
  /\ UNCHANGED <<taskVars, sweepVars, settleVars, holder, committed, net,
                 ticketVars, takerVars, sessionVars>>

-----------------------------------------------------------------------------
(* handle_confirm *)

Goto(k, next) == pc' = [pc EXCEPT ![k] = next]

\* A task that ends takes its locals with it.
Ends(k) ==
  /\ Goto(k, "done")
  /\ picks' = [picks EXCEPT ![k] = {}]
  /\ ticket' = [ticket EXCEPT ![k] = NoTicket]
  /\ lost' = [lost EXCEPT ![k] = 0]

\* The lookup claims the quote, so that a second confirm sees it in progress.
Claim(k) ==
  /\ entry[QuoteOf[k]] = "indicative" /\ age[QuoteOf[k]] = "fresh"
  /\ entry' = [entry EXCEPT ![QuoteOf[k]] = "confirming"]
  /\ age' = [age EXCEPT ![QuoteOf[k]] = "open"]
  /\ Goto(k, "claimed")

Lookup(k) ==
  LET q == QuoteOf[k] IN
  /\ ~ closing /\ pc[k] = "idle" /\ age[q] # "unborn"
  /\ \/ Claim(k)
     \/ /\ entry[q] = "confirmed"
        /\ Goto(k, "send") /\ UNCHANGED <<entry, age>>
     \/ /\ entry[q] = "indicative" /\ age[q] = "stale"
        /\ Goto(k, "rejectFunds") /\ UNCHANGED <<entry, age>>
     \* Unknown, restored, in progress, dead, or another fee: nothing changes.
     \/ /\ entry[q] # "confirmed" /\ ~ (entry[q] = "indicative" /\ age[q] = "stale")
        /\ Goto(k, "done") /\ UNCHANGED <<entry, age>>
  /\ UNCHANGED <<picks, ticket, lost, sweepVars, settleVars, holder, committed,
                 net, ticketVars, takerVars, sessionVars>>

\* count_confirm; no reliable mid or a stale price is a Fail.
CountConfirm(k) ==
  /\ pc[k] = "claimed" /\ Goto(k, "counted")
  /\ net' = [net EXCEPT ![QuoteOf[k]] = IF @ = "none" THEN "pending" ELSE @]
  /\ UNCHANGED <<entry, picks, ticket, lost, sweepVars, settleVars, holder,
                 committed, ticketVars, age, takerVars, sessionVars>>

TryCommit(k) ==
  /\ pc[k] = "counted" /\ Cardinality(committed) < Funds
  /\ committed' = committed \cup {QuoteOf[k]}
  /\ Goto(k, "committed")
  /\ UNCHANGED <<entry, picks, ticket, lost, sweepVars, settleVars, holder, net,
                 ticketVars, age, takerVars, sessionVars>>

\* What the cache knows to be gone
Consumed == UNION {signed[q].cids : q \in seen}
Reserved(c) == holder[c] # NoQuote /\ age[holder[c]] # "lapsed"

\* select_for_disclosure; waiting for an on-demand split is not to step.
Select(k) ==
  /\ pc[k] = "committed"
  /\ \E S \in SUBSET {c \in Cids : c \notin Consumed /\ ~ Reserved(c)} :
       /\ S # {} /\ Cardinality(S) <= MaxInputs
       /\ picks' = [picks EXCEPT ![k] = S]
  /\ Goto(k, "picked")
  /\ UNCHANGED <<entry, ticket, lost, sweepVars, settleVars, holder, committed,
                 net, ticketVars, age, takerVars, sessionVars>>

\* Where a confirm has holdings to release
Holding == {"reserved", "ready", "rejectFunds", "rejectCids",
            "withholdFunds", "withholdCids"}

\* The holdings that some step will still release for q, by contract id
Due(q) ==
  UNION ({picks[k] : k \in {j \in Confirms : QuoteOf[j] = q /\ pc[j] \in Holding}}
         \cup {signed[p].cids : p \in
                 {r \in {q} : entry[r] \in {"confirmed", "restored"}
                              \/ sweeping[r] \in {"confirmed", "cids"}}})

\* Mutant: the reservation overwrites one that has not expired.
Overwrites(k) == picks[k] \cap Consumed = {}

\* reserve_with_kind: all or nothing
CanReserve(k) == picks[k] \cap Consumed = {} /\ \A c \in picks[k] : ~ Reserved(c)

ReserveV2(k) ==
  /\ pc[k] = "picked" /\ CanReserve(k)
  /\ SweepMeetsTTL =>
       \A q \in Quotes : age[q] = "lapsed" => picks[k] \cap Due(q) = {}
  /\ holder' = [c \in Cids |-> IF c \in picks[k] THEN QuoteOf[k] ELSE holder[c]]
  /\ lost' = [lost EXCEPT ![k] = 0]
  /\ Goto(k, "reserved")
  /\ UNCHANGED <<entry, picks, ticket, sweepVars, settleVars, committed,
                 net, ticketVars, age, takerVars, sessionVars>>

\* Another confirm, a payment or a split took a pick first: select again, or
\* give up.  (The other users of the cache are in HoldingsCache.)
LoseRace(k) ==
  /\ pc[k] = "picked"
  /\ \/ /\ lost[k] + 1 < ReserveAttempts
        /\ lost' = [lost EXCEPT ![k] = @ + 1] /\ Goto(k, "committed")
     \/ /\ lost[k] + 1 >= ReserveAttempts
        /\ lost' = [lost EXCEPT ![k] = 0] /\ Goto(k, "rejectFunds")
  /\ picks' = [picks EXCEPT ![k] = {}]
  /\ UNCHANGED <<entry, ticket, sweepVars, settleVars, holder, committed, net,
                 ticketVars, age, takerVars, sessionVars>>

Assign(t, q) ==
  /\ pool' = [pool EXCEPT ![t] = "assigned"]
  /\ assignee' = [assignee EXCEPT ![t] = q]

\* The ticket decision (by notional), then the validity once more; nothing awaits in between.
TakeTicket(k) ==
  /\ pc[k] = "reserved" /\ age[QuoteOf[k]] = "open"
  /\ \/ UNCHANGED <<ticket, pool, assignee>>
     \/ \E t \in blobs :
          /\ pool[t] = "free"
          /\ Assign(t, QuoteOf[k])
          /\ ticket' = [ticket EXCEPT ![k] = t]
  /\ Goto(k, "ready")
  /\ UNCHANGED <<entry, picks, lost, sweepVars, settleVars, holder, committed,
                 net, blobs, fetchVars, age, takerVars, sessionVars>>

\* Any exit that ends in release_on_reject: no price, no funds, no venue, no
\* holdings, no ticket, validity over, nothing to sign with.
Fail(k) ==
  /\ pc[k] \in {"claimed", "counted", "committed", "reserved", "ready"}
  /\ picks' = [picks EXCEPT ![k] = IF pc[k] \in {"reserved", "ready"} THEN @ ELSE {}]
  /\ lost' = [lost EXCEPT ![k] = 0]
  /\ Goto(k, "rejectFunds")
  /\ UNCHANGED <<entry, ticket, sweepVars, settleVars, holder, committed,
                 net, ticketVars, age, takerVars, sessionVars>>

\* Mutant: the envelope is issued whoever owns the quote by now.
OwnsAlways(q) == TRUE

Owns(q) == entry[q] = "confirming"

\* Issued only if the sweep has not given the confirm up in the meantime
Issue(k) ==
  LET q == QuoteOf[k] IN
  /\ pc[k] = "ready"
  /\ IF Owns(q)
     THEN /\ entry' = [entry EXCEPT ![q] = "confirmed"]
          /\ signed' = [signed EXCEPT ![q] = [cids |-> picks[k], ticket |-> ticket[k]]]
          /\ net' = [net EXCEPT ![q] = IF @ = "none" THEN "pending" ELSE @]
          /\ Goto(k, "send")
     ELSE Goto(k, "withholdFunds") /\ UNCHANGED <<entry, signed, net>>
  /\ UNCHANGED <<picks, ticket, lost, sweepVars, settleVars, holder, committed,
                 ticketVars, age, sent, filled, sessionVars>>

\* The answer reaches the relay while the stream is up; the envelope stays.
Send(k) ==
  /\ pc[k] = "send" /\ Ends(k)
  /\ sent' \in IF closing THEN {sent} ELSE {sent, sent \cup {QuoteOf[k]}}
  /\ UNCHANGED <<entry, sweepVars, settleVars, holder,
                 committed, net, ticketVars, age, signed, filled, sessionVars>>

-----------------------------------------------------------------------------
(* release_on_reject, and the same without the entry for a withheld envelope *)

Reversed(n) == IF n = "pending" THEN "none" ELSE n

ReleaseFunds(q) ==
  /\ committed' = committed \ {q}
  /\ net' = [net EXCEPT ![q] = Reversed(@)]

ReleaseReservations(S) ==
  holder' = [c \in Cids |-> IF c \in S THEN NoQuote ELSE holder[c]]

Unassign(q) ==
  /\ pool' = [t \in Tickets |-> IF pool[t] = "assigned" /\ assignee[t] = q
                                THEN "free" ELSE pool[t]]
  /\ assignee' = [t \in Tickets |-> IF assignee[t] = q THEN NoQuote ELSE assignee[t]]

UndoFunds(k) ==
  /\ \/ pc[k] = "rejectFunds" /\ Goto(k, "rejectCids")
     \/ pc[k] = "withholdFunds" /\ Goto(k, "withholdCids")
  /\ ReleaseFunds(QuoteOf[k])
  /\ UNCHANGED <<entry, picks, ticket, lost, sweepVars, settleVars, holder,
                 ticketVars, age, takerVars, sessionVars>>

UndoCids(k) ==
  /\ \/ pc[k] = "rejectCids" /\ Goto(k, "rejectTicket")
     \/ pc[k] = "withholdCids" /\ Goto(k, "withholdTicket")
  /\ ReleaseReservations(picks[k])
  /\ UNCHANGED <<entry, picks, ticket, lost, sweepVars, settleVars, committed,
                 net, ticketVars, age, takerVars, sessionVars>>

UndoTicket(k) ==
  /\ \/ /\ pc[k] = "rejectTicket"
        /\ entry' = [entry EXCEPT ![QuoteOf[k]] = "none"]
     \/ pc[k] = "withholdTicket" /\ UNCHANGED entry
  /\ IF ticket[k] # NoTicket THEN Unassign(QuoteOf[k]) ELSE UNCHANGED <<pool, assignee>>
  /\ Ends(k)
  /\ UNCHANGED <<sweepVars, settleVars, holder, committed,
                 net, blobs, fetchVars, age, takerVars, sessionVars>>

\* A panic ends the task where it stands; spawn_confirm answers with a reject.
\* One after the sweep has given the confirm up is left out: nobody would
\* release what it commits from then on.
Panic(k) ==
  /\ Running(k) /\ entry[QuoteOf[k]] = "confirming"
  /\ Ends(k)
  /\ UNCHANGED <<entry, sweepVars, settleVars, holder,
                 committed, net, ticketVars, age, takerVars, sessionVars>>

-----------------------------------------------------------------------------
(* The updates watcher and handle_settle_observed *)

\* Every archived holding reports the quote that reserves it, if any.
Watch(q) ==
  LET gone == signed[q].cids IN
  /\ ~ closing /\ q \in filled \ seen
  /\ seen' = seen \cup {q}
  /\ observed' = observed \cup {holder[c] : c \in {d \in gone : Reserved(d)}}
  /\ ReleaseReservations(gone)
  /\ pool' = [t \in Tickets |-> IF t = signed[q].ticket /\ pool[t] # "absent"
                                THEN "spent" ELSE pool[t]]
  /\ assignee' = [t \in Tickets |-> IF t = signed[q].ticket THEN NoQuote ELSE assignee[t]]
  /\ UNCHANGED <<entry, taskVars, sweepVars, settling, committed, net, blobs,
                 fetchVars, age, takerVars, sessionVars>>

\* The consumer applies one observation at a time.
ObserveSettle(q) ==
  /\ ~ closing /\ q \in observed /\ settling = {}
  /\ observed' = observed \ {q}
  /\ IF entry[q] \in {"confirmed", "restored"}
     THEN entry' = [entry EXCEPT ![q] = "settled"] /\ settling' = {q}
     ELSE UNCHANGED <<entry, settling>>
  /\ UNCHANGED <<taskVars, sweepVars, seen, holder, committed, net, ticketVars,
                 age, takerVars, sessionVars>>

\* Mutant: a settle releases its count like an expiry.
CountReversed(q) == net' = [net EXCEPT ![q] = Reversed(@)]

CountSettled(q) == net' = [net EXCEPT ![q] = IF @ = "pending" THEN "settled" ELSE @]

FinishSettle(q) ==
  /\ q \in settling /\ settling' = {}
  /\ pool' = [t \in Tickets |-> IF pool[t] = "assigned" /\ assignee[t] = q
                                THEN "spent" ELSE pool[t]]
  /\ assignee' = [t \in Tickets |-> IF assignee[t] = q THEN NoQuote ELSE assignee[t]]
  /\ committed' = committed \ {q}
  /\ CountSettled(q)
  /\ UNCHANGED <<entry, taskVars, sweepVars, observed, seen, holder, blobs,
                 fetchVars, age, takerVars, sessionVars>>

-----------------------------------------------------------------------------
(* sweep *)

\* Any running confirm may have outlived CONFIRM_ABANDONED_AFTER.
Abandoned == SUBSET {q \in Quotes : entry[q] = "confirming"}

Lapsed(q) == entry[q] \in {"confirmed", "restored"} /\ age[q] = "lapsed"
Stale(q) == entry[q] = "indicative" /\ age[q] = "stale"
AssignmentOver(t) == pool[t] = "assigned" /\ age[assignee[t]] = "lapsed"

\* Tombstones stay: once collected, a quote is refused as it was before.  A
\* sweep that finds nothing to do is a stuttering step.
StartSweep ==
  /\ ~ closing /\ ~ sweep /\ sweep' = TRUE
  /\ \E abandoned \in Abandoned :
       /\ \/ abandoned # {}
          \/ \E q \in Quotes : \/ Lapsed(q) \/ Stale(q)
                               \/ net[q] = "pending" /\ age[q] = "lapsed"
          \/ \E t \in Tickets : AssignmentOver(t)
       /\ entry' = [q \in Quotes |-> IF Lapsed(q) \/ Stale(q) \/ q \in abandoned
                                     THEN "expired" ELSE entry[q]]
       /\ sweeping' = [q \in Quotes |-> IF Lapsed(q) THEN "confirmed"
                                        ELSE IF q \in abandoned THEN "abandoned"
                                        ELSE "none"]
  /\ UNCHANGED <<taskVars, settleVars, holder, committed, net, ticketVars, age,
                 takerVars, sessionVars>>

SweepFunds(q) ==
  /\ \/ sweeping[q] = "confirmed" /\ sweeping' = [sweeping EXCEPT ![q] = "cids"]
     \/ sweeping[q] = "abandoned" /\ sweeping' = [sweeping EXCEPT ![q] = "ticket"]
  /\ ReleaseFunds(q)
  /\ UNCHANGED <<entry, taskVars, sweep, settleVars, holder, ticketVars, age,
                 takerVars, sessionVars>>

SweepCids(q) ==
  /\ sweeping[q] = "cids" /\ sweeping' = [sweeping EXCEPT ![q] = "ticket"]
  /\ ReleaseReservations(signed[q].cids)
  /\ UNCHANGED <<entry, taskVars, sweep, settleVars, committed, net, ticketVars,
                 age, takerVars, sessionVars>>

SweepTicket(q) ==
  /\ sweeping[q] = "ticket" /\ sweeping' = [sweeping EXCEPT ![q] = "none"]
  /\ Unassign(q)
  /\ UNCHANGED <<entry, taskVars, sweep, settleVars, holder, committed, net,
                 blobs, fetchVars, age, takerVars, sessionVars>>

\* expire_assignments and expire_stale_pending close a sweep.
EndSweep ==
  /\ sweep /\ \A q \in Quotes : sweeping[q] = "none"
  /\ sweep' = FALSE
  /\ pool' = [t \in Tickets |-> IF AssignmentOver(t) THEN "free" ELSE pool[t]]
  /\ assignee' = [t \in Tickets |-> IF AssignmentOver(t) THEN NoQuote ELSE assignee[t]]
  /\ \E old \in SUBSET {q \in Quotes : age[q] = "lapsed"} :
       net' = [q \in Quotes |-> IF q \in old THEN Reversed(net[q]) ELSE net[q]]
  /\ UNCHANGED <<entry, taskVars, sweeping, settleVars, holder, committed, blobs,
                 fetchVars, age, takerVars, sessionVars>>

-----------------------------------------------------------------------------
(* reconcile_tickets: the ledger's tickets are read, then applied *)

\* One that shows no more than the pool knows would change nothing.
FetchTickets ==
  /\ ~ closing /\ ~ fetching /\ LiveTickets # blobs
  /\ fetching' = TRUE /\ fetched' = LiveTickets
  /\ UNCHANGED <<entry, taskVars, sweepVars, settleVars, holder, committed, net,
                 pool, assignee, blobs, age, takerVars, sessionVars>>

Adopt(t) == IF pool[t] = "absent" THEN "free" ELSE pool[t]

ReconcileFromAcs ==
  /\ fetching /\ fetching' = FALSE /\ fetched' = {}
  /\ pool' = [t \in Tickets |-> IF t \in fetched THEN Adopt(t) ELSE "absent"]
  /\ assignee' = [t \in Tickets |-> IF t \in fetched THEN assignee[t] ELSE NoQuote]
  /\ blobs' = fetched
  /\ UNCHANGED <<entry, taskVars, sweepVars, settleVars, holder, committed, net,
                 age, takerVars, sessionVars>>

-----------------------------------------------------------------------------
(* Shutdown and restart *)

Shutdown ==
  /\ ~ closing /\ restarts < MaxRestarts
  /\ closing' = TRUE
  /\ UNCHANGED <<entry, taskVars, sweepVars, settleVars, holder, committed, net,
                 ticketVars, age, takerVars, restarts>>

\* snapshot_pending and restore_pending
Saved == {"confirmed", "restored"}
Restored == {q \in Quotes : entry[q] \in Saved /\ age[q] # "lapsed"}

\* Mutant: the entries come back without their reservations.
NotReserved(c) == NoQuote

\* restore_v2_reservation
RestoredHolder(c) ==
  IF \E q \in Restored : c \in signed[q].cids
  THEN CHOOSE q \in Restored : c \in signed[q].cids ELSE NoQuote

\* The state file and the net-position file come back, memory is gone.  The
\* first ACS refresh shows what is spent, the watcher starts at the ledger end.
SaveAndRestart ==
  /\ closing /\ closing' = FALSE
  /\ restarts' = restarts + 1
  /\ entry' = [q \in Quotes |-> IF q \in Restored THEN "restored" ELSE "none"]
  /\ holder' = [c \in Cids |-> RestoredHolder(c)]
  /\ pool' = [t \in Tickets |-> IF AssignmentOver(t) THEN "free" ELSE pool[t]]
  /\ assignee' = [t \in Tickets |-> IF AssignmentOver(t) THEN NoQuote ELSE assignee[t]]
  /\ blobs' = {} /\ fetching' = FALSE /\ fetched' = {}
  /\ committed' = {} /\ observed' = {} /\ settling' = {} /\ seen' = filled
  /\ sweeping' = [q \in Quotes |-> "none"] /\ sweep' = FALSE
  /\ pc' = [k \in Confirms |-> IF Running(k) THEN "done" ELSE pc[k]]
  /\ picks' = [k \in Confirms |-> {}]
  /\ ticket' = [k \in Confirms |-> NoTicket]
  /\ lost' = [k \in Confirms |-> 0]
  /\ UNCHANGED <<net, age, takerVars>>

-----------------------------------------------------------------------------
ConfirmStep(k) ==
  \/ CountConfirm(k) \/ TryCommit(k) \/ Select(k) \/ ReserveV2(k) \/ LoseRace(k)
  \/ TakeTicket(k) \/ Fail(k) \/ Issue(k) \/ Send(k)
  \/ UndoFunds(k) \/ UndoCids(k) \/ UndoTicket(k)

SweepStep == EndSweep \/ \E q \in Quotes : SweepFunds(q) \/ SweepCids(q) \/ SweepTicket(q)

Next ==
  \/ \E q \in Quotes : \/ RegisterIndicative(q) \/ Settle(q) \/ TimePasses(q)
                       \/ Watch(q) \/ ObserveSettle(q) \/ FinishSettle(q)
  \/ \E k \in Confirms : Lookup(k) \/ ConfirmStep(k) \/ Panic(k)
  \/ StartSweep \/ SweepStep \/ FetchTickets \/ ReconcileFromAcs
  \/ Shutdown \/ SaveAndRestart

Spec == Init /\ [][Next]_vars

-----------------------------------------------------------------------------
(* Properties *)

TaskTypes ==
  /\ pc \in [Confirms -> {"idle", "claimed", "counted", "committed", "picked",
                          "reserved", "ready", "send", "rejectFunds",
                          "rejectCids", "rejectTicket", "withholdFunds",
                          "withholdCids", "withholdTicket", "done"}]
  /\ picks \in [Confirms -> SUBSET Cids]
  /\ ticket \in [Confirms -> Tickets \cup {NoTicket}]
  /\ lost \in [Confirms -> 0 .. ReserveAttempts - 1]

TypeOK ==
  /\ entry \in [Quotes -> {"none", "indicative", "confirming", "confirmed",
                           "restored", "settled", "expired"}]
  /\ TaskTypes
  /\ sweeping \in [Quotes -> {"none", "confirmed", "abandoned", "cids", "ticket"}]
  /\ sweep \in BOOLEAN
  /\ observed \subseteq Quotes /\ settling \subseteq Quotes /\ seen \subseteq filled
  /\ holder \in [Cids -> Quotes \cup {NoQuote}]
  /\ committed \subseteq Quotes
  /\ net \in [Quotes -> {"none", "pending", "settled"}]
  /\ pool \in [Tickets -> {"absent", "free", "assigned", "spent"}]
  /\ assignee \in [Tickets -> Quotes \cup {NoQuote}]
  /\ \A t \in Tickets : pool[t] = "assigned" <=> assignee[t] # NoQuote
  /\ blobs \subseteq Tickets /\ fetching \in BOOLEAN /\ fetched \subseteq Tickets
  /\ age \in [Quotes -> {"unborn", "fresh", "stale", "open", "closed", "lapsed"}]
  /\ signed \in [Quotes -> [cids : SUBSET Cids, ticket : Tickets \cup {NoTicket}]]
  /\ sent \subseteq Quotes /\ filled \subseteq sent
  /\ closing \in BOOLEAN /\ restarts \in 0 .. MaxRestarts
  /\ closing => restarts < MaxRestarts

\* What the reservations are for ("the LP never double-discloses holdings that
\* back a possibly-live envelope", restore_pending; "<= 1 live quote per ticket",
\* ticket_pool.rs): two envelopes the ledger could still settle share nothing,
\* whatever confirms, panics, sweeps, reconciles and restarts do.
Live(q) == q \in sent \ filled /\ age[q] = "open"

NoDoubleDisclosure ==
  \A p, q \in Quotes : Live(p) /\ Live(q) /\ p # q =>
    /\ signed[p].cids \cap signed[q].cids = {}
    /\ signed[p].ticket = signed[q].ticket => signed[p].ticket = NoTicket

\* "V2 hard reserve backing a signed quote (TTL = valid_until + grace)"
\* (ReservationKind): what an envelope discloses stays reserved for its quote
\* until it settles or the grace is over, also across a restart.
EnvelopeBacked ==
  \A q \in Quotes :
    entry[q] \in {"confirmed", "restored"} /\ age[q] # "lapsed" /\ q \notin filled =>
      \A c \in signed[q].cids : holder[c] = q

\* The commitment is "the ONLY thing excluding a confirmed non-CC leg from the
\* balance gate" (handle_confirm): a quote confirmed in this session keeps its
\* own until it settles or expires, although an abandoned confirm loses it.
ConfirmedIsCommitted == \A q \in Quotes : entry[q] = "confirmed" => q \in committed

\* A commitment has somebody who will release it: its entry, through the sweep
\* or a settle, or a task on its way.  None is left behind by a confirm that was
\* given up and commits afterwards.
CommitmentsHaveOwners ==
  \A q \in committed :
    \/ entry[q] \in {"confirming", "confirmed"}
    \/ \E k \in Confirms : QuoteOf[k] = q /\ Running(k)
    \/ sweeping[q] \in {"confirmed", "abandoned"}
    \/ q \in settling

\* A trade that settled in this session counts in the net position, whether its
\* observation, the sweep or the stale-pending backstop comes first.
FilledStaysCounted == restarts = 0 /\ ~ closing => \A q \in filled : net[q] # "none"

\* A quote has one envelope: duplicate confirms, re-sends and restarts never
\* sign another one once the taker has the first.
OneEnvelope == [][\A q \in sent : signed'[q] = signed[q]]_vars
=============================================================================
