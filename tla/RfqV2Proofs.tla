----------------------------- MODULE RfqV2Proofs -----------------------------
(***************************************************************************)
(* Proofs about RfqV2 for any quotes, confirms, holdings, tickets and      *)
(* restarts: the types, that a quote has one envelope, that a confirmed    *)
(* quote keeps its commitment and that no commitment is left behind; and,  *)
(* with the sweep and the watcher in time, that what an envelope discloses *)
(* stays reserved, is disclosed once, and is counted when it settles.      *)
(***************************************************************************)
EXTENDS RfqV2, TLAPS

-----------------------------------------------------------------------------
(* The inductive invariant.                                                *)

\* The ages counted from a confirm's start, and the pcs behind a claim
Counting == {"open", "closed", "lapsed"}
Claimed == {"claimed", "counted", "committed", "picked", "reserved", "ready",
            "withholdFunds", "withholdCids", "withholdTicket"}
Working(k) == pc[k] \notin {"idle", "done", "send"}

\* A claim starts the clock of its quote, and nobody works on a fresh one.
TasksOK ==
  \A k \in Confirms :
    /\ pc[k] \in Claimed => age[QuoteOf[k]] \in Counting
    /\ Working(k) => age[QuoteOf[k]] \notin {"unborn", "fresh"}

\* Two tasks work on one quote only to refuse it as stale.
OneTask ==
  \A j, k \in Confirms :
    j # k /\ QuoteOf[j] = QuoteOf[k] /\ Working(j) /\ Working(k) =>
      age[QuoteOf[k]] = "stale"

\* An entry follows the clock; one with an envelope has no task at work.
EntriesOK ==
  \A q \in Quotes :
    /\ entry[q] = "indicative" => age[q] \in {"fresh", "stale"}
    /\ entry[q] \in {"confirming", "confirmed", "restored", "settled"} =>
         age[q] \in Counting
    /\ sweeping[q] # "none" => entry[q] \in {"expired", "none"} /\ age[q] \in Counting
    /\ q \in settling => entry[q] = "settled"
    /\ entry[q] \in {"confirmed", "restored", "settled"} =>
         \A k \in Confirms : QuoteOf[k] = q => ~ Working(k)

\* What has been sent, or is about to be, is not being confirmed again.
SentOK ==
  /\ \A q \in sent : entry[q] # "confirming" /\ age[q] \in Counting
  /\ \A k \in Confirms : pc[k] = "send" =>
       entry[QuoteOf[k]] # "confirming" /\ age[QuoteOf[k]] \in Counting

\* A task that owns its quote and has committed is committed, one that has
\* released is not.
Committing == {"committed", "picked", "reserved", "ready"}
Released == {"rejectCids", "rejectTicket", "withholdCids", "withholdTicket"}
CommittedOK ==
  /\ \A q \in committed : age[q] \in Counting
  /\ \A k \in Confirms :
       /\ pc[k] \in Committing /\ entry[QuoteOf[k]] = "confirming" =>
            QuoteOf[k] \in committed
       /\ pc[k] \in Released => QuoteOf[k] \notin committed

\* Who releases a commitment
OwnersOK ==
  /\ \A q \in committed :
       \/ entry[q] \in {"confirming", "confirmed"}
       \/ \E k \in Confirms :
            QuoteOf[k] = q /\ pc[k] \in Committing \cup {"rejectFunds", "withholdFunds"}
       \/ sweeping[q] \in {"confirmed", "abandoned"}
       \/ q \in settling
  /\ ~ sweep => \A q \in Quotes : sweeping[q] = "none"
  /\ \A p, q \in settling : p = q

Control ==
  /\ TasksOK /\ OneTask /\ EntriesOK /\ SentOK
  /\ ConfirmedIsCommitted /\ CommittedOK /\ OwnersOK

IInv == TypeOK /\ Control

-----------------------------------------------------------------------------
(* Types.                                                                  *)

\* A fresh agent has the right types.
LEMMA InitType == Init => TypeOK
<1> SUFFICES ASSUME Init PROVE TypeOK
  OBVIOUS
<1>1. signed \in [Quotes -> [cids : SUBSET Cids, ticket : Tickets \cup {NoTicket}]]
  BY DEF Init, NoEnvelope
<1>2. lost \in [Confirms -> 0 .. ReserveAttempts - 1] /\ restarts \in 0 .. MaxRestarts
  <2>1. 0 \in 0 .. ReserveAttempts - 1 /\ 0 \in 0 .. MaxRestarts
    BY BoundsAssumption DEF BoundsAssumption
  <2> QED
    BY <2>1 DEF Init
<1>3. \A t \in Tickets : pool[t] = "assigned" <=> assignee[t] # NoQuote
  BY DEF Init
<1> QED
  BY <1>1, <1>2, <1>3 DEF Init, TypeOK, TaskTypes

\* The loop starts with no lost race.
LEMMA ZeroLost == 0 \in 0 .. ReserveAttempts - 1
  BY BoundsAssumption DEF BoundsAssumption

\* A task that ends leaves a task without locals.
LEMMA EndsTypes == ASSUME TypeOK, NEW k \in Confirms, Ends(k) PROVE TaskTypes'
  BY ZeroLost DEF TypeOK, TaskTypes, Ends, Goto

\* Every step of a confirm, the sweep, the watcher, the reconcile and a restart
\* keeps the types.
LEMMA TypeStep == TypeOK /\ [Next]_vars => TypeOK'
<1> SUFFICES ASSUME TypeOK, [Next]_vars PROVE TypeOK'
  OBVIOUS
<1>1. ASSUME NEW q \in Quotes, RegisterIndicative(q) PROVE TypeOK'
  BY <1>1
  DEF TypeOK, TaskTypes, RegisterIndicative,
      taskVars, sweepVars, settleVars, fetchVars, ticketVars, takerVars, sessionVars
<1>2. ASSUME NEW q \in Quotes, Settle(q) PROVE TypeOK'
  BY <1>2
  DEF TypeOK, TaskTypes, Settle,
      taskVars, sweepVars, settleVars, fetchVars, ticketVars, takerVars, sessionVars
<1>3. ASSUME NEW q \in Quotes, TimePasses(q) PROVE TypeOK'
  BY <1>3
  DEF TypeOK, TaskTypes, TimePasses, Later,
      taskVars, sweepVars, settleVars, fetchVars, ticketVars, takerVars, sessionVars
<1>4. ASSUME NEW q \in Quotes, Watch(q) PROVE TypeOK'
  BY <1>4
  DEF TypeOK, TaskTypes, Watch, ReleaseReservations, Reserved,
      taskVars, sweepVars, settleVars, fetchVars, ticketVars, takerVars, sessionVars
<1>5. ASSUME NEW q \in Quotes, ObserveSettle(q) PROVE TypeOK'
  BY <1>5
  DEF TypeOK, TaskTypes, ObserveSettle,
      taskVars, sweepVars, settleVars, fetchVars, ticketVars, takerVars, sessionVars
<1>6. ASSUME NEW q \in Quotes, FinishSettle(q) PROVE TypeOK'
  BY <1>6
  DEF TypeOK, TaskTypes, FinishSettle, CountSettled,
      taskVars, sweepVars, settleVars, fetchVars, ticketVars, takerVars, sessionVars
<1>7. ASSUME NEW q \in Quotes, SweepFunds(q) PROVE TypeOK'
  BY <1>7
  DEF TypeOK, TaskTypes, SweepFunds, ReleaseFunds, Reversed,
      taskVars, sweepVars, settleVars, fetchVars, ticketVars, takerVars, sessionVars
<1>8. ASSUME NEW q \in Quotes, SweepCids(q) PROVE TypeOK'
  BY <1>8
  DEF TypeOK, TaskTypes, SweepCids, ReleaseReservations,
      taskVars, sweepVars, settleVars, fetchVars, ticketVars, takerVars, sessionVars
<1>9. ASSUME NEW q \in Quotes, SweepTicket(q) PROVE TypeOK'
  BY <1>9
  DEF TypeOK, TaskTypes, SweepTicket, Unassign,
      taskVars, sweepVars, settleVars, fetchVars, ticketVars, takerVars, sessionVars
<1>10. ASSUME NEW k \in Confirms, Lookup(k) PROVE TypeOK'
  <2>1. QuoteOf[k] \in Quotes /\ TaskTypes'
    BY <1>10, ConfirmsAssumption DEF ConfirmsAssumption, Lookup, Claim, Goto, TypeOK, TaskTypes
  <2> QED
    BY <1>10, <2>1
    DEF TypeOK, Lookup, Claim,
        taskVars, sweepVars, settleVars, fetchVars, ticketVars, takerVars,
        sessionVars
<1>11. ASSUME NEW k \in Confirms, CountConfirm(k) PROVE TypeOK'
  BY <1>11, ConfirmsAssumption
  DEF TypeOK, TaskTypes, CountConfirm, Goto, ConfirmsAssumption,
      taskVars, sweepVars, settleVars, fetchVars, ticketVars, takerVars, sessionVars
<1>12. ASSUME NEW k \in Confirms, TryCommit(k) PROVE TypeOK'
  <2>1. QuoteOf[k] \in Quotes /\ TaskTypes'
    BY <1>12, ConfirmsAssumption DEF ConfirmsAssumption, TryCommit, Goto, TypeOK, TaskTypes
  <2> QED
    BY <1>12, <2>1
    DEF TypeOK, TryCommit, Goto,
        taskVars, sweepVars, settleVars, fetchVars, ticketVars, takerVars,
        sessionVars
<1>13. ASSUME NEW k \in Confirms, Select(k) PROVE TypeOK'
  BY <1>13, ConfirmsAssumption
  DEF TypeOK, TaskTypes, Select, Goto, ConfirmsAssumption,
      taskVars, sweepVars, settleVars, fetchVars, ticketVars, takerVars, sessionVars
<1>14. ASSUME NEW k \in Confirms, ReserveV2(k) PROVE TypeOK'
  <2>1. QuoteOf[k] \in Quotes /\ TaskTypes'
    BY <1>14, ConfirmsAssumption, ZeroLost DEF ConfirmsAssumption, ReserveV2, Goto, TypeOK, TaskTypes
  <2> QED
    BY <1>14, <2>1
    DEF TypeOK, ReserveV2, Goto,
        taskVars, sweepVars, settleVars, fetchVars, ticketVars, takerVars,
        sessionVars
<1>15. ASSUME NEW k \in Confirms, LoseRace(k) PROVE TypeOK'
  <2>1. lost' \in [Confirms -> 0 .. ReserveAttempts - 1]
    BY <1>15, ZeroLost, BoundsAssumption DEF LoseRace, TypeOK, TaskTypes, BoundsAssumption
  <2>2. TaskTypes'
    BY <1>15, <2>1 DEF LoseRace, Goto, TypeOK, TaskTypes
  <2> QED
    BY <1>15, <2>2
    DEF TypeOK, LoseRace, Goto,
        taskVars, sweepVars, settleVars, fetchVars, ticketVars, takerVars,
        sessionVars
<1>16. ASSUME NEW k \in Confirms, TakeTicket(k) PROVE TypeOK'
  <2>0. ticket' \in [Confirms -> Tickets \cup {NoTicket}]
    BY <1>16 DEF TakeTicket, TypeOK, TaskTypes
  <2>1. QuoteOf[k] \in Quotes /\ TaskTypes'
    BY <1>16, <2>0, ConfirmsAssumption
    DEF ConfirmsAssumption, TakeTicket, Goto, TypeOK, TaskTypes
  <2>2. QuoteOf[k] # NoQuote
    BY <2>1, SetsAssumption DEF SetsAssumption
  <2> QED
    BY <1>16, <2>1, <2>2
    DEF TypeOK, TakeTicket, Assign,
        taskVars, sweepVars, settleVars, fetchVars, ticketVars, takerVars,
        sessionVars
<1>17. ASSUME NEW k \in Confirms, Fail(k) PROVE TypeOK'
  <2>1. TaskTypes'
    BY <1>17, ZeroLost DEF Fail, Goto, TypeOK, TaskTypes
  <2> QED
    BY <1>17, <2>1
    DEF TypeOK, Fail, Goto,
        taskVars, sweepVars, settleVars, fetchVars, ticketVars, takerVars,
        sessionVars
<1>18. ASSUME NEW k \in Confirms, Issue(k) PROVE TypeOK'
  <2>1. QuoteOf[k] \in Quotes /\ TaskTypes'
    BY <1>18, ConfirmsAssumption DEF ConfirmsAssumption, Issue, Goto, TypeOK, TaskTypes
  <2>2. [cids |-> picks[k], ticket |-> ticket[k]]
          \in [cids : SUBSET Cids, ticket : Tickets \cup {NoTicket}]
    BY DEF TypeOK, TaskTypes
  <2>3. signed' \in [Quotes -> [cids : SUBSET Cids, ticket : Tickets \cup {NoTicket}]]
    BY <1>18, <2>1, <2>2 DEF Issue, TypeOK
  <2>4. entry' \in [Quotes -> {"none", "indicative", "confirming", "confirmed",
                              "restored", "settled", "expired"}]
    BY <1>18, <2>1 DEF Issue, TypeOK
  <2>5. net' \in [Quotes -> {"none", "pending", "settled"}]
    BY <1>18, <2>1 DEF Issue, TypeOK
  <2> QED
    BY <1>18, <2>1, <2>3, <2>4, <2>5
    DEF TypeOK, Issue, Goto,
        taskVars, sweepVars, settleVars, fetchVars, ticketVars, takerVars,
        sessionVars
<1>19. ASSUME NEW k \in Confirms, Send(k) PROVE TypeOK'
  <2>1. QuoteOf[k] \in Quotes /\ TaskTypes'
    BY <1>19, ConfirmsAssumption, EndsTypes DEF ConfirmsAssumption, Send
  <2> QED
    BY <1>19, <2>1
    DEF TypeOK, Send, Ends,
        taskVars, sweepVars, settleVars, fetchVars, ticketVars, takerVars,
        sessionVars
<1>20. ASSUME NEW k \in Confirms, UndoFunds(k) PROVE TypeOK'
  BY <1>20, ConfirmsAssumption
  DEF TypeOK, TaskTypes, UndoFunds, Goto, ReleaseFunds, Reversed, ConfirmsAssumption,
      taskVars, sweepVars, settleVars, fetchVars, ticketVars, takerVars, sessionVars
<1>21. ASSUME NEW k \in Confirms, UndoCids(k) PROVE TypeOK'
  BY <1>21, ConfirmsAssumption
  DEF TypeOK, TaskTypes, UndoCids, Goto, ReleaseReservations, ConfirmsAssumption,
      taskVars, sweepVars, settleVars, fetchVars, ticketVars, takerVars, sessionVars
<1>22. ASSUME NEW k \in Confirms, UndoTicket(k) PROVE TypeOK'
  <2>1. QuoteOf[k] \in Quotes /\ TaskTypes'
    BY <1>22, ConfirmsAssumption, EndsTypes DEF ConfirmsAssumption, UndoTicket
  <2> QED
    BY <1>22, <2>1
    DEF TypeOK, UndoTicket, Unassign,
        taskVars, sweepVars, settleVars, fetchVars, ticketVars, takerVars,
        sessionVars
<1>23. ASSUME NEW k \in Confirms, Panic(k) PROVE TypeOK'
  <2>1. TaskTypes'
    BY <1>23, EndsTypes DEF Panic
  <2> QED
    BY <1>23, <2>1
    DEF TypeOK, Panic, Ends,
        taskVars, sweepVars, settleVars, fetchVars, ticketVars, takerVars,
        sessionVars
<1>24. ASSUME StartSweep PROVE TypeOK'
  BY <1>24
  DEF TypeOK, TaskTypes, StartSweep,
      taskVars, sweepVars, settleVars, fetchVars, ticketVars, takerVars, sessionVars
<1>25. ASSUME EndSweep PROVE TypeOK'
  <2>1. net' \in [Quotes -> {"none", "pending", "settled"}]
    BY <1>25 DEF EndSweep, Reversed, TypeOK
  <2>2. /\ pool' \in [Tickets -> {"absent", "free", "assigned", "spent"}]
        /\ assignee' \in [Tickets -> Quotes \cup {NoQuote}]
        /\ \A t \in Tickets : pool'[t] = "assigned" <=> assignee'[t] # NoQuote
    BY <1>25 DEF EndSweep, TypeOK
  <2> QED
    BY <1>25, <2>1, <2>2
    DEF TypeOK, EndSweep, TaskTypes,
        taskVars, sweepVars, settleVars, fetchVars, ticketVars, takerVars,
        sessionVars
<1>26. ASSUME FetchTickets PROVE TypeOK'
  BY <1>26
  DEF TypeOK, TaskTypes, FetchTickets, LiveTickets,
      taskVars, sweepVars, settleVars, fetchVars, ticketVars, takerVars, sessionVars
<1>27. ASSUME ReconcileFromAcs PROVE TypeOK'
  BY <1>27
  DEF TypeOK, TaskTypes, ReconcileFromAcs, Adopt,
      taskVars, sweepVars, settleVars, fetchVars, ticketVars, takerVars, sessionVars
<1>28. ASSUME Shutdown PROVE TypeOK'
  BY <1>28, BoundsAssumption
  DEF TypeOK, TaskTypes, Shutdown, BoundsAssumption,
      taskVars, sweepVars, settleVars, fetchVars, ticketVars, takerVars, sessionVars
<1>29. ASSUME SaveAndRestart PROVE TypeOK'
  <2>1. TaskTypes'
    BY <1>29, ZeroLost DEF SaveAndRestart, TypeOK, TaskTypes
  <2>2. /\ pool' \in [Tickets -> {"absent", "free", "assigned", "spent"}]
        /\ assignee' \in [Tickets -> Quotes \cup {NoQuote}]
        /\ \A t \in Tickets : pool'[t] = "assigned" <=> assignee'[t] # NoQuote
    BY <1>29 DEF SaveAndRestart, TypeOK
  <2>3. holder' \in [Cids -> Quotes \cup {NoQuote}]
    <3>1. ASSUME NEW c \in Cids PROVE RestoredHolder(c) \in Quotes \cup {NoQuote}
      BY DEF RestoredHolder, Restored
    <3> QED
      BY <1>29, <3>1 DEF SaveAndRestart
  <2>4. restarts' \in 0 .. MaxRestarts /\ closing' = FALSE
    BY <1>29, BoundsAssumption DEF SaveAndRestart, TypeOK, BoundsAssumption
  <2>5. entry' \in [Quotes -> {"none", "indicative", "confirming", "confirmed",
                              "restored", "settled", "expired"}]
    BY <1>29 DEF SaveAndRestart
  <2> QED
    BY <1>29, <2>1, <2>2, <2>3, <2>4, <2>5
    DEF TypeOK, SaveAndRestart, TaskTypes,
        taskVars, sweepVars, settleVars, fetchVars, ticketVars, takerVars,
        sessionVars
<1>30. CASE UNCHANGED vars
  BY <1>30 DEF TypeOK, TaskTypes, vars, taskVars, sweepVars, settleVars, fetchVars, ticketVars, takerVars, sessionVars
<1> QED
  BY <1>1, <1>2, <1>3, <1>4, <1>5, <1>6, <1>7, <1>8, <1>9, <1>10, <1>11, <1>12, <1>13, <1>14, <1>15, <1>16, <1>17, <1>18, <1>19, <1>20, <1>21, <1>22, <1>23, <1>24, <1>25, <1>26, <1>27, <1>28, <1>29, <1>30
  DEF Next, ConfirmStep, SweepStep

-----------------------------------------------------------------------------
(* Control: which task works on which quote, and who releases what.        *)

\* A fresh agent works on nothing.
LEMMA InitControl == Init => Control
  BY DEF Init, Control, TasksOK, OneTask, EntriesOK, SentOK, ConfirmedIsCommitted,
         CommittedOK, OwnersOK, Working, Claimed, Committing, Released

\* Nobody else works on a quote that a task has claimed.
LEMMA AloneAfterClaim ==
  ASSUME IInv, NEW k \in Confirms, pc[k] \in Claimed,
         NEW j \in Confirms, j # k, QuoteOf[j] = QuoteOf[k]
  PROVE  ~ Working(j)
  BY DEF IInv, Control, TasksOK, OneTask, Working, Claimed, Counting

\* Every step keeps the control of confirms, entries and commitments.
LEMMA ControlStep == IInv /\ [Next]_vars => Control'
<1> SUFFICES ASSUME IInv, [Next]_vars PROVE Control'
  OBVIOUS
<1>0. committed \subseteq Quotes /\ sent \subseteq Quotes /\ settling \subseteq Quotes
  BY DEF IInv, TypeOK
<1>1. ASSUME NEW q \in Quotes, RegisterIndicative(q) PROVE Control'
  <2>e. /\ age[q] = "unborn" /\ age'[q] = "fresh" /\ entry'[q] = "indicative"
        /\ \A r \in Quotes : r # q => entry'[r] = entry[r] /\ age'[r] = age[r]
        /\ UNCHANGED <<pc, committed, sweeping, sweep, settling, sent>>
    BY <1>1, ConfirmsAssumption
    DEF IInv, TypeOK, TaskTypes, ConfirmsAssumption, RegisterIndicative,
        taskVars, sweepVars, settleVars, fetchVars, ticketVars, takerVars,
        sessionVars
  <2>1. TasksOK'
    BY <1>0, <2>e, ConfirmsAssumption
    DEF IInv, Control, ConfirmsAssumption, TasksOK, Counting, Claimed, Working
  <2>2. OneTask'
    BY <1>0, <2>e, ConfirmsAssumption
    DEF IInv, Control, ConfirmsAssumption, TasksOK, OneTask, Counting,
        Claimed, Working
  <2>3. EntriesOK'
    BY <1>0, <2>e, ConfirmsAssumption
    DEF IInv, Control, ConfirmsAssumption, TasksOK, OneTask, EntriesOK,
        Counting, Claimed, Working
  <2>4. SentOK'
    BY <1>0, <2>e, ConfirmsAssumption
    DEF IInv, Control, ConfirmsAssumption, TasksOK, EntriesOK, SentOK,
        Counting, Claimed, Working
  <2>5. ConfirmedIsCommitted'
    BY <1>0, <2>e, ConfirmsAssumption
    DEF IInv, Control, ConfirmsAssumption, OneTask, EntriesOK,
        ConfirmedIsCommitted, CommittedOK, Working, Committing
  <2>6. CommittedOK'
    BY <1>0, <2>e, ConfirmsAssumption
    DEF IInv, Control, ConfirmsAssumption, TasksOK, OneTask, EntriesOK,
        ConfirmedIsCommitted, CommittedOK, Counting, Claimed, Working,
        Committing, Released
  <2>7. OwnersOK'
    BY <1>0, <2>e, ConfirmsAssumption
    DEF IInv, Control, ConfirmsAssumption, TasksOK, OneTask, EntriesOK,
        CommittedOK, OwnersOK, Counting, Working, Committing, Released
  <2> QED
    BY <2>1, <2>2, <2>3, <2>4, <2>5, <2>6, <2>7 DEF Control
<1>2. ASSUME NEW q \in Quotes, TimePasses(q) PROVE Control'
  BY <1>2, ConfirmsAssumption
  DEF IInv, Control, TypeOK, TaskTypes, TasksOK, OneTask, EntriesOK, SentOK,
      ConfirmedIsCommitted, CommittedOK, OwnersOK, Counting, Claimed,
      Working, Committing, Released, ConfirmsAssumption, TimePasses, Later,
      taskVars, sweepVars, settleVars, fetchVars, ticketVars, takerVars,
      sessionVars
<1>3. ASSUME NEW q \in Quotes, ObserveSettle(q) PROVE Control'
  BY <1>3, ConfirmsAssumption
  DEF IInv, Control, TypeOK, TaskTypes, TasksOK, OneTask, EntriesOK, SentOK,
      ConfirmedIsCommitted, CommittedOK, OwnersOK, Counting, Claimed,
      Working, Committing, Released, ConfirmsAssumption, ObserveSettle,
      taskVars, sweepVars, settleVars, fetchVars, ticketVars, takerVars,
      sessionVars
<1>4. ASSUME NEW q \in Quotes, FinishSettle(q) PROVE Control'
  BY <1>4, ConfirmsAssumption
  DEF IInv, Control, TypeOK, TaskTypes, TasksOK, OneTask, EntriesOK, SentOK,
      ConfirmedIsCommitted, CommittedOK, OwnersOK, Counting, Claimed,
      Working, Committing, Released, ConfirmsAssumption, FinishSettle,
      CountSettled, taskVars, sweepVars, settleVars, fetchVars, ticketVars,
      takerVars, sessionVars
<1>5. ASSUME NEW q \in Quotes, SweepFunds(q) PROVE Control'
  BY <1>5, ConfirmsAssumption
  DEF IInv, Control, TypeOK, TaskTypes, TasksOK, OneTask, EntriesOK, SentOK,
      ConfirmedIsCommitted, CommittedOK, OwnersOK, Counting, Claimed,
      Working, Committing, Released, ConfirmsAssumption, SweepFunds,
      ReleaseFunds, Reversed, taskVars, sweepVars, settleVars, fetchVars,
      ticketVars, takerVars, sessionVars
<1>6. ASSUME NEW q \in Quotes, SweepCids(q) PROVE Control'
  BY <1>6, ConfirmsAssumption
  DEF IInv, Control, TypeOK, TaskTypes, TasksOK, OneTask, EntriesOK, SentOK,
      ConfirmedIsCommitted, CommittedOK, OwnersOK, Counting, Claimed,
      Working, Committing, Released, ConfirmsAssumption, SweepCids,
      ReleaseReservations, taskVars, sweepVars, settleVars, fetchVars,
      ticketVars, takerVars, sessionVars
<1>7. ASSUME NEW q \in Quotes, SweepTicket(q) PROVE Control'
  BY <1>7, ConfirmsAssumption
  DEF IInv, Control, TypeOK, TaskTypes, TasksOK, OneTask, EntriesOK, SentOK,
      ConfirmedIsCommitted, CommittedOK, OwnersOK, Counting, Claimed,
      Working, Committing, Released, ConfirmsAssumption, SweepTicket,
      Unassign, taskVars, sweepVars, settleVars, fetchVars, ticketVars,
      takerVars, sessionVars
<1>8. ASSUME NEW k \in Confirms, Lookup(k) PROVE Control'
  <2>e. /\ QuoteOf[k] \in Quotes
        /\ pc[k] = "idle"
        /\ \A j \in Confirms : j # k => pc'[j] = pc[j]
        /\ \/ /\ entry[QuoteOf[k]] = "indicative" /\ age[QuoteOf[k]] = "fresh"
              /\ entry'[QuoteOf[k]] = "confirming" /\ age'[QuoteOf[k]] = "open"
              /\ pc'[k] = "claimed"
           \/ /\ entry[QuoteOf[k]] = "confirmed" /\ pc'[k] = "send"
              /\ UNCHANGED <<entry, age>>
           \/ /\ age[QuoteOf[k]] = "stale" /\ pc'[k] = "rejectFunds"
              /\ UNCHANGED <<entry, age>>
           \/ pc'[k] = "done" /\ UNCHANGED <<entry, age>>
        /\ \A r \in Quotes : r # QuoteOf[k] => entry'[r] = entry[r]
        /\ \A r \in Quotes : r # QuoteOf[k] => age'[r] = age[r]
        /\ UNCHANGED <<committed, sweeping, sweep, settling, sent>>
    BY <1>8, ConfirmsAssumption
    DEF IInv, TypeOK, TaskTypes, ConfirmsAssumption, Lookup, Claim, Goto,
        taskVars, sweepVars, settleVars, fetchVars, ticketVars, takerVars,
        sessionVars
  <2>a. age[QuoteOf[k]] = "fresh" =>
          /\ QuoteOf[k] \notin sent
          /\ \A j \in Confirms : QuoteOf[j] = QuoteOf[k] => pc[j] \in {"idle", "done"}
    BY <2>e DEF IInv, Control, SentOK, TasksOK, Working, Counting
  <2>1. TasksOK'
    BY <1>0, <2>e, <2>a, ConfirmsAssumption
    DEF IInv, Control, ConfirmsAssumption, TasksOK, Counting, Claimed, Working
  <2>2. OneTask'
    BY <1>0, <2>e, <2>a, ConfirmsAssumption
    DEF IInv, Control, ConfirmsAssumption, TasksOK, OneTask, Counting,
        Claimed, Working
  <2>3. EntriesOK'
    BY <1>0, <2>e, <2>a, ConfirmsAssumption
    DEF IInv, Control, ConfirmsAssumption, TasksOK, OneTask, EntriesOK,
        Counting, Claimed, Working
  <2>4. SentOK'
    <3>1. CASE pc'[k] = "claimed"
      <4>1. ASSUME NEW r \in sent
            PROVE  entry'[r] # "confirming" /\ age'[r] \in Counting
        BY <3>1, <2>e, <2>a DEF IInv, TypeOK, Control, SentOK
      <4>2. ASSUME NEW j \in Confirms, pc'[j] = "send"
            PROVE  entry'[QuoteOf[j]] # "confirming" /\ age'[QuoteOf[j]] \in Counting
        <5>1. j # k /\ pc[j] = "send" /\ QuoteOf[j] \in Quotes
          BY <3>1, <4>2, <2>e, ConfirmsAssumption DEF ConfirmsAssumption
        <5>2. QuoteOf[j] # QuoteOf[k]
          BY <3>1, <5>1, <2>e, <2>a
        <5> QED
          BY <5>1, <5>2, <2>e DEF IInv, Control, SentOK
      <4> QED
        BY <4>1, <4>2, <2>e DEF SentOK
    <3>2. CASE pc'[k] = "send"
      BY <1>0, <2>e, <3>2, <2>a, ConfirmsAssumption
      DEF IInv, Control, ConfirmsAssumption, TasksOK, EntriesOK, SentOK,
          Counting, Claimed, Working
    <3>3. CASE pc'[k] = "rejectFunds"
      BY <1>0, <2>e, <3>3, <2>a, ConfirmsAssumption
      DEF IInv, Control, ConfirmsAssumption, TasksOK, EntriesOK, SentOK,
          Counting, Claimed, Working
    <3>4. CASE pc'[k] = "done"
      BY <1>0, <2>e, <3>4, <2>a, ConfirmsAssumption
      DEF IInv, Control, ConfirmsAssumption, TasksOK, EntriesOK, SentOK,
          Counting, Claimed, Working
    <3> QED
      BY <2>e, <3>1, <3>2, <3>3, <3>4
  <2>5. ConfirmedIsCommitted'
    BY <1>0, <2>e, <2>a, ConfirmsAssumption
    DEF IInv, Control, ConfirmsAssumption, OneTask, EntriesOK,
        ConfirmedIsCommitted, CommittedOK, Working, Committing
  <2>6. CommittedOK'
    <3>1. CASE pc'[k] = "claimed"
      <4>1. \A r \in committed : r \in Quotes /\ r # QuoteOf[k]
        BY <3>1, <2>e DEF IInv, TypeOK, Control, CommittedOK, Counting
      <4>2. ASSUME NEW j \in Confirms
            PROVE  /\ pc'[j] \in Committing /\ entry'[QuoteOf[j]] = "confirming" =>
                        QuoteOf[j] \in committed
                   /\ pc'[j] \in Released => QuoteOf[j] \notin committed
        <5>1. CASE j = k
          BY <3>1, <5>1 DEF Committing, Released
        <5>2. CASE j # k /\ QuoteOf[j] = QuoteOf[k]
          BY <3>1, <5>2, <2>e, <2>a DEF Committing, Released
        <5>3. CASE j # k /\ QuoteOf[j] # QuoteOf[k]
          <6>1. pc'[j] = pc[j] /\ entry'[QuoteOf[j]] = entry[QuoteOf[j]]
            BY <5>3, <2>e, ConfirmsAssumption DEF ConfirmsAssumption
          <6> QED
            BY <6>1 DEF IInv, Control, CommittedOK
        <5> QED
          BY <5>1, <5>2, <5>3
      <4>3. \A r \in committed : age'[r] \in Counting
        BY <4>1, <2>e DEF IInv, Control, CommittedOK
      <4> QED
        BY <4>2, <4>3, <2>e DEF CommittedOK
    <3>2. CASE pc'[k] = "send"
      BY <1>0, <2>e, <3>2, <2>a, ConfirmsAssumption
      DEF IInv, Control, ConfirmsAssumption, TasksOK, OneTask, EntriesOK,
          ConfirmedIsCommitted, CommittedOK, Counting, Claimed, Working,
          Committing, Released
    <3>3. CASE pc'[k] = "rejectFunds"
      BY <1>0, <2>e, <3>3, <2>a, ConfirmsAssumption
      DEF IInv, Control, ConfirmsAssumption, TasksOK, OneTask, EntriesOK,
          ConfirmedIsCommitted, CommittedOK, Counting, Claimed, Working,
          Committing, Released
    <3>4. CASE pc'[k] = "done"
      BY <1>0, <2>e, <3>4, <2>a, ConfirmsAssumption
      DEF IInv, Control, ConfirmsAssumption, TasksOK, OneTask, EntriesOK,
          ConfirmedIsCommitted, CommittedOK, Counting, Claimed, Working,
          Committing, Released
    <3> QED
      BY <2>e, <3>1, <3>2, <3>3, <3>4
  <2>7. OwnersOK'
    BY <1>0, <2>e, <2>a, ConfirmsAssumption
    DEF IInv, Control, ConfirmsAssumption, TasksOK, OneTask, EntriesOK,
        CommittedOK, OwnersOK, Counting, Working, Committing, Released
  <2> QED
    BY <2>1, <2>2, <2>3, <2>4, <2>5, <2>6, <2>7 DEF Control
<1>9. ASSUME NEW k \in Confirms, CountConfirm(k) PROVE Control'
  <2>e. /\ QuoteOf[k] \in Quotes
        /\ pc[k] = "claimed" /\ pc'[k] = "counted"
        /\ \A j \in Confirms : j # k => pc'[j] = pc[j]
        /\ UNCHANGED <<entry, age, committed, sweeping, sweep, settling, sent>>
    BY <1>9, ConfirmsAssumption
    DEF IInv, TypeOK, TaskTypes, ConfirmsAssumption, CountConfirm, Goto,
        taskVars, sweepVars, settleVars, fetchVars, ticketVars, takerVars,
        sessionVars
  <2>1. TasksOK'
    BY <1>0, <2>e, ConfirmsAssumption
    DEF IInv, Control, ConfirmsAssumption, TasksOK, Counting, Claimed, Working
  <2>2. OneTask'
    BY <1>0, <2>e, ConfirmsAssumption
    DEF IInv, Control, ConfirmsAssumption, TasksOK, OneTask, Counting,
        Claimed, Working
  <2>3. EntriesOK'
    BY <1>0, <2>e, ConfirmsAssumption
    DEF IInv, Control, ConfirmsAssumption, TasksOK, OneTask, EntriesOK,
        Counting, Claimed, Working
  <2>4. SentOK'
    BY <1>0, <2>e, ConfirmsAssumption
    DEF IInv, Control, ConfirmsAssumption, TasksOK, EntriesOK, SentOK,
        Counting, Claimed, Working
  <2>5. ConfirmedIsCommitted'
    BY <1>0, <2>e, ConfirmsAssumption
    DEF IInv, Control, ConfirmsAssumption, OneTask, EntriesOK,
        ConfirmedIsCommitted, CommittedOK, Working, Committing
  <2>6. CommittedOK'
    BY <1>0, <2>e, ConfirmsAssumption
    DEF IInv, Control, ConfirmsAssumption, TasksOK, OneTask, EntriesOK,
        ConfirmedIsCommitted, CommittedOK, Counting, Claimed, Working,
        Committing, Released
  <2>7. OwnersOK'
    BY <1>0, <2>e, ConfirmsAssumption
    DEF IInv, Control, ConfirmsAssumption, TasksOK, OneTask, EntriesOK,
        CommittedOK, OwnersOK, Counting, Working, Committing, Released
  <2> QED
    BY <2>1, <2>2, <2>3, <2>4, <2>5, <2>6, <2>7 DEF Control
<1>10. ASSUME NEW k \in Confirms, TryCommit(k) PROVE Control'
  <2>e. /\ QuoteOf[k] \in Quotes
        /\ pc[k] = "counted" /\ pc'[k] = "committed"
        /\ \A j \in Confirms : j # k => pc'[j] = pc[j]
        /\ committed' = committed \cup {QuoteOf[k]}
        /\ UNCHANGED <<entry, age, sweeping, sweep, settling, sent>>
    BY <1>10, ConfirmsAssumption
    DEF IInv, TypeOK, TaskTypes, ConfirmsAssumption, TryCommit, Goto,
        taskVars, sweepVars, settleVars, fetchVars, ticketVars, takerVars,
        sessionVars
  <2>a. \A j \in Confirms : j # k /\ QuoteOf[j] = QuoteOf[k] => ~ Working(j)
    BY <2>e, AloneAfterClaim DEF Claimed
  <2>1. TasksOK'
    BY <1>0, <2>e, <2>a, ConfirmsAssumption
    DEF IInv, Control, ConfirmsAssumption, TasksOK, Counting, Claimed, Working
  <2>2. OneTask'
    BY <1>0, <2>e, <2>a, ConfirmsAssumption
    DEF IInv, Control, ConfirmsAssumption, TasksOK, OneTask, Counting,
        Claimed, Working
  <2>3. EntriesOK'
    BY <1>0, <2>e, <2>a, ConfirmsAssumption
    DEF IInv, Control, ConfirmsAssumption, TasksOK, OneTask, EntriesOK,
        Counting, Claimed, Working
  <2>4. SentOK'
    BY <1>0, <2>e, <2>a, ConfirmsAssumption
    DEF IInv, Control, ConfirmsAssumption, TasksOK, EntriesOK, SentOK,
        Counting, Claimed, Working
  <2>5. ConfirmedIsCommitted'
    BY <1>0, <2>e, <2>a, ConfirmsAssumption
    DEF IInv, Control, ConfirmsAssumption, OneTask, EntriesOK,
        ConfirmedIsCommitted, CommittedOK, Working, Committing
  <2>6. CommittedOK'
    BY <1>0, <2>e, <2>a, ConfirmsAssumption
    DEF IInv, Control, ConfirmsAssumption, TasksOK, OneTask, EntriesOK,
        ConfirmedIsCommitted, CommittedOK, Counting, Claimed, Working,
        Committing, Released
  <2>7. OwnersOK'
    BY <1>0, <2>e, <2>a, ConfirmsAssumption
    DEF IInv, Control, ConfirmsAssumption, TasksOK, OneTask, EntriesOK,
        CommittedOK, OwnersOK, Counting, Working, Committing, Released
  <2> QED
    BY <2>1, <2>2, <2>3, <2>4, <2>5, <2>6, <2>7 DEF Control
<1>11. ASSUME NEW k \in Confirms, Select(k) PROVE Control'
  BY <1>11, ConfirmsAssumption
  DEF IInv, Control, TypeOK, TaskTypes, TasksOK, OneTask, EntriesOK, SentOK,
      ConfirmedIsCommitted, CommittedOK, OwnersOK, Counting, Claimed,
      Working, Committing, Released, ConfirmsAssumption, Select, Goto,
      taskVars, sweepVars, settleVars, fetchVars, ticketVars, takerVars,
      sessionVars
<1>12. ASSUME NEW k \in Confirms, ReserveV2(k) PROVE Control'
  BY <1>12, ConfirmsAssumption
  DEF IInv, Control, TypeOK, TaskTypes, TasksOK, OneTask, EntriesOK, SentOK,
      ConfirmedIsCommitted, CommittedOK, OwnersOK, Counting, Claimed,
      Working, Committing, Released, ConfirmsAssumption, ReserveV2, Goto,
      taskVars, sweepVars, settleVars, fetchVars, ticketVars, takerVars,
      sessionVars
<1>13. ASSUME NEW k \in Confirms, LoseRace(k) PROVE Control'
  <2>e. /\ QuoteOf[k] \in Quotes
        /\ pc[k] = "picked" /\ pc'[k] \in {"committed", "rejectFunds"}
        /\ \A j \in Confirms : j # k => pc'[j] = pc[j]
        /\ UNCHANGED <<entry, age, committed, sweeping, sweep, settling, sent>>
    BY <1>13, ConfirmsAssumption
    DEF IInv, TypeOK, TaskTypes, ConfirmsAssumption, LoseRace, Goto,
        taskVars, sweepVars, settleVars, fetchVars, ticketVars, takerVars,
        sessionVars
  <2>1. TasksOK'
    BY <1>0, <2>e, ConfirmsAssumption
    DEF IInv, Control, ConfirmsAssumption, TasksOK, Counting, Claimed, Working
  <2>2. OneTask'
    BY <1>0, <2>e, ConfirmsAssumption
    DEF IInv, Control, ConfirmsAssumption, TasksOK, OneTask, Counting,
        Claimed, Working
  <2>3. EntriesOK'
    BY <1>0, <2>e, ConfirmsAssumption
    DEF IInv, Control, ConfirmsAssumption, TasksOK, OneTask, EntriesOK,
        Counting, Claimed, Working
  <2>4. SentOK'
    BY <1>0, <2>e, ConfirmsAssumption
    DEF IInv, Control, ConfirmsAssumption, TasksOK, EntriesOK, SentOK,
        Counting, Claimed, Working
  <2>5. ConfirmedIsCommitted'
    BY <1>0, <2>e, ConfirmsAssumption
    DEF IInv, Control, ConfirmsAssumption, OneTask, EntriesOK,
        ConfirmedIsCommitted, CommittedOK, Working, Committing
  <2>6. CommittedOK'
    BY <1>0, <2>e, ConfirmsAssumption
    DEF IInv, Control, ConfirmsAssumption, TasksOK, OneTask, EntriesOK,
        ConfirmedIsCommitted, CommittedOK, Counting, Claimed, Working,
        Committing, Released
  <2>7. OwnersOK'
    BY <1>0, <2>e, ConfirmsAssumption
    DEF IInv, Control, ConfirmsAssumption, TasksOK, OneTask, EntriesOK,
        CommittedOK, OwnersOK, Counting, Working, Committing, Released
  <2> QED
    BY <2>1, <2>2, <2>3, <2>4, <2>5, <2>6, <2>7 DEF Control
<1>14. ASSUME NEW k \in Confirms, TakeTicket(k) PROVE Control'
  BY <1>14, ConfirmsAssumption
  DEF IInv, Control, TypeOK, TaskTypes, TasksOK, OneTask, EntriesOK, SentOK,
      ConfirmedIsCommitted, CommittedOK, OwnersOK, Counting, Claimed,
      Working, Committing, Released, ConfirmsAssumption, TakeTicket, Goto,
      Assign, taskVars, sweepVars, settleVars, fetchVars, ticketVars,
      takerVars, sessionVars
<1>15. ASSUME NEW k \in Confirms, Fail(k) PROVE Control'
  BY <1>15, ConfirmsAssumption
  DEF IInv, Control, TypeOK, TaskTypes, TasksOK, OneTask, EntriesOK, SentOK,
      ConfirmedIsCommitted, CommittedOK, OwnersOK, Counting, Claimed,
      Working, Committing, Released, ConfirmsAssumption, Fail, Goto,
      taskVars, sweepVars, settleVars, fetchVars, ticketVars, takerVars,
      sessionVars
<1>16. ASSUME NEW k \in Confirms, Issue(k) PROVE Control'
  <2>e. /\ QuoteOf[k] \in Quotes
        /\ pc[k] = "ready"
        /\ \A j \in Confirms : j # k => pc'[j] = pc[j]
        /\ \/ /\ entry[QuoteOf[k]] = "confirming" /\ entry'[QuoteOf[k]] = "confirmed"
              /\ pc'[k] = "send"
           \/ pc'[k] = "withholdFunds" /\ UNCHANGED entry
        /\ \A r \in Quotes : r # QuoteOf[k] => entry'[r] = entry[r]
        /\ UNCHANGED <<age, committed, sweeping, sweep, settling, sent>>
    BY <1>16, ConfirmsAssumption
    DEF IInv, TypeOK, TaskTypes, ConfirmsAssumption, Issue, Goto, Owns,
        taskVars, sweepVars, settleVars, fetchVars, ticketVars, takerVars,
        sessionVars
  <2>a. \A j \in Confirms : j # k /\ QuoteOf[j] = QuoteOf[k] => ~ Working(j)
    BY <2>e, AloneAfterClaim DEF Claimed
  <2>1. TasksOK'
    BY <1>0, <2>e, <2>a, ConfirmsAssumption
    DEF IInv, Control, ConfirmsAssumption, TasksOK, Counting, Claimed, Working
  <2>2. OneTask'
    BY <1>0, <2>e, <2>a, ConfirmsAssumption
    DEF IInv, Control, ConfirmsAssumption, TasksOK, OneTask, Counting,
        Claimed, Working
  <2>3. EntriesOK'
    <3>1. CASE pc'[k] = "send"
      BY <1>0, <2>e, <3>1, <2>a, ConfirmsAssumption
      DEF IInv, Control, ConfirmsAssumption, TasksOK, OneTask, EntriesOK,
          Counting, Claimed, Working
    <3>2. CASE pc'[k] = "withholdFunds"
      BY <1>0, <2>e, <3>2, <2>a, ConfirmsAssumption
      DEF IInv, Control, ConfirmsAssumption, TasksOK, OneTask, EntriesOK,
          Counting, Claimed, Working
    <3> QED
      BY <2>e, <3>1, <3>2
  <2>4. SentOK'
    <3>1. CASE pc'[k] = "send"
      BY <1>0, <2>e, <3>1, <2>a, ConfirmsAssumption
      DEF IInv, Control, ConfirmsAssumption, TasksOK, EntriesOK, SentOK,
          Counting, Claimed, Working
    <3>2. CASE pc'[k] = "withholdFunds"
      BY <1>0, <2>e, <3>2, <2>a, ConfirmsAssumption
      DEF IInv, Control, ConfirmsAssumption, TasksOK, EntriesOK, SentOK,
          Counting, Claimed, Working
    <3> QED
      BY <2>e, <3>1, <3>2
  <2>5. ConfirmedIsCommitted'
    BY <1>0, <2>e, <2>a, ConfirmsAssumption
    DEF IInv, Control, ConfirmsAssumption, OneTask, EntriesOK,
        ConfirmedIsCommitted, CommittedOK, Working, Committing
  <2>6. CommittedOK'
    BY <1>0, <2>e, <2>a, ConfirmsAssumption
    DEF IInv, Control, ConfirmsAssumption, TasksOK, OneTask, EntriesOK,
        ConfirmedIsCommitted, CommittedOK, Counting, Claimed, Working,
        Committing, Released
  <2>7. OwnersOK'
    <3>1. CASE pc'[k] = "send"
      <4>1. ASSUME NEW r \in committed
            PROVE  \/ entry'[r] \in {"confirming", "confirmed"}
                   \/ \E j \in Confirms : /\ QuoteOf[j] = r
                                         /\ pc'[j] \in Committing \cup {"rejectFunds", "withholdFunds"}
                   \/ sweeping[r] \in {"confirmed", "abandoned"}
                   \/ r \in settling
        <5>1. CASE r = QuoteOf[k]
          BY <3>1, <5>1, <2>e, <2>a
        <5>2. CASE r # QuoteOf[k]
          <6>1. r \in Quotes /\ entry'[r] = entry[r]
            BY <5>2, <2>e DEF IInv, TypeOK
          <6>2. \A j \in Confirms : QuoteOf[j] = r => pc'[j] = pc[j]
            BY <5>2, <2>e
          <6> QED
            BY <6>1, <6>2 DEF IInv, Control, OwnersOK
        <5> QED
          BY <5>1, <5>2
      <4> QED
        BY <4>1, <2>e DEF IInv, Control, OwnersOK
    <3>2. CASE pc'[k] = "withholdFunds"
      BY <1>0, <2>e, <3>2, <2>a, ConfirmsAssumption
      DEF IInv, Control, ConfirmsAssumption, TasksOK, OneTask, EntriesOK,
          CommittedOK, OwnersOK, Counting, Working, Committing, Released
    <3> QED
      BY <2>e, <3>1, <3>2
  <2> QED
    BY <2>1, <2>2, <2>3, <2>4, <2>5, <2>6, <2>7 DEF Control
<1>17. ASSUME NEW k \in Confirms, Send(k) PROVE Control'
  <2>e. /\ QuoteOf[k] \in Quotes
        /\ pc[k] = "send" /\ pc'[k] = "done"
        /\ \A j \in Confirms : j # k => pc'[j] = pc[j]
        /\ sent' \in {sent, sent \cup {QuoteOf[k]}}
        /\ UNCHANGED <<entry, age, committed, sweeping, sweep, settling>>
    BY <1>17, ConfirmsAssumption
    DEF IInv, TypeOK, TaskTypes, ConfirmsAssumption, Send, Ends, Goto,
        taskVars, sweepVars, settleVars, fetchVars, ticketVars, takerVars,
        sessionVars
  <2>1. TasksOK'
    BY <1>0, <2>e, ConfirmsAssumption
    DEF IInv, Control, ConfirmsAssumption, TasksOK, Counting, Claimed, Working
  <2>2. OneTask'
    BY <1>0, <2>e, ConfirmsAssumption
    DEF IInv, Control, ConfirmsAssumption, TasksOK, OneTask, Counting,
        Claimed, Working
  <2>3. EntriesOK'
    BY <1>0, <2>e, ConfirmsAssumption
    DEF IInv, Control, ConfirmsAssumption, TasksOK, OneTask, EntriesOK,
        Counting, Claimed, Working
  <2>4. SentOK'
    BY <1>0, <2>e, ConfirmsAssumption
    DEF IInv, Control, ConfirmsAssumption, TasksOK, EntriesOK, SentOK,
        Counting, Claimed, Working
  <2>5. ConfirmedIsCommitted'
    BY <1>0, <2>e, ConfirmsAssumption
    DEF IInv, Control, ConfirmsAssumption, OneTask, EntriesOK,
        ConfirmedIsCommitted, CommittedOK, Working, Committing
  <2>6. CommittedOK'
    BY <1>0, <2>e, ConfirmsAssumption
    DEF IInv, Control, ConfirmsAssumption, TasksOK, OneTask, EntriesOK,
        ConfirmedIsCommitted, CommittedOK, Counting, Claimed, Working,
        Committing, Released
  <2>7. OwnersOK'
    BY <1>0, <2>e, ConfirmsAssumption
    DEF IInv, Control, ConfirmsAssumption, TasksOK, OneTask, EntriesOK,
        CommittedOK, OwnersOK, Counting, Working, Committing, Released
  <2> QED
    BY <2>1, <2>2, <2>3, <2>4, <2>5, <2>6, <2>7 DEF Control
<1>18. ASSUME NEW k \in Confirms, UndoFunds(k) PROVE Control'
  <2>e. /\ QuoteOf[k] \in Quotes
        /\ \/ pc[k] = "rejectFunds" /\ pc'[k] = "rejectCids"
           \/ pc[k] = "withholdFunds" /\ pc'[k] = "withholdCids"
        /\ \A j \in Confirms : j # k => pc'[j] = pc[j]
        /\ committed' = committed \ {QuoteOf[k]}
        /\ UNCHANGED <<entry, age, sweeping, sweep, settling, sent>>
    BY <1>18, ConfirmsAssumption
    DEF IInv, TypeOK, TaskTypes, ConfirmsAssumption, UndoFunds, Goto,
        ReleaseFunds, taskVars, sweepVars, settleVars, fetchVars,
        ticketVars, takerVars, sessionVars
  <2>a. pc[k] = "withholdFunds" =>
          \A j \in Confirms : j # k /\ QuoteOf[j] = QuoteOf[k] => ~ Working(j)
    BY <2>e, AloneAfterClaim DEF Claimed
  <2>1. TasksOK'
    BY <1>0, <2>e, <2>a, ConfirmsAssumption
    DEF IInv, Control, ConfirmsAssumption, TasksOK, Counting, Claimed, Working
  <2>2. OneTask'
    BY <1>0, <2>e, <2>a, ConfirmsAssumption
    DEF IInv, Control, ConfirmsAssumption, TasksOK, OneTask, Counting,
        Claimed, Working
  <2>3. EntriesOK'
    BY <1>0, <2>e, <2>a, ConfirmsAssumption
    DEF IInv, Control, ConfirmsAssumption, TasksOK, OneTask, EntriesOK,
        Counting, Claimed, Working
  <2>4. SentOK'
    BY <1>0, <2>e, <2>a, ConfirmsAssumption
    DEF IInv, Control, ConfirmsAssumption, TasksOK, EntriesOK, SentOK,
        Counting, Claimed, Working
  <2>5. ConfirmedIsCommitted'
    BY <1>0, <2>e, <2>a, ConfirmsAssumption
    DEF IInv, Control, ConfirmsAssumption, OneTask, EntriesOK,
        ConfirmedIsCommitted, CommittedOK, Working, Committing
  <2>6. CommittedOK'
    <3>1. CASE pc[k] = "rejectFunds"
      BY <1>0, <2>e, <3>1, <2>a, ConfirmsAssumption
      DEF IInv, Control, ConfirmsAssumption, TasksOK, OneTask, EntriesOK,
          ConfirmedIsCommitted, CommittedOK, Counting, Claimed, Working,
          Committing, Released
    <3>2. CASE pc[k] = "withholdFunds"
      BY <1>0, <2>e, <3>2, <2>a, ConfirmsAssumption
      DEF IInv, Control, ConfirmsAssumption, TasksOK, OneTask, EntriesOK,
          ConfirmedIsCommitted, CommittedOK, Counting, Claimed, Working,
          Committing, Released
    <3> QED
      BY <2>e, <3>1, <3>2
  <2>7. OwnersOK'
    BY <1>0, <2>e, <2>a, ConfirmsAssumption
    DEF IInv, Control, ConfirmsAssumption, TasksOK, OneTask, EntriesOK,
        CommittedOK, OwnersOK, Counting, Working, Committing, Released
  <2> QED
    BY <2>1, <2>2, <2>3, <2>4, <2>5, <2>6, <2>7 DEF Control
<1>19. ASSUME NEW k \in Confirms, UndoCids(k) PROVE Control'
  <2>e. /\ QuoteOf[k] \in Quotes
        /\ \/ pc[k] = "rejectCids" /\ pc'[k] = "rejectTicket"
           \/ pc[k] = "withholdCids" /\ pc'[k] = "withholdTicket"
        /\ \A j \in Confirms : j # k => pc'[j] = pc[j]
        /\ UNCHANGED <<entry, age, committed, sweeping, sweep, settling, sent>>
    BY <1>19, ConfirmsAssumption
    DEF IInv, TypeOK, TaskTypes, ConfirmsAssumption, UndoCids, Goto,
        taskVars, sweepVars, settleVars, fetchVars, ticketVars, takerVars,
        sessionVars
  <2>1. TasksOK'
    BY <1>0, <2>e, ConfirmsAssumption
    DEF IInv, Control, ConfirmsAssumption, TasksOK, Counting, Claimed, Working
  <2>2. OneTask'
    BY <1>0, <2>e, ConfirmsAssumption
    DEF IInv, Control, ConfirmsAssumption, TasksOK, OneTask, Counting,
        Claimed, Working
  <2>3. EntriesOK'
    BY <1>0, <2>e, ConfirmsAssumption
    DEF IInv, Control, ConfirmsAssumption, TasksOK, OneTask, EntriesOK,
        Counting, Claimed, Working
  <2>4. SentOK'
    BY <1>0, <2>e, ConfirmsAssumption
    DEF IInv, Control, ConfirmsAssumption, TasksOK, EntriesOK, SentOK,
        Counting, Claimed, Working
  <2>5. ConfirmedIsCommitted'
    BY <1>0, <2>e, ConfirmsAssumption
    DEF IInv, Control, ConfirmsAssumption, OneTask, EntriesOK,
        ConfirmedIsCommitted, CommittedOK, Working, Committing
  <2>6. CommittedOK'
    BY <1>0, <2>e, ConfirmsAssumption
    DEF IInv, Control, ConfirmsAssumption, TasksOK, OneTask, EntriesOK,
        ConfirmedIsCommitted, CommittedOK, Counting, Claimed, Working,
        Committing, Released
  <2>7. OwnersOK'
    BY <1>0, <2>e, ConfirmsAssumption
    DEF IInv, Control, ConfirmsAssumption, TasksOK, OneTask, EntriesOK,
        CommittedOK, OwnersOK, Counting, Working, Committing, Released
  <2> QED
    BY <2>1, <2>2, <2>3, <2>4, <2>5, <2>6, <2>7 DEF Control
<1>20. ASSUME NEW k \in Confirms, UndoTicket(k) PROVE Control'
  <2>p. /\ QuoteOf[k] \in Quotes /\ pc'[k] = "done"
        /\ \A j \in Confirms : j # k => pc'[j] = pc[j]
    BY <1>20, ConfirmsAssumption
    DEF IInv, TypeOK, TaskTypes, ConfirmsAssumption, UndoTicket, Ends, Goto
  <2>e. /\ QuoteOf[k] \in Quotes
        /\ \/ pc[k] = "rejectTicket" /\ entry'[QuoteOf[k]] = "none"
           \/ pc[k] = "withholdTicket" /\ UNCHANGED entry
        /\ pc'[k] = "done"
        /\ \A j \in Confirms : j # k => pc'[j] = pc[j]
        /\ \A r \in Quotes : r # QuoteOf[k] => entry'[r] = entry[r]
        /\ UNCHANGED <<age, committed, sweeping, sweep, settling, sent>>
    BY <1>20, <2>p
    DEF IInv, TypeOK, TaskTypes, ConfirmsAssumption, UndoTicket, taskVars,
        sweepVars, settleVars, fetchVars, ticketVars, takerVars, sessionVars
  <2>a. QuoteOf[k] \notin committed
    BY <2>e DEF IInv, Control, CommittedOK, Released
  <2>1. TasksOK'
    BY <1>0, <2>e, <2>a, ConfirmsAssumption
    DEF IInv, Control, ConfirmsAssumption, TasksOK, Counting, Claimed, Working
  <2>2. OneTask'
    BY <1>0, <2>e, <2>a, ConfirmsAssumption
    DEF IInv, Control, ConfirmsAssumption, TasksOK, OneTask, Counting,
        Claimed, Working
  <2>3. EntriesOK'
    <3>1. CASE pc[k] = "rejectTicket"
      <4>1. QuoteOf[k] \notin settling
        BY <2>e, <3>1 DEF IInv, Control, EntriesOK, Working
      <4> QED
        BY <1>0, <2>e, <3>1, <4>1 DEF IInv, Control, EntriesOK, Working
    <3>2. CASE pc[k] = "withholdTicket"
      BY <1>0, <2>e, <3>2, <2>a, ConfirmsAssumption
      DEF IInv, Control, ConfirmsAssumption, TasksOK, OneTask, EntriesOK,
          Counting, Claimed, Working
    <3> QED
      BY <2>e, <3>1, <3>2
  <2>4. SentOK'
    BY <1>0, <2>e, <2>a, ConfirmsAssumption
    DEF IInv, Control, ConfirmsAssumption, TasksOK, EntriesOK, SentOK,
        Counting, Claimed, Working
  <2>5. ConfirmedIsCommitted'
    BY <1>0, <2>e, <2>a, ConfirmsAssumption
    DEF IInv, Control, ConfirmsAssumption, OneTask, EntriesOK,
        ConfirmedIsCommitted, CommittedOK, Working, Committing
  <2>6. CommittedOK'
    BY <1>0, <2>e, <2>a, ConfirmsAssumption
    DEF IInv, Control, ConfirmsAssumption, TasksOK, OneTask, EntriesOK,
        ConfirmedIsCommitted, CommittedOK, Counting, Claimed, Working,
        Committing, Released
  <2>7. OwnersOK'
    <3>1. CASE pc[k] = "rejectTicket"
      <4>1. ASSUME NEW r \in committed
            PROVE  \/ entry'[r] \in {"confirming", "confirmed"}
                   \/ \E j \in Confirms : /\ QuoteOf[j] = r
                                         /\ pc'[j] \in Committing \cup {"rejectFunds", "withholdFunds"}
                   \/ sweeping[r] \in {"confirmed", "abandoned"}
                   \/ r \in settling
        <5>1. CASE r = QuoteOf[k]
          BY <3>1, <5>1, <2>e, <2>a
        <5>2. CASE r # QuoteOf[k]
          <6>1. r \in Quotes /\ entry'[r] = entry[r]
            BY <5>2, <2>e DEF IInv, TypeOK
          <6>2. \A j \in Confirms : QuoteOf[j] = r => pc'[j] = pc[j]
            BY <5>2, <2>e
          <6> QED
            BY <6>1, <6>2 DEF IInv, Control, OwnersOK
        <5> QED
          BY <5>1, <5>2
      <4> QED
        BY <4>1, <2>e DEF IInv, Control, OwnersOK
    <3>2. CASE pc[k] = "withholdTicket"
      BY <1>0, <2>e, <3>2, <2>a, ConfirmsAssumption
      DEF IInv, Control, ConfirmsAssumption, TasksOK, OneTask, EntriesOK,
          CommittedOK, OwnersOK, Counting, Working, Committing, Released
    <3> QED
      BY <2>e, <3>1, <3>2
  <2> QED
    BY <2>1, <2>2, <2>3, <2>4, <2>5, <2>6, <2>7 DEF Control
<1>21. ASSUME NEW k \in Confirms, Panic(k) PROVE Control'
  BY <1>21, ConfirmsAssumption
  DEF IInv, Control, TypeOK, TaskTypes, TasksOK, OneTask, EntriesOK, SentOK,
      ConfirmedIsCommitted, CommittedOK, OwnersOK, Counting, Claimed,
      Working, Committing, Released, ConfirmsAssumption, Panic, Ends, Goto,
      taskVars, sweepVars, settleVars, fetchVars, ticketVars, takerVars,
      sessionVars
<1>22. ASSUME StartSweep PROVE Control'
  <2>e. /\ ~ sweep /\ sweep'
        /\ \A q \in Quotes :
             \/ /\ entry[q] \in {"confirmed", "restored"} /\ age[q] = "lapsed"
                /\ entry'[q] = "expired" /\ sweeping'[q] = "confirmed"
             \/ /\ entry[q] = "confirming"
                /\ entry'[q] = "expired" /\ sweeping'[q] = "abandoned"
             \/ /\ entry[q] = "indicative"
                /\ entry'[q] = "expired" /\ sweeping'[q] = "none"
             \/ entry'[q] = entry[q] /\ sweeping'[q] = "none"
        /\ UNCHANGED <<pc, age, committed, settling, sent>>
    BY <1>22, ConfirmsAssumption
    DEF IInv, TypeOK, TaskTypes, ConfirmsAssumption, StartSweep, Abandoned,
        Lapsed, Stale, taskVars, sweepVars, settleVars, fetchVars,
        ticketVars, takerVars, sessionVars
  <2>1. TasksOK'
    BY <1>0, <2>e, ConfirmsAssumption
    DEF IInv, Control, ConfirmsAssumption, TasksOK, Counting, Claimed, Working
  <2>2. OneTask'
    BY <1>0, <2>e, ConfirmsAssumption
    DEF IInv, Control, ConfirmsAssumption, TasksOK, OneTask, Counting,
        Claimed, Working
  <2>3. EntriesOK'
    BY <1>0, <2>e, ConfirmsAssumption
    DEF IInv, Control, ConfirmsAssumption, TasksOK, OneTask, EntriesOK,
        Counting, Claimed, Working
  <2>4. SentOK'
    BY <1>0, <2>e, ConfirmsAssumption
    DEF IInv, Control, ConfirmsAssumption, TasksOK, EntriesOK, SentOK,
        Counting, Claimed, Working
  <2>5. ConfirmedIsCommitted'
    BY <1>0, <2>e, ConfirmsAssumption
    DEF IInv, Control, ConfirmsAssumption, OneTask, EntriesOK,
        ConfirmedIsCommitted, CommittedOK, Working, Committing
  <2>6. CommittedOK'
    BY <1>0, <2>e, ConfirmsAssumption
    DEF IInv, Control, ConfirmsAssumption, TasksOK, OneTask, EntriesOK,
        ConfirmedIsCommitted, CommittedOK, Counting, Claimed, Working,
        Committing, Released
  <2>7. OwnersOK'
    BY <1>0, <2>e, ConfirmsAssumption
    DEF IInv, Control, ConfirmsAssumption, TasksOK, OneTask, EntriesOK,
        CommittedOK, OwnersOK, Counting, Working, Committing, Released
  <2> QED
    BY <2>1, <2>2, <2>3, <2>4, <2>5, <2>6, <2>7 DEF Control
<1>23. ASSUME EndSweep PROVE Control'
  BY <1>23, ConfirmsAssumption
  DEF IInv, Control, TypeOK, TaskTypes, TasksOK, OneTask, EntriesOK, SentOK,
      ConfirmedIsCommitted, CommittedOK, OwnersOK, Counting, Claimed,
      Working, Committing, Released, ConfirmsAssumption, EndSweep,
      AssignmentOver, Reversed, taskVars, sweepVars, settleVars, fetchVars,
      ticketVars, takerVars, sessionVars
<1>24. ASSUME SaveAndRestart PROVE Control'
  <2>e. /\ \A q \in Quotes :
             \/ entry[q] \in {"confirmed", "restored"} /\ entry'[q] = "restored"
             \/ entry'[q] = "none"
        /\ \A k \in Confirms : pc'[k] \in {"idle", "done"}
        /\ committed' = {} /\ settling' = {}
        /\ \A q \in Quotes : sweeping'[q] = "none"
        /\ UNCHANGED <<age, sent>>
    BY <1>24, ConfirmsAssumption
    DEF IInv, TypeOK, TaskTypes, ConfirmsAssumption, SaveAndRestart,
        Running, Restored, Saved, taskVars, sweepVars, settleVars,
        fetchVars, ticketVars, takerVars, sessionVars
  <2>1. TasksOK'
    BY <1>0, <2>e, ConfirmsAssumption
    DEF IInv, Control, ConfirmsAssumption, TasksOK, Counting, Claimed, Working
  <2>2. OneTask'
    BY <1>0, <2>e, ConfirmsAssumption
    DEF IInv, Control, ConfirmsAssumption, TasksOK, OneTask, Counting,
        Claimed, Working
  <2>3. EntriesOK'
    BY <1>0, <2>e, ConfirmsAssumption
    DEF IInv, Control, ConfirmsAssumption, TasksOK, OneTask, EntriesOK,
        Counting, Claimed, Working
  <2>4. SentOK'
    BY <1>0, <2>e, ConfirmsAssumption
    DEF IInv, Control, ConfirmsAssumption, TasksOK, EntriesOK, SentOK,
        Counting, Claimed, Working
  <2>5. ConfirmedIsCommitted'
    BY <1>0, <2>e, ConfirmsAssumption
    DEF IInv, Control, ConfirmsAssumption, OneTask, EntriesOK,
        ConfirmedIsCommitted, CommittedOK, Working, Committing
  <2>6. CommittedOK'
    BY <1>0, <2>e, ConfirmsAssumption
    DEF IInv, Control, ConfirmsAssumption, TasksOK, OneTask, EntriesOK,
        ConfirmedIsCommitted, CommittedOK, Counting, Claimed, Working,
        Committing, Released
  <2>7. OwnersOK'
    BY <1>0, <2>e, ConfirmsAssumption
    DEF IInv, Control, ConfirmsAssumption, TasksOK, OneTask, EntriesOK,
        CommittedOK, OwnersOK, Counting, Working, Committing, Released
  <2> QED
    BY <2>1, <2>2, <2>3, <2>4, <2>5, <2>6, <2>7 DEF Control
<1>25. CASE UNCHANGED <<entry, pc, age, committed, sweeping, sweep, settling, sent>>
  BY <1>25
  DEF IInv, Control, TasksOK, OneTask, EntriesOK, SentOK,
      ConfirmedIsCommitted, CommittedOK, OwnersOK, Working
<1> QED
  BY <1>1, <1>2, <1>3, <1>4, <1>5, <1>6, <1>7, <1>8, <1>9, <1>10, <1>11,
      <1>12, <1>13, <1>14, <1>15, <1>16, <1>17, <1>18, <1>19, <1>20, <1>21,
      <1>22, <1>23, <1>24, <1>25
  DEF Next, ConfirmStep, SweepStep, Settle, Watch, FetchTickets,
      ReconcileFromAcs, Shutdown, vars, taskVars, sweepVars, settleVars,
      fetchVars, ticketVars, takerVars, sessionVars

-----------------------------------------------------------------------------
(* Theorems.                                                               *)

\* The pending quotes, the confirm tasks, the reservations and the tickets keep
\* their types through every confirm, sweep, settle, reconcile and restart.
THEOREM TypeCorrect == Spec => []TypeOK
<1>1. Init => TypeOK
  BY InitType
<1>2. TypeOK /\ [Next]_vars => TypeOK'
  BY TypeStep
<1> QED
  BY <1>1, <1>2, PTL DEF Spec

\* The inductive invariant of the confirm, the sweep and the settle handler.
THEOREM Invariance == Spec => []IInv
<1>1. Init => IInv
  BY InitType, InitControl DEF IInv
<1>2. IInv /\ [Next]_vars => IInv'
  BY TypeStep, ControlStep DEF IInv
<1> QED
  BY <1>1, <1>2, PTL DEF Spec

\* A quote confirmed in this session keeps its commitment until it settles or
\* expires, however late confirms that were given up release theirs.
THEOREM ConfirmedKeepsCommitment == Spec => []ConfirmedIsCommitted
<1>1. IInv => ConfirmedIsCommitted
  BY DEF IInv, Control
<1> QED
  BY Invariance, <1>1, PTL

\* No commitment is left behind: an entry, a running task, the sweep or the
\* settle handler releases it.
THEOREM NoCommitmentLeft == Spec => []CommitmentsHaveOwners
<1>1. IInv => CommitmentsHaveOwners
  BY DEF IInv, Control, OwnersOK, CommitmentsHaveOwners, Running, Committing
<1> QED
  BY Invariance, <1>1, PTL

\* An envelope the taker has is never replaced by another one for its quote.
THEOREM EnvelopeIsFinal == Spec => OneEnvelope
<1>1. IInv /\ [Next]_vars => [\A q \in sent : signed'[q] = signed[q]]_vars
  <2> SUFFICES ASSUME IInv, Next PROVE \A q \in sent : signed'[q] = signed[q]
    OBVIOUS
  <2>1. ASSUME NEW k \in Confirms, Issue(k) PROVE \A q \in sent : signed'[q] = signed[q]
    <3>1. CASE Owns(QuoteOf[k])
      <4>1. QuoteOf[k] \notin sent
        BY <3>1 DEF Owns, IInv, Control, SentOK
      <4>2. signed' = [signed EXCEPT ![QuoteOf[k]] = [cids |-> picks[k], ticket |-> ticket[k]]]
        BY <2>1, <3>1 DEF Issue
      <4> QED
        BY <4>1, <4>2 DEF IInv, TypeOK
    <3>2. CASE ~ Owns(QuoteOf[k])
      BY <2>1, <3>2 DEF Issue
    <3> QED
      BY <3>1, <3>2
  <2>2. CASE UNCHANGED signed
    BY <2>2
  <2> QED
    BY <2>1, <2>2
    DEF Next, ConfirmStep, SweepStep, takerVars, RegisterIndicative, Settle,
        TimePasses, Watch, ObserveSettle, FinishSettle, Lookup, CountConfirm,
        TryCommit, Select, ReserveV2, LoseRace, TakeTicket, Fail, Send, UndoFunds,
        UndoCids, UndoTicket, Panic, StartSweep, EndSweep, SweepFunds, SweepCids,
        SweepTicket, FetchTickets, ReconcileFromAcs, Shutdown, SaveAndRestart
<1> QED
  BY Invariance, <1>1, PTL DEF Spec, OneEnvelope

-----------------------------------------------------------------------------
(* What an envelope discloses: its holdings, its ticket and its count.     *)

\* A task starts and ends without locals; it has a ticket only behind the ticket
\* decision, and picks only for a confirm that started the clock.
Unticketed == {"idle", "done", "claimed", "counted", "committed", "picked", "reserved"}
LocalsOK ==
  /\ \A k \in Confirms :
       /\ pc[k] \in {"idle", "done"} => picks[k] = {}
       /\ pc[k] \in Unticketed => ticket[k] = NoTicket
       /\ Working(k) /\ picks[k] # {} => age[QuoteOf[k]] \in Counting
       /\ pc[k] \in {"picked", "reserved", "ready"} => picks[k] # {}
  /\ \A q \in Quotes :
       /\ sweeping[q] \in {"confirmed", "cids"} =>
            \A k \in Confirms : QuoteOf[k] = q => ~ Working(k)
       /\ entry[q] \in Saved => signed[q].cids # {}

\* An observation is of a settle the watcher has seen.  An envelope that is out has an
\* entry until its validity and grace are over, or its settle has been seen; a settle
\* is seen before that.
Out(q) == q \in sent \/ \E k \in Confirms : QuoteOf[k] = q /\ pc[k] = "send"
WatchedOK ==
  /\ observed \cup settling \subseteq seen
  /\ \A q \in Quotes :
       /\ entry[q] = "settled" => q \in seen
       /\ Out(q) /\ age[q] \in {"open", "closed"} /\ q \notin seen => entry[q] \in Saved
       /\ q \in filled \ seen /\ ~ closing => age[q] # "lapsed"

\* What q owes the holdings cache: the holdings that Due collects
Disclosing(q) == entry[q] \in Saved \/ sweeping[q] \in {"confirmed", "cids"}
Picked(q, c) == \E k \in Confirms : QuoteOf[k] = q /\ pc[k] \in Holding /\ c \in picks[k]
Owes(q, c) == Picked(q, c) \/ (Disclosing(q) /\ c \in signed[q].cids)

\* A holding is owed by one quote, which holds its reservation until the watcher has
\* seen it spent.
BackedOK ==
  /\ \A q \in Quotes, c \in Cids : Owes(q, c) =>
       holder[c] = q \/ (q \in seen /\ c \in signed[q].cids /\ holder[c] = NoQuote)
  /\ \A p, q \in Quotes, c \in Cids : Owes(p, c) /\ Owes(q, c) => p = q

\* The ticket of an envelope that may be settled, or is about to be signed
Wants(q, t) ==
  /\ q \notin seen /\ age[q] # "lapsed"
  /\ \/ entry[q] \in Saved /\ signed[q].ticket = t
     \/ /\ entry[q] = "confirming"
        /\ \E k \in Confirms : QuoteOf[k] = q /\ pc[k] = "ready" /\ ticket[k] = t
\* A ticket no reconcile will bring back
Buried(t) == t \notin LiveTickets \cup blobs \cup fetched

\* A ticket is wanted by one quote, which it is assigned to unless it is buried; a
\* reading of the tickets shows all that are still live.
TicketsOK ==
  /\ fetching => LiveTickets \subseteq fetched
  /\ \A q \in Quotes, t \in Tickets : Wants(q, t) =>
       (pool[t] = "assigned" /\ assignee[t] = q) \/ Buried(t)
  /\ \A p, q \in Quotes, t \in Tickets : Wants(p, t) /\ Wants(q, t) => p = q

\* In the first session, a settle is counted before its quote lapses.
FirstSession == restarts = 0 /\ ~ closing
CountedOK ==
  FirstSession =>
    \A q \in Quotes :
      /\ entry[q] # "restored"
      /\ entry[q] = "confirmed" /\ age[q] # "lapsed" => net[q] # "none"
      /\ q \in settling => net[q] # "none" /\ age[q] # "lapsed"
      /\ q \in observed => entry[q] = "confirmed" /\ age[q] # "lapsed"
      /\ q \in seen \ (observed \cup settling) => net[q] = "settled"

Backing == LocalsOK /\ WatchedOK /\ BackedOK /\ TicketsOK /\ CountedOK
BInv == IInv /\ Backing

LEMMA InitBacking == Init => Backing
<1> SUFFICES ASSUME Init PROVE Backing
  OBVIOUS
<1> USE DEF Init
<1>1. LocalsOK
  BY DEF LocalsOK, Unticketed, Working, Saved
<1>2. WatchedOK
  BY DEF WatchedOK, Out
<1>3. BackedOK
  BY DEF BackedOK, Owes, Picked, Disclosing, Holding, Saved
<1>4. TicketsOK
  BY DEF TicketsOK, Wants, Saved
<1>5. CountedOK
  BY DEF CountedOK
<1> QED
  BY <1>1, <1>2, <1>3, <1>4, <1>5 DEF Backing

\* Where no quote owes more, and what is owed keeps its reservation, nothing else needs
\* to be looked at.
LEMMA BackedKept ==
  ASSUME BackedOK,
         \A q \in Quotes, c \in Cids : Owes(q, c)' =>
            /\ Owes(q, c) /\ holder'[c] = holder[c]
            /\ q \in seen /\ c \in signed[q].cids => q \in seen' /\ c \in signed'[q].cids
  PROVE  BackedOK'
BY DEF BackedOK

\* The same of the tickets.
LEMMA TicketsKept ==
  ASSUME TicketsOK, fetching' => LiveTickets' \subseteq fetched',
         \A q \in Quotes, t \in Tickets : Wants(q, t)' =>
            /\ Wants(q, t)
            /\ Buried(t) => Buried(t)'
            /\ pool[t] = "assigned" /\ assignee[t] = q =>
                 (pool'[t] = "assigned" /\ assignee'[t] = q) \/ Buried(t)'
  PROVE  TicketsOK'
BY DEF TicketsOK

\* A step that neither reserves nor releases a holding, nor signs.
LEMMA OwesLess ==
  ASSUME BackedOK, UNCHANGED <<signed, holder>>, seen \subseteq seen',
         \A j \in Confirms : pc'[j] \in Holding =>
           picks'[j] = {} \/ (pc[j] \in Holding /\ picks'[j] \subseteq picks[j]),
         \A q \in Quotes : Disclosing(q)' => Disclosing(q)
  PROVE  BackedOK'
<1>1. \A q \in Quotes, c \in Cids : Picked(q, c)' => Picked(q, c)
  BY DEF Picked
<1>2. \A q \in Quotes, c \in Cids : Owes(q, c)' => Owes(q, c)
  BY <1>1 DEF Owes
<1> QED
  BY <1>2, BackedKept

\* The holdings a quote owes are among the ones due.
LEMMA OwedIsDue ==
  ASSUME NEW q \in Quotes, NEW c \in Cids, Owes(q, c)
  PROVE  c \in Due(q)
<1>1. CASE Picked(q, c)
  BY <1>1 DEF Picked, Due
<1>2. CASE Disclosing(q) /\ c \in signed[q].cids
  BY <1>2 DEF Disclosing, Due, Saved
<1> QED
  BY <1>1, <1>2 DEF Owes

\* A step that leaves the tickets alone, and makes nobody want another one.
LEMMA WantsLess ==
  ASSUME TicketsOK, UNCHANGED <<signed, pool, assignee, blobs, fetching, fetched, filled>>,
                                seen \subseteq seen',
         \A j \in Confirms : pc'[j] = "ready" => pc[j] = "ready" /\ ticket'[j] = ticket[j],
         \A q \in Quotes :
           /\ entry'[q] \in Saved => entry[q] \in Saved
           /\ entry'[q] = "confirming" => entry[q] = "confirming" \/ \A j \in Confirms : QuoteOf[j] = q => pc'[j] # "ready"
           /\ age[q] = "lapsed" => age'[q] = "lapsed"
  PROVE  TicketsOK'
<1>1. \A q \in Quotes, t \in Tickets : Wants(q, t)' => Wants(q, t)
  BY DEF Wants
<1>2. UNCHANGED LiveTickets
  BY DEF LiveTickets, TicketSpent
<1> QED
  BY <1>1, <1>2, TicketsKept DEF TicketsOK, Buried


\* Every step keeps them, where what is due is released before another confirm takes it,
\* and a settle is observed within the grace.
LEMMA BackingStep ==
  ASSUME SweepMeetsTTL, WatcherPrompt, BInv, IInv', [Next]_vars
  PROVE  Backing'
<1> USE DEF taskVars, sweepVars, settleVars, fetchVars, ticketVars, takerVars, sessionVars
<1>t. TypeOK BY DEF BInv, IInv, Control, Backing
<1>k. TasksOK BY DEF BInv, IInv, Control, Backing
<1>o. OneTask BY DEF BInv, IInv, Control, Backing
<1>e. EntriesOK BY DEF BInv, IInv, Control, Backing
<1>s. SentOK BY DEF BInv, IInv, Control, Backing
<1>w. OwnersOK BY DEF BInv, IInv, Control, Backing
<1>l. LocalsOK BY DEF BInv, IInv, Control, Backing
<1>a. WatchedOK BY DEF BInv, IInv, Control, Backing
<1>b. BackedOK BY DEF BInv, IInv, Control, Backing
<1>i. TicketsOK BY DEF BInv, IInv, Control, Backing
<1>c. CountedOK BY DEF BInv, IInv, Control, Backing
<1>x. ASSUME NEW q \in Quotes, ~ closing, q \in filled \ seen
      PROVE  /\ entry[q] \in Saved /\ age[q] \in {"open", "closed"}
             /\ \A c \in signed[q].cids : c \in Cids /\ Owes(q, c) /\ holder[c] = q
  <2>1. q \in sent /\ age[q] \in {"open", "closed"}
    BY <1>t, <1>s, <1>a, <1>x DEF TypeOK, SentOK, WatchedOK, Counting
  <2>2. entry[q] \in Saved
    BY <1>a, <1>x, <2>1 DEF WatchedOK, Out
  <2>3. \A c \in signed[q].cids : c \in Cids /\ Owes(q, c)
    BY <1>t, <2>2 DEF TypeOK, Owes, Disclosing
  <2> QED BY <1>b, <1>x, <2>1, <2>2, <2>3 DEF BackedOK
<1>1. ASSUME NEW q \in Quotes, RegisterIndicative(q) PROVE Backing'
  <2>e. /\ ~ closing /\ age[q] = "unborn"
        /\ entry'[q] = "indicative" /\ \A r \in Quotes : r # q => entry'[r] = entry[r]
        /\ age'[q] = "fresh" /\ \A r \in Quotes : r # q => age'[r] = age[r]
        /\ UNCHANGED <<pc, picks, ticket, sweeping, sweep, observed, settling, seen, holder,
                       net, pool, assignee, blobs, fetching, fetched, signed, sent, filled,
                       closing, restarts>>
    BY <1>t, <1>1, ConfirmsAssumption DEF TypeOK, TaskTypes, RegisterIndicative
  <2>1. LocalsOK'
    BY <1>l, <2>e, ConfirmsAssumption
    DEF LocalsOK, Unticketed, Working, Counting, Saved
  <2>2. WatchedOK'
    BY <1>a, <2>e, ConfirmsAssumption
    DEF WatchedOK, Out, Saved
  <2>3. BackedOK'
    BY <1>b, <2>e, OwesLess
    DEF Disclosing, Holding, Saved
  <2>4. TicketsOK'
    BY <1>i, <2>e, WantsLess
    DEF Saved
  <2>5. CountedOK'
    BY <1>c, <1>e, <2>e, ConfirmsAssumption
    DEF CountedOK, FirstSession, EntriesOK, Reversed, Working, Counting, Saved
  <2> QED BY <2>1, <2>2, <2>3, <2>4, <2>5 DEF Backing
<1>2. ASSUME NEW q \in Quotes, Settle(q) PROVE Backing'
  <2>e. /\ q \in sent \ filled /\ age[q] = "open"
        /\ filled' = filled \cup {q}
        /\ UNCHANGED <<entry, pc, picks, ticket, sweeping, sweep, observed, settling, seen,
                       holder, net, pool, assignee, blobs, fetching, fetched, age, signed,
                       sent, closing, restarts>>
    BY <1>t, <1>2, ConfirmsAssumption DEF TypeOK, TaskTypes, Settle
  <2>1. LocalsOK'
    BY <1>l, <2>e, ConfirmsAssumption
    DEF LocalsOK, Unticketed, Working, Counting, Saved
  <2>2. WatchedOK'
    BY <1>a, <2>e, ConfirmsAssumption
    DEF WatchedOK, Out, Saved
  <2>3. BackedOK'
    BY <1>b, <2>e, OwesLess
    DEF Disclosing, Holding, Saved
  <2>4. TicketsOK'
    <3>1. LiveTickets' \subseteq LiveTickets BY <2>e DEF LiveTickets, TicketSpent
    <3>2. \A r \in Quotes, t \in Tickets : Wants(r, t)' => Wants(r, t) BY <2>e DEF Wants
    <3> QED BY <1>i, <2>e, <3>1, <3>2, TicketsKept DEF TicketsOK, Buried
  <2>5. CountedOK'
    BY <1>c, <2>e, ConfirmsAssumption
    DEF CountedOK, FirstSession
  <2> QED BY <2>1, <2>2, <2>3, <2>4, <2>5 DEF Backing
<1>3. ASSUME NEW q \in Quotes, TimePasses(q) PROVE Backing'
  <2>e. /\ WatcherPrompt /\ ~ closing /\ age[q] = "closed" /\ q \in filled => q \in seen \ (observed \cup settling)
        /\ <<age[q], age'[q]>> \in {<<"fresh", "stale">>, <<"open", "closed">>, <<"closed", "lapsed">>}
        /\ \A r \in Quotes : r # q => age'[r] = age[r]
        /\ UNCHANGED <<entry, pc, picks, ticket, sweeping, sweep, observed, settling, seen,
                       holder, net, pool, assignee, blobs, fetching, fetched, signed, sent,
                       filled, closing, restarts>>
    BY <1>t, <1>3, ConfirmsAssumption DEF TypeOK, TaskTypes, TimePasses, Later
  <2>1. LocalsOK'
    BY <1>l, <2>e, ConfirmsAssumption
    DEF LocalsOK, Unticketed, Working, Counting, Saved
  <2>2. WatchedOK'
    BY <1>a, <2>e, ConfirmsAssumption
    DEF WatchedOK, Out, Saved
  <2>3. BackedOK'
    BY <1>b, <2>e, OwesLess
    DEF Disclosing, Holding, Saved
  <2>4. TicketsOK'
    BY <1>i, <2>e, WantsLess
    DEF Saved
  <2>5. CountedOK'
    BY <1>c, <1>e, <1>w, <1>a, <1>t, <2>e, ConfirmsAssumption
    DEF CountedOK, FirstSession, EntriesOK, OwnersOK, WatchedOK, TypeOK, Reversed, Working,
         Counting, Saved
  <2> QED BY <2>1, <2>2, <2>3, <2>4, <2>5 DEF Backing
<1>4. ASSUME NEW q \in Quotes, Watch(q) PROVE Backing'
  <2>e. /\ ~ closing /\ q \in filled \ seen
        /\ seen' = seen \cup {q}
        /\ observed' = observed \cup {holder[c] : c \in {d \in signed[q].cids : Reserved(d)}}
        /\ \A c \in Cids : holder'[c] = IF c \in signed[q].cids THEN NoQuote ELSE holder[c]
        /\ \A t \in Tickets : t # signed[q].ticket => pool'[t] = pool[t] /\ assignee'[t] = assignee[t]
        /\ UNCHANGED <<entry, pc, picks, ticket, sweeping, sweep, settling, net, blobs,
                       fetching, fetched, age, signed, sent, filled, closing, restarts>>
    BY <1>t, <1>4, ConfirmsAssumption DEF TypeOK, TaskTypes, Watch, ReleaseReservations
  <2>1. LocalsOK'
    BY <1>l, <2>e, ConfirmsAssumption
    DEF LocalsOK, Unticketed, Working, Counting, Saved
  <2>2. WatchedOK'
    <3>1. observed' \cup settling' \subseteq seen'
      <4>1. \A c \in signed[q].cids : holder[c] = q BY <1>x, <2>e
      <4> QED BY <1>a, <2>e, <4>1 DEF WatchedOK
    <3> QED BY <1>a, <2>e, <3>1 DEF WatchedOK, Out, Saved
  <2>3. BackedOK'
    <3>1. \A r \in Quotes, c \in Cids : Owes(r, c)' <=> Owes(r, c)
      BY <2>e DEF Owes, Picked, Disclosing
    <3>2. \A c \in signed[q].cids : c \in Cids /\ Owes(q, c) BY <1>x, <2>e
    <3>3. \A r \in Quotes, c \in Cids : Owes(r, c) /\ c \in signed[q].cids => r = q
      BY <1>b, <3>2 DEF BackedOK
    <3>4. \A r \in Quotes, c \in Cids : Owes(r, c) =>
            holder'[c] = r \/ (r \in seen' /\ c \in signed'[r].cids /\ holder'[c] = NoQuote)
      BY <1>b, <2>e, <3>3 DEF BackedOK
    <3> QED BY <1>b, <3>1, <3>4 DEF BackedOK
  <2>4. TicketsOK'
    <3>1. \A r \in Quotes, t \in Tickets : Wants(r, t)' => Wants(r, t) /\ r # q
      BY <2>e DEF Wants
    <3>2. entry[q] \in Saved /\ age[q] # "lapsed" BY <1>x, <2>e
    <3>3. \A r \in Quotes, t \in Tickets : Wants(r, t)' => t # signed[q].ticket
      BY <1>i, <2>e, <3>1, <3>2 DEF TicketsOK, Wants
    <3>4. \A t \in Tickets : t # signed[q].ticket => pool'[t] = pool[t] /\ assignee'[t] = assignee[t]
      BY <2>e
    <3>5. UNCHANGED LiveTickets /\ \A t \in Tickets : Buried(t)' <=> Buried(t)
      BY <2>e DEF LiveTickets, TicketSpent, Buried
    <3>6. UNCHANGED <<fetching, fetched>> BY <2>e
    <3> QED BY <1>i, <3>1, <3>3, <3>4, <3>5, <3>6, TicketsKept DEF TicketsOK
  <2>5. CountedOK'
    <3>1. PICK c \in signed[q].cids : TRUE BY <1>l, <1>x, <2>e DEF LocalsOK
    <3>2. \A d \in signed[q].cids : holder[d] = q BY <1>x, <2>e
    <3>3. q \in observed'
      BY <1>x, <2>e, <3>1, <3>2, SetsAssumption DEF Reserved
    <3>4. observed' \subseteq observed \cup {q} BY <2>e, <3>2
    <3>5. FirstSession => entry[q] = "confirmed" /\ age[q] # "lapsed"
      BY <1>c, <1>x, <2>e DEF CountedOK, Saved
    <3> QED BY <1>c, <2>e, <3>3, <3>4, <3>5 DEF CountedOK, FirstSession
  <2> QED BY <2>1, <2>2, <2>3, <2>4, <2>5 DEF Backing
<1>5. ASSUME NEW q \in Quotes, ObserveSettle(q) PROVE Backing'
  <2>e1. ~ closing /\ q \in observed /\ settling = {} /\ observed' = observed \ {q}
    BY <1>t, <1>5, ConfirmsAssumption DEF TypeOK, TaskTypes, ObserveSettle
  <2>e2. IF entry[q] \in {"confirmed", "restored"} THEN settling' = {q}
          /\ (entry'[q] = "settled"
          /\ \A r \in Quotes : r # q => entry'[r] = entry[r])
          ELSE UNCHANGED <<entry, settling>>
    BY <1>t, <1>5, ConfirmsAssumption DEF TypeOK, TaskTypes, ObserveSettle
  <2>e3. UNCHANGED <<pc, picks, ticket, sweeping, sweep, seen, holder, net, pool, assignee,
                     blobs, fetching, fetched, age, signed, sent, filled, closing,
                     restarts>>
    BY <1>t, <1>5, ConfirmsAssumption DEF TypeOK, TaskTypes, ObserveSettle
  <2>1. LocalsOK'
    BY <1>l, <2>e1, <2>e2, <2>e3, ConfirmsAssumption
    DEF LocalsOK, Unticketed, Working, Counting, Saved
  <2>2. WatchedOK'
    BY <1>a, <2>e1, <2>e2, <2>e3, ConfirmsAssumption
    DEF WatchedOK, Out, Saved
  <2>3. BackedOK'
    BY <1>b, <2>e1, <2>e2, <2>e3, OwesLess
    DEF Disclosing, Holding, Saved
  <2>4. TicketsOK'
    BY <1>i, <2>e1, <2>e2, <2>e3, WantsLess
    DEF Saved
  <2>5. CountedOK'
    BY <1>c, <2>e1, <2>e2, <2>e3, ConfirmsAssumption
    DEF CountedOK, FirstSession
  <2> QED BY <2>1, <2>2, <2>3, <2>4, <2>5 DEF Backing
<1>6. ASSUME NEW q \in Quotes, FinishSettle(q) PROVE Backing'
  <2>e1. q \in settling /\ settling' = {}
    BY <1>t, <1>6, ConfirmsAssumption DEF TypeOK, TaskTypes, FinishSettle, CountSettled
  <2>e2. \A t \in Tickets : assignee[t] # q => pool'[t] = pool[t] /\ assignee'[t] = assignee[t]
    BY <1>t, <1>6, ConfirmsAssumption DEF TypeOK, TaskTypes, FinishSettle, CountSettled
  <2>e3. net'[q] = (IF net[q] = "pending" THEN "settled" ELSE net[q])
          /\ \A r \in Quotes : r # q => net'[r] = net[r]
    BY <1>t, <1>6, ConfirmsAssumption DEF TypeOK, TaskTypes, FinishSettle, CountSettled
  <2>e4. UNCHANGED <<entry, pc, picks, ticket, sweeping, sweep, observed, seen, holder,
                     blobs, fetching, fetched, age, signed, sent, filled, closing,
                     restarts>>
    BY <1>t, <1>6, ConfirmsAssumption DEF TypeOK, TaskTypes, FinishSettle, CountSettled
  <2>1. LocalsOK'
    BY <1>l, <2>e1, <2>e2, <2>e3, <2>e4, ConfirmsAssumption
    DEF LocalsOK, Unticketed, Working, Counting, Saved
  <2>2. WatchedOK'
    BY <1>a, <2>e1, <2>e2, <2>e3, <2>e4, ConfirmsAssumption
    DEF WatchedOK, Out, Saved
  <2>3. BackedOK'
    BY <1>b, <2>e1, <2>e2, <2>e3, <2>e4, OwesLess
    DEF Disclosing, Holding, Saved
  <2>4. TicketsOK'
    <3>1. \A r \in Quotes, t \in Tickets : Wants(r, t)' => Wants(r, t)
      BY <2>e1, <2>e2, <2>e3, <2>e4
      DEF Wants
    <3>2. \A t \in Tickets : ~ Wants(q, t)
      BY <1>e, <2>e1, <2>e2, <2>e3, <2>e4
      DEF EntriesOK, Wants, Saved
    <3>3. UNCHANGED LiveTickets BY <2>e1, <2>e2, <2>e3, <2>e4 DEF LiveTickets, TicketSpent
    <3> QED
      BY <1>i, <2>e1, <2>e2, <2>e3, <2>e4, <3>1, <3>2, <3>3, TicketsKept
      DEF TicketsOK, Buried
  <2>5. CountedOK'
    BY <1>c, <1>e, <1>w, <1>a, <1>t, <2>e1, <2>e2, <2>e3, <2>e4, ConfirmsAssumption
    DEF CountedOK, FirstSession, EntriesOK, OwnersOK, WatchedOK, TypeOK, Reversed, Working,
         Counting, Saved
  <2> QED BY <2>1, <2>2, <2>3, <2>4, <2>5 DEF Backing
<1>7. ASSUME NEW k \in Confirms, Lookup(k) PROVE Backing'
  <2>e1. pc[k] = "idle"
    BY <1>t, <1>7, ConfirmsAssumption DEF TypeOK, TaskTypes, Lookup, Claim, Goto
  <2>e2. \A j \in Confirms : j # k => pc'[j] = pc[j]
    BY <1>t, <1>7, ConfirmsAssumption DEF TypeOK, TaskTypes, Lookup, Claim, Goto
  <2>e3. pc'[k] \in {"claimed", "send", "rejectFunds", "done"}
    BY <1>t, <1>7, ConfirmsAssumption DEF TypeOK, TaskTypes, Lookup, Claim, Goto
  <2>e4. pc'[k] = "claimed" => (entry[QuoteOf[k]] = "indicative" /\ age[QuoteOf[k]] = "fresh"
          /\ (entry'[QuoteOf[k]] = "confirming"
          /\ \A r \in Quotes : r # QuoteOf[k] => entry'[r] = entry[r])
          /\ (age'[QuoteOf[k]] = "open"
          /\ \A r \in Quotes : r # QuoteOf[k] => age'[r] = age[r]))
    BY <1>t, <1>7, ConfirmsAssumption DEF TypeOK, TaskTypes, Lookup, Claim, Goto
  <2>e5. (pc'[k] = "send" => entry[QuoteOf[k]] = "confirmed") /\ (pc'[k] = "rejectFunds" => entry[QuoteOf[k]] = "indicative")
    BY <1>t, <1>7, ConfirmsAssumption DEF TypeOK, TaskTypes, Lookup, Claim, Goto
  <2>e6. pc'[k] # "claimed" => UNCHANGED <<entry, age>>
    BY <1>t, <1>7, ConfirmsAssumption DEF TypeOK, TaskTypes, Lookup, Claim, Goto
  <2>e7. UNCHANGED <<picks, ticket, sweeping, sweep, observed, settling, seen, holder, net,
                     pool, assignee, blobs, fetching, fetched, signed, sent, filled,
                     closing, restarts>>
    BY <1>t, <1>7, ConfirmsAssumption DEF TypeOK, TaskTypes, Lookup, Claim, Goto
  <2>1. LocalsOK'
    <3>1. QuoteOf[k] \in Quotes /\ picks[k] = {} /\ ticket[k] = NoTicket
      BY <1>l, <2>e1, <2>e2, <2>e3, <2>e4, <2>e5, <2>e6, <2>e7, ConfirmsAssumption
      DEF LocalsOK, Unticketed
    <3>2. \A q \in Quotes : entry'[q] \in Saved => entry[q] \in Saved
      <4>1. CASE pc'[k] = "claimed"
        BY <2>e1, <2>e2, <2>e3, <2>e4, <2>e5, <2>e6, <2>e7, <4>1 DEF Saved
      <4>2. CASE pc'[k] # "claimed"
        BY <2>e1, <2>e2, <2>e3, <2>e4, <2>e5, <2>e6, <2>e7, <4>2
      <4> QED BY <4>1, <4>2
    <3>3. \A q \in Quotes : age[q] \in Counting => age'[q] = age[q]
      <4>1. CASE pc'[k] = "claimed"
        BY <2>e1, <2>e2, <2>e3, <2>e4, <2>e5, <2>e6, <2>e7, <4>1 DEF Counting
      <4>2. CASE pc'[k] # "claimed"
        BY <2>e1, <2>e2, <2>e3, <2>e4, <2>e5, <2>e6, <2>e7, <4>2
      <4> QED BY <4>1, <4>2
    <3>4. ASSUME sweeping[QuoteOf[k]] \in {"confirmed", "cids"} PROVE ~ Working(k)'
      <4>1. entry[QuoteOf[k]] # "indicative"
        BY <1>e, <3>1, <3>4 DEF EntriesOK
      <4>2. pc'[k] # "claimed" BY <2>e1, <2>e2, <2>e3, <2>e4, <2>e5, <2>e6, <2>e7, <4>1
      <4> QED
        BY <2>e1, <2>e2, <2>e3, <2>e4, <2>e5, <2>e6, <2>e7, <3>1, <3>4, <4>1, <4>2
        DEF Working
    <3>5. \A j \in Confirms : j # k => (Working(j)' <=> Working(j))
      BY <2>e1, <2>e2, <2>e3, <2>e4, <2>e5, <2>e6, <2>e7
      DEF Working
    <3>6. \A j \in Confirms :
            /\ pc'[j] \in {"idle", "done"} => picks'[j] = {}
            /\ pc'[j] \in Unticketed => ticket'[j] = NoTicket
            /\ pc'[j] \in {"picked", "reserved", "ready"} => picks'[j] # {}
      BY <1>l, <2>e1, <2>e2, <2>e3, <2>e4, <2>e5, <2>e6, <2>e7, <3>1 DEF LocalsOK, Unticketed
    <3>7. \A j \in Confirms : Working(j)' /\ picks'[j] # {} => age'[QuoteOf[j]] \in Counting
      <4> SUFFICES ASSUME NEW j \in Confirms, Working(j)', picks'[j] # {}
                   PROVE  age'[QuoteOf[j]] \in Counting
        OBVIOUS
      <4>1. j # k /\ picks[j] # {} BY <2>e1, <2>e2, <2>e3, <2>e4, <2>e5, <2>e6, <2>e7, <3>1
      <4>2. Working(j) BY <3>5, <4>1
      <4>3. age[QuoteOf[j]] \in Counting BY <1>l, <4>1, <4>2 DEF LocalsOK
      <4> QED BY <3>3, <4>3, ConfirmsAssumption
    <3>8. \A q \in Quotes : sweeping'[q] \in {"confirmed", "cids"} =>
            \A j \in Confirms : QuoteOf[j] = q => ~ Working(j)'
      BY <1>l, <2>e1, <2>e2, <2>e3, <2>e4, <2>e5, <2>e6, <2>e7, <3>4, <3>5 DEF LocalsOK
    <3> QED
      BY <1>l, <2>e1, <2>e2, <2>e3, <2>e4, <2>e5, <2>e6, <2>e7, <3>2, <3>6, <3>7, <3>8
      DEF LocalsOK
  <2>2. WatchedOK'
    BY <1>a, <1>s, <1>t, <2>e1, <2>e2, <2>e3, <2>e4, <2>e5, <2>e6, <2>e7, ConfirmsAssumption
    DEF WatchedOK, Out, Saved, SentOK, TypeOK, Counting, Working, Claimed, Lapsed
  <2>3. BackedOK'
    BY <1>b, <1>l, <2>e1, <2>e2, <2>e3, <2>e4, <2>e5, <2>e6, <2>e7, OwesLess
    DEF Disclosing, Holding, Saved, LocalsOK, Unticketed, Working, Lapsed
  <2>4. TicketsOK'
    BY <1>i, <1>k, <2>e1, <2>e2, <2>e3, <2>e4, <2>e5, <2>e6, <2>e7, WantsLess
    DEF Saved, TasksOK, Claimed, Counting, Later
  <2>5. CountedOK'
    BY <1>c, <2>e1, <2>e2, <2>e3, <2>e4, <2>e5, <2>e6, <2>e7, ConfirmsAssumption
    DEF CountedOK, FirstSession
  <2> QED BY <2>1, <2>2, <2>3, <2>4, <2>5 DEF Backing
<1>8. ASSUME NEW k \in Confirms, CountConfirm(k) PROVE Backing'
  <2>e1. pc[k] = "claimed"
    BY <1>t, <1>8, ConfirmsAssumption DEF TypeOK, TaskTypes, CountConfirm, Goto
  <2>e2. pc'[k] = "counted" /\ \A j \in Confirms : j # k => pc'[j] = pc[j]
    BY <1>t, <1>8, ConfirmsAssumption DEF TypeOK, TaskTypes, CountConfirm, Goto
  <2>e3. net'[QuoteOf[k]] = (IF net[QuoteOf[k]] = "none" THEN "pending" ELSE net[QuoteOf[k]])
          /\ \A r \in Quotes : r # QuoteOf[k] => net'[r] = net[r]
    BY <1>t, <1>8, ConfirmsAssumption DEF TypeOK, TaskTypes, CountConfirm, Goto
  <2>e4. UNCHANGED <<entry, picks, ticket, sweeping, sweep, observed, settling, seen,
                     holder, pool, assignee, blobs, fetching, fetched, age, signed, sent,
                     filled, closing, restarts>>
    BY <1>t, <1>8, ConfirmsAssumption DEF TypeOK, TaskTypes, CountConfirm, Goto
  <2>1. LocalsOK'
    BY <1>l, <2>e1, <2>e2, <2>e3, <2>e4, ConfirmsAssumption
    DEF LocalsOK, Unticketed, Working, Counting, Saved
  <2>2. WatchedOK'
    BY <1>a, <2>e1, <2>e2, <2>e3, <2>e4, ConfirmsAssumption
    DEF WatchedOK, Out, Saved
  <2>3. BackedOK'
    BY <1>b, <2>e1, <2>e2, <2>e3, <2>e4, OwesLess
    DEF Disclosing, Holding, Saved
  <2>4. TicketsOK'
    BY <1>i, <2>e1, <2>e2, <2>e3, <2>e4, WantsLess
    DEF Saved
  <2>5. CountedOK'
    BY <1>c, <2>e1, <2>e2, <2>e3, <2>e4, ConfirmsAssumption
    DEF CountedOK, FirstSession
  <2> QED BY <2>1, <2>2, <2>3, <2>4, <2>5 DEF Backing
<1>9. ASSUME NEW k \in Confirms, TryCommit(k) PROVE Backing'
  <2>e. /\ pc[k] = "counted"
        /\ pc'[k] = "committed" /\ \A j \in Confirms : j # k => pc'[j] = pc[j]
        /\ UNCHANGED <<entry, picks, ticket, sweeping, sweep, observed, settling, seen,
                       holder, net, pool, assignee, blobs, fetching, fetched, age, signed,
                       sent, filled, closing, restarts>>
    BY <1>t, <1>9, ConfirmsAssumption DEF TypeOK, TaskTypes, TryCommit, Goto
  <2>1. LocalsOK'
    BY <1>l, <2>e, ConfirmsAssumption
    DEF LocalsOK, Unticketed, Working, Counting, Saved
  <2>2. WatchedOK'
    BY <1>a, <2>e, ConfirmsAssumption
    DEF WatchedOK, Out, Saved
  <2>3. BackedOK'
    BY <1>b, <2>e, OwesLess
    DEF Disclosing, Holding, Saved
  <2>4. TicketsOK'
    BY <1>i, <2>e, WantsLess
    DEF Saved
  <2>5. CountedOK'
    BY <1>c, <2>e, ConfirmsAssumption
    DEF CountedOK, FirstSession
  <2> QED BY <2>1, <2>2, <2>3, <2>4, <2>5 DEF Backing
<1>10. ASSUME NEW k \in Confirms, Select(k) PROVE Backing'
  <2>e. /\ pc[k] = "committed"
        /\ pc'[k] = "picked" /\ \A j \in Confirms : j # k => pc'[j] = pc[j]
        /\ picks'[k] # {} /\ \A j \in Confirms : j # k => picks'[j] = picks[j]
        /\ UNCHANGED <<entry, ticket, sweeping, sweep, observed, settling, seen, holder,
                       net, pool, assignee, blobs, fetching, fetched, age, signed, sent,
                       filled, closing, restarts>>
    BY <1>t, <1>10, ConfirmsAssumption DEF TypeOK, TaskTypes, Select, Goto
  <2>1. LocalsOK'
    BY <1>l, <1>k, <2>e, ConfirmsAssumption
    DEF LocalsOK, Unticketed, Working, Counting, Saved, TasksOK, Claimed, Lapsed
  <2>2. WatchedOK'
    BY <1>a, <2>e, ConfirmsAssumption
    DEF WatchedOK, Out, Saved
  <2>3. BackedOK'
    BY <1>b, <2>e, OwesLess
    DEF Disclosing, Holding, Saved
  <2>4. TicketsOK'
    BY <1>i, <2>e, WantsLess
    DEF Saved
  <2>5. CountedOK'
    BY <1>c, <2>e, ConfirmsAssumption
    DEF CountedOK, FirstSession
  <2> QED BY <2>1, <2>2, <2>3, <2>4, <2>5 DEF Backing
<1>11. ASSUME NEW k \in Confirms, ReserveV2(k) PROVE Backing'
  <2>e. /\ pc[k] = "picked" /\ CanReserve(k)
        /\ SweepMeetsTTL => \A r \in Quotes : age[r] = "lapsed" => picks[k] \cap Due(r) = {}
        /\ pc'[k] = "reserved" /\ \A j \in Confirms : j # k => pc'[j] = pc[j]
        /\ \A c \in Cids : holder'[c] = IF c \in picks[k] THEN QuoteOf[k] ELSE holder[c]
        /\ UNCHANGED <<entry, picks, ticket, sweeping, sweep, observed, settling, seen, net,
                       pool, assignee, blobs, fetching, fetched, age, signed, sent, filled,
                       closing, restarts>>
    BY <1>t, <1>11, ConfirmsAssumption DEF TypeOK, TaskTypes, ReserveV2, Goto
  <2>1. LocalsOK'
    BY <1>l, <2>e, ConfirmsAssumption
    DEF LocalsOK, Unticketed, Working, Counting, Saved
  <2>2. WatchedOK'
    BY <1>a, <2>e, ConfirmsAssumption
    DEF WatchedOK, Out, Saved
  <2>3. BackedOK'
    <3>1. ASSUME NEW p \in Quotes, NEW c \in picks[k], c \in Cids, Owes(p, c) PROVE FALSE
      <4>1. c \notin Consumed /\ (holder[c] # NoQuote => age[holder[c]] = "lapsed")
        BY <2>e, <3>1 DEF CanReserve, Reserved
      <4>2. ~ (p \in seen /\ c \in signed[p].cids) BY <4>1 DEF Consumed
      <4>3. holder[c] = p BY <1>b, <3>1, <4>2 DEF BackedOK
      <4>4. age[p] = "lapsed" BY <4>1, <4>3, SetsAssumption
      <4> QED BY <2>e, <3>1, <4>4, OwedIsDue
    <3>2. \A r \in Quotes, c \in Cids : Owes(r, c)' => Owes(r, c) \/ (r = QuoteOf[k] /\ c \in picks[k])
      BY <2>e DEF Owes, Picked, Disclosing
    <3>3. \A r \in Quotes, c \in Cids : Owes(r, c)' =>
            holder'[c] = r \/ (r \in seen' /\ c \in signed'[r].cids /\ holder'[c] = NoQuote)
      BY <1>b, <2>e, <3>1, <3>2 DEF BackedOK
    <3>4. \A p, r \in Quotes, c \in Cids : Owes(p, c)' /\ Owes(r, c)' => p = r
      BY <1>b, <3>1, <3>2 DEF BackedOK
    <3> QED BY <3>3, <3>4 DEF BackedOK
  <2>4. TicketsOK'
    BY <1>i, <2>e, WantsLess
    DEF Saved
  <2>5. CountedOK'
    BY <1>c, <2>e, ConfirmsAssumption
    DEF CountedOK, FirstSession
  <2> QED BY <2>1, <2>2, <2>3, <2>4, <2>5 DEF Backing
<1>12. ASSUME NEW k \in Confirms, LoseRace(k) PROVE Backing'
  <2>e. /\ pc[k] = "picked"
        /\ pc'[k] \in {"committed", "rejectFunds"} /\ \A j \in Confirms : j # k => pc'[j] = pc[j]
        /\ picks'[k] = {} /\ \A j \in Confirms : j # k => picks'[j] = picks[j]
        /\ UNCHANGED <<entry, ticket, sweeping, sweep, observed, settling, seen, holder,
                       net, pool, assignee, blobs, fetching, fetched, age, signed, sent,
                       filled, closing, restarts>>
    BY <1>t, <1>12, ConfirmsAssumption DEF TypeOK, TaskTypes, LoseRace, Goto
  <2>1. LocalsOK'
    BY <1>l, <2>e, ConfirmsAssumption
    DEF LocalsOK, Unticketed, Working, Counting, Saved
  <2>2. WatchedOK'
    BY <1>a, <2>e, ConfirmsAssumption
    DEF WatchedOK, Out, Saved
  <2>3. BackedOK'
    BY <1>b, <2>e, OwesLess
    DEF Disclosing, Holding, Saved
  <2>4. TicketsOK'
    BY <1>i, <2>e, WantsLess
    DEF Saved
  <2>5. CountedOK'
    BY <1>c, <2>e, ConfirmsAssumption
    DEF CountedOK, FirstSession
  <2> QED BY <2>1, <2>2, <2>3, <2>4, <2>5 DEF Backing
<1>13. ASSUME NEW k \in Confirms, TakeTicket(k) PROVE Backing'
  <2>e. /\ pc[k] = "reserved" /\ age[QuoteOf[k]] = "open"
        /\ pc'[k] = "ready" /\ \A j \in Confirms : j # k => pc'[j] = pc[j]
        /\ \A j \in Confirms : j # k => ticket'[j] = ticket[j]
        /\ (UNCHANGED <<ticket, pool, assignee>>)
           \/ (\E t \in blobs : pool[t] = "free" /\ pool'[t] = "assigned" /\ assignee'[t] = QuoteOf[k] /\ ticket'[k] = t
                 /\ (\A u \in Tickets : u # t => pool'[u] = pool[u] /\ assignee'[u] = assignee[u]))
        /\ UNCHANGED <<entry, picks, sweeping, sweep, observed, settling, seen, holder, net,
                       blobs, fetching, fetched, age, signed, sent, filled, closing,
                       restarts>>
    BY <1>t, <1>13, ConfirmsAssumption DEF TypeOK, TaskTypes, TakeTicket, Goto, Assign
  <2>1. LocalsOK'
    BY <1>l, <2>e, ConfirmsAssumption
    DEF LocalsOK, Unticketed, Working, Counting, Saved
  <2>2. WatchedOK'
    BY <1>a, <2>e, ConfirmsAssumption
    DEF WatchedOK, Out, Saved
  <2>3. BackedOK'
    BY <1>b, <2>e, OwesLess
    DEF Disclosing, Holding, Saved
  <2>4. TicketsOK'
    <3>0. UNCHANGED LiveTickets BY <2>e DEF LiveTickets, TicketSpent
    <3>1. CASE UNCHANGED <<ticket, pool, assignee>>
      <4>1. ticket'[k] \notin Tickets
        BY <1>l, <2>e, <3>1, SetsAssumption
        DEF LocalsOK, Unticketed
      <4>2. \A r \in Quotes, t \in Tickets : Wants(r, t)' => Wants(r, t) BY <2>e, <4>1 DEF Wants
      <4> QED BY <1>i, <2>e, <3>0, <3>1, <4>2, TicketsKept DEF TicketsOK, Buried
    <3>2. ASSUME NEW t \in blobs, pool[t] = "free", pool'[t] = "assigned", assignee'[t] = QuoteOf[k], ticket'[k] = t,
                 \A u \in Tickets : u # t => pool'[u] = pool[u] /\ assignee'[u] = assignee[u]
          PROVE  TicketsOK'
      <4>1. \A r \in Quotes : t \in Tickets /\ ~ Wants(r, t)
        BY <1>t, <1>i, <3>2 DEF TypeOK, TicketsOK, Buried
      <4>2. \A r \in Quotes, u \in Tickets : Wants(r, u)' => Wants(r, u) \/ (u = t /\ r = QuoteOf[k])
        BY <2>e, <3>2 DEF Wants
      <4>3. \A u \in Tickets : Buried(u)' <=> Buried(u) BY <2>e, <3>0 DEF Buried
      <4>4. fetching' => LiveTickets' \subseteq fetched' BY <1>i, <2>e, <3>0 DEF TicketsOK
      <4>5. \A r \in Quotes, u \in Tickets : Wants(r, u)' =>
              (pool'[u] = "assigned" /\ assignee'[u] = r) \/ Buried(u)'
        BY <1>i, <3>2, <4>1, <4>2, <4>3 DEF TicketsOK
      <4>6. \A p, r \in Quotes, u \in Tickets : Wants(p, u)' /\ Wants(r, u)' => p = r
        BY <1>i, <4>1, <4>2 DEF TicketsOK
      <4> QED BY <4>4, <4>5, <4>6 DEF TicketsOK
    <3> QED BY <2>e, <3>1, <3>2
  <2>5. CountedOK'
    BY <1>c, <2>e, ConfirmsAssumption
    DEF CountedOK, FirstSession
  <2> QED BY <2>1, <2>2, <2>3, <2>4, <2>5 DEF Backing
<1>14. ASSUME NEW k \in Confirms, Fail(k) PROVE Backing'
  <2>e1. pc[k] \in {"claimed", "counted", "committed", "reserved", "ready"}
    BY <1>t, <1>14, ConfirmsAssumption DEF TypeOK, TaskTypes, Fail, Goto
  <2>e2. pc'[k] = "rejectFunds" /\ \A j \in Confirms : j # k => pc'[j] = pc[j]
    BY <1>t, <1>14, ConfirmsAssumption DEF TypeOK, TaskTypes, Fail, Goto
  <2>e3. picks'[k] = (IF pc[k] \in {"reserved", "ready"} THEN picks[k] ELSE {})
          /\ \A j \in Confirms : j # k => picks'[j] = picks[j]
    BY <1>t, <1>14, ConfirmsAssumption DEF TypeOK, TaskTypes, Fail, Goto
  <2>e4. UNCHANGED <<entry, ticket, sweeping, sweep, observed, settling, seen, holder, net,
                     pool, assignee, blobs, fetching, fetched, age, signed, sent, filled,
                     closing, restarts>>
    BY <1>t, <1>14, ConfirmsAssumption DEF TypeOK, TaskTypes, Fail, Goto
  <2>1. LocalsOK'
    BY <1>l, <2>e1, <2>e2, <2>e3, <2>e4, ConfirmsAssumption
    DEF LocalsOK, Unticketed, Working, Counting, Saved
  <2>2. WatchedOK'
    BY <1>a, <2>e1, <2>e2, <2>e3, <2>e4, ConfirmsAssumption
    DEF WatchedOK, Out, Saved
  <2>3. BackedOK'
    BY <1>b, <2>e1, <2>e2, <2>e3, <2>e4, OwesLess
    DEF Disclosing, Holding, Saved
  <2>4. TicketsOK'
    BY <1>i, <2>e1, <2>e2, <2>e3, <2>e4, WantsLess
    DEF Saved
  <2>5. CountedOK'
    BY <1>c, <2>e1, <2>e2, <2>e3, <2>e4, ConfirmsAssumption
    DEF CountedOK, FirstSession
  <2> QED BY <2>1, <2>2, <2>3, <2>4, <2>5 DEF Backing
<1>15. ASSUME NEW k \in Confirms, Issue(k) PROVE Backing'
  <2>e1. pc[k] = "ready"
    BY <1>t, <1>15, ConfirmsAssumption DEF TypeOK, TaskTypes, Issue, Goto, Owns
  <2>e2. \A j \in Confirms : j # k => pc'[j] = pc[j]
    BY <1>t, <1>15, ConfirmsAssumption DEF TypeOK, TaskTypes, Issue, Goto, Owns
  <2>e3. pc'[k] \in {"send", "withholdFunds"}
    BY <1>t, <1>15, ConfirmsAssumption DEF TypeOK, TaskTypes, Issue, Goto, Owns
  <2>e4. pc'[k] = "send" => (entry[QuoteOf[k]] = "confirming"
          /\ (entry'[QuoteOf[k]] = "confirmed"
          /\ \A r \in Quotes : r # QuoteOf[k] => entry'[r] = entry[r]))
    BY <1>t, <1>15, ConfirmsAssumption DEF TypeOK, TaskTypes, Issue, Goto, Owns
  <2>e5. pc'[k] = "send" => (signed'[QuoteOf[k]] = [cids |-> picks[k], ticket |-> ticket[k]]
          /\ \A r \in Quotes : r # QuoteOf[k] => signed'[r] = signed[r])
    BY <1>t, <1>15, ConfirmsAssumption DEF TypeOK, TaskTypes, Issue, Goto, Owns
  <2>e6. pc'[k] = "send" => (net'[QuoteOf[k]] = (IF net[QuoteOf[k]] = "none" THEN "pending" ELSE net[QuoteOf[k]])
          /\ \A r \in Quotes : r # QuoteOf[k] => net'[r] = net[r])
    BY <1>t, <1>15, ConfirmsAssumption DEF TypeOK, TaskTypes, Issue, Goto, Owns
  <2>e7. pc'[k] # "send" => UNCHANGED <<entry, signed, net>>
    BY <1>t, <1>15, ConfirmsAssumption DEF TypeOK, TaskTypes, Issue, Goto, Owns
  <2>e8. UNCHANGED <<picks, ticket, sweeping, sweep, observed, settling, seen, holder, pool,
                     assignee, blobs, fetching, fetched, age, sent, filled, closing,
                     restarts>>
    BY <1>t, <1>15, ConfirmsAssumption DEF TypeOK, TaskTypes, Issue, Goto, Owns
  <2>1. LocalsOK'
    BY <1>l, <2>e1, <2>e2, <2>e3, <2>e4, <2>e5, <2>e6, <2>e7, <2>e8, ConfirmsAssumption
    DEF LocalsOK, Unticketed, Working, Counting, Saved
  <2>2. WatchedOK'
    BY <1>a, <2>e1, <2>e2, <2>e3, <2>e4, <2>e5, <2>e6, <2>e7, <2>e8, ConfirmsAssumption
    DEF WatchedOK, Out, Saved
  <2>3. BackedOK'
    <3>1. CASE pc'[k] # "send"
      BY <1>b, <2>e1, <2>e2, <2>e3, <2>e4, <2>e5, <2>e6, <2>e7, <2>e8, <3>1, OwesLess
      DEF Disclosing, Holding
    <3>2. CASE pc'[k] = "send"
      <4>1. /\ QuoteOf[k] \notin seen /\ signed'[QuoteOf[k]].cids = picks[k]
            /\ \A r \in Quotes : r # QuoteOf[k] => signed'[r] = signed[r]
            /\ UNCHANGED <<picks, sweeping, seen, holder>>
            /\ QuoteOf[k] \in Quotes
        BY <1>t, <1>s, <2>e1, <2>e2, <2>e3, <2>e4, <2>e5, <2>e6, <2>e7, <2>e8, <3>2,
             ConfirmsAssumption
        DEF TypeOK, SentOK
      <4>2. \A r \in Quotes, c \in Cids : Picked(r, c)' => Picked(r, c)
        BY <2>e1, <2>e2, <2>e3, <2>e4, <2>e5, <2>e6, <2>e7, <2>e8, <3>2 DEF Picked, Holding
      <4>3. \A r \in Quotes : r # QuoteOf[k] => (Disclosing(r)' <=> Disclosing(r))
        BY <2>e1, <2>e2, <2>e3, <2>e4, <2>e5, <2>e6, <2>e7, <2>e8, <3>2 DEF Disclosing
      <4>4. \A c \in Cids : c \in picks[k] => Picked(QuoteOf[k], c)
        BY <2>e1, <2>e2, <2>e3, <2>e4, <2>e5, <2>e6, <2>e7, <2>e8 DEF Picked, Holding
      <4>5. \A r \in Quotes, c \in Cids : Owes(r, c)' => Owes(r, c)
        BY <4>1, <4>2, <4>3, <4>4 DEF Owes
      <4> QED BY <1>b, <4>1, <4>5, BackedKept
    <3> QED BY <3>1, <3>2
  <2>4. TicketsOK'
    <3>1. CASE pc'[k] # "send"
      BY <1>i, <2>e1, <2>e2, <2>e3, <2>e4, <2>e5, <2>e6, <2>e7, <2>e8, <3>1, WantsLess DEF Saved
    <3>2. CASE pc'[k] = "send"
      <4>1. /\ QuoteOf[k] \in Quotes /\ QuoteOf[k] \notin filled
            /\ signed'[QuoteOf[k]].ticket = ticket[k] /\ entry[QuoteOf[k]] = "confirming"
            /\ \A r \in Quotes : r # QuoteOf[k] => signed'[r] = signed[r] /\ entry'[r] = entry[r]
            /\ entry'[QuoteOf[k]] = "confirmed"
        BY <1>t, <1>s, <2>e1, <2>e2, <2>e3, <2>e4, <2>e5, <2>e6, <2>e7, <2>e8, <3>2,
             ConfirmsAssumption
        DEF TypeOK, SentOK
      <4>2. \A r \in Quotes, t \in Tickets : Wants(r, t)' => Wants(r, t)
        <5> SUFFICES ASSUME NEW r \in Quotes, NEW t \in Tickets, Wants(r, t)' PROVE Wants(r, t)
          OBVIOUS
        <5>0. UNCHANGED <<seen, age, ticket>> /\ \A j \in Confirms : pc'[j] = "ready" =>
                          pc[j] = "ready"
          BY <2>e1, <2>e2, <2>e3, <2>e4, <2>e5, <2>e6, <2>e7, <2>e8, <3>2
        <5>1. CASE r = QuoteOf[k]
          <6>1. ticket[k] = t BY <4>1, <5>1 DEF Wants, Saved
          <6>2. r \notin seen /\ age[r] # "lapsed" BY <5>0 DEF Wants
          <6>3. QuoteOf[k] = r /\ pc[k] = "ready"
            BY <2>e1, <2>e2, <2>e3, <2>e4, <2>e5, <2>e6, <2>e7, <2>e8, <5>1
          <6> QED BY <4>1, <5>1, <6>1, <6>2, <6>3 DEF Wants
        <5>2. CASE r # QuoteOf[k]
          <6>1. signed'[r] = signed[r] /\ entry'[r] = entry[r] BY <4>1, <5>2
          <6> QED BY <5>0, <6>1 DEF Wants
        <5> QED BY <5>1, <5>2
      <4>3. UNCHANGED LiveTickets
        <5>1. filled' = filled /\ \A r \in filled : r \in Quotes /\ r # QuoteOf[k]
          BY <1>t, <2>e1, <2>e2, <2>e3, <2>e4, <2>e5, <2>e6, <2>e7, <2>e8, <4>1 DEF TypeOK
        <5>2. \A r \in filled : signed'[r] = signed[r] BY <4>1, <5>1
        <5> QED BY <5>1, <5>2 DEF LiveTickets, TicketSpent
      <4>4. UNCHANGED <<pool, assignee, blobs, fetching, fetched>>
        BY <2>e1, <2>e2, <2>e3, <2>e4, <2>e5, <2>e6, <2>e7, <2>e8
      <4>5. \A t \in Tickets : Buried(t) => Buried(t)' BY <4>3, <4>4 DEF Buried
      <4> QED BY <1>i, <4>2, <4>3, <4>4, <4>5, TicketsKept DEF TicketsOK
    <3> QED BY <3>1, <3>2
  <2>5. CountedOK'
    BY <1>c, <2>e1, <2>e2, <2>e3, <2>e4, <2>e5, <2>e6, <2>e7, <2>e8, ConfirmsAssumption
    DEF CountedOK, FirstSession
  <2> QED BY <2>1, <2>2, <2>3, <2>4, <2>5 DEF Backing
<1>16. ASSUME NEW k \in Confirms, Send(k) PROVE Backing'
  <2>e. /\ pc[k] = "send"
        /\ pc'[k] = "done" /\ \A j \in Confirms : j # k => pc'[j] = pc[j]
        /\ picks'[k] = {} /\ \A j \in Confirms : j # k => picks'[j] = picks[j]
        /\ ticket'[k] = NoTicket /\ \A j \in Confirms : j # k => ticket'[j] = ticket[j]
        /\ sent' \in {sent, sent \cup {QuoteOf[k]}}
        /\ UNCHANGED <<entry, sweeping, sweep, observed, settling, seen, holder, net, pool,
                       assignee, blobs, fetching, fetched, age, signed, filled, closing,
                       restarts>>
    BY <1>t, <1>16, ConfirmsAssumption DEF TypeOK, TaskTypes, Send, Ends, Goto
  <2>1. LocalsOK'
    BY <1>l, <2>e, ConfirmsAssumption
    DEF LocalsOK, Unticketed, Working, Counting, Saved
  <2>2. WatchedOK'
    BY <1>a, <2>e, ConfirmsAssumption
    DEF WatchedOK, Out, Saved
  <2>3. BackedOK'
    BY <1>b, <2>e, OwesLess
    DEF Disclosing, Holding, Saved
  <2>4. TicketsOK'
    BY <1>i, <2>e, WantsLess
    DEF Saved
  <2>5. CountedOK'
    BY <1>c, <2>e, ConfirmsAssumption
    DEF CountedOK, FirstSession
  <2> QED BY <2>1, <2>2, <2>3, <2>4, <2>5 DEF Backing
<1>17. ASSUME NEW k \in Confirms, UndoFunds(k) PROVE Backing'
  <2>e1. <<pc[k], pc'[k]>> \in {<<"rejectFunds", "rejectCids">>, <<"withholdFunds", "withholdCids">>}
    BY <1>t, <1>17, ConfirmsAssumption DEF TypeOK, TaskTypes, UndoFunds, Goto, ReleaseFunds
  <2>e2. \A j \in Confirms : j # k => pc'[j] = pc[j]
    BY <1>t, <1>17, ConfirmsAssumption DEF TypeOK, TaskTypes, UndoFunds, Goto, ReleaseFunds
  <2>e3. net'[QuoteOf[k]] = Reversed(net[QuoteOf[k]])
          /\ \A r \in Quotes : r # QuoteOf[k] => net'[r] = net[r]
    BY <1>t, <1>17, ConfirmsAssumption DEF TypeOK, TaskTypes, UndoFunds, Goto, ReleaseFunds
  <2>e4. UNCHANGED <<entry, picks, ticket, sweeping, sweep, observed, settling, seen,
                     holder, pool, assignee, blobs, fetching, fetched, age, signed, sent,
                     filled, closing, restarts>>
    BY <1>t, <1>17, ConfirmsAssumption DEF TypeOK, TaskTypes, UndoFunds, Goto, ReleaseFunds
  <2>1. LocalsOK'
    BY <1>l, <2>e1, <2>e2, <2>e3, <2>e4, ConfirmsAssumption
    DEF LocalsOK, Unticketed, Working, Counting, Saved
  <2>2. WatchedOK'
    BY <1>a, <2>e1, <2>e2, <2>e3, <2>e4, ConfirmsAssumption
    DEF WatchedOK, Out, Saved
  <2>3. BackedOK'
    BY <1>b, <2>e1, <2>e2, <2>e3, <2>e4, OwesLess
    DEF Disclosing, Holding, Saved
  <2>4. TicketsOK'
    BY <1>i, <2>e1, <2>e2, <2>e3, <2>e4, WantsLess
    DEF Saved
  <2>5. CountedOK'
    BY <1>c, <1>e, <2>e1, <2>e2, <2>e3, <2>e4, ConfirmsAssumption
    DEF CountedOK, FirstSession, EntriesOK, Reversed, Working, Counting, Saved
  <2> QED BY <2>1, <2>2, <2>3, <2>4, <2>5 DEF Backing
<1>18. ASSUME NEW k \in Confirms, UndoCids(k) PROVE Backing'
  <2>e1. <<pc[k], pc'[k]>> \in {<<"rejectCids", "rejectTicket">>, <<"withholdCids", "withholdTicket">>}
    BY <1>t, <1>18, ConfirmsAssumption
    DEF TypeOK, TaskTypes, UndoCids, Goto, ReleaseReservations
  <2>e2. \A j \in Confirms : j # k => pc'[j] = pc[j]
    BY <1>t, <1>18, ConfirmsAssumption
    DEF TypeOK, TaskTypes, UndoCids, Goto, ReleaseReservations
  <2>e3. \A c \in Cids : holder'[c] = IF c \in picks[k] THEN NoQuote ELSE holder[c]
    BY <1>t, <1>18, ConfirmsAssumption
    DEF TypeOK, TaskTypes, UndoCids, Goto, ReleaseReservations
  <2>e4. UNCHANGED <<entry, picks, ticket, sweeping, sweep, observed, settling, seen, net,
                     pool, assignee, blobs, fetching, fetched, age, signed, sent, filled,
                     closing, restarts>>
    BY <1>t, <1>18, ConfirmsAssumption
    DEF TypeOK, TaskTypes, UndoCids, Goto, ReleaseReservations
  <2>1. LocalsOK'
    BY <1>l, <2>e1, <2>e2, <2>e3, <2>e4, ConfirmsAssumption
    DEF LocalsOK, Unticketed, Working, Counting, Saved
  <2>2. WatchedOK'
    BY <1>a, <2>e1, <2>e2, <2>e3, <2>e4, ConfirmsAssumption
    DEF WatchedOK, Out, Saved
  <2>3. BackedOK'
    <3> DEFINE p == QuoteOf[k]
    <3>0. p \in Quotes /\ Working(k) /\ pc[k] \in Holding /\ pc'[k] \notin Holding
      BY <2>e1, <2>e2, <2>e3, <2>e4, ConfirmsAssumption DEF Working, Holding
    <3>1. \A r \in Quotes, c \in Cids : Owes(r, c)' => Owes(r, c)
      BY <2>e1, <2>e2, <2>e3, <2>e4, <3>0 DEF Owes, Picked, Disclosing
    <3>2. ASSUME NEW c \in picks[k], c \in Cids, Owes(p, c)' PROVE FALSE
      <4>1. ~ Disclosing(p)'
        BY <1>e, <1>l, <2>e1, <2>e2, <2>e3, <2>e4, <3>0
        DEF Disclosing, EntriesOK, LocalsOK, Saved
      <4>2. PICK j \in Confirms : QuoteOf[j] = p /\ pc'[j] \in Holding /\ c \in picks'[j]
        BY <3>2, <4>1 DEF Owes, Picked
      <4>3. j # k /\ Working(j) BY <2>e1, <2>e2, <2>e3, <2>e4, <3>0, <4>2 DEF Working, Holding
      <4> QED BY <1>o, <1>l, <3>0, <3>2, <4>2, <4>3 DEF OneTask, LocalsOK, Counting
    <3>3. \A c \in picks[k] : c \in Cids => Owes(p, c)
      BY <3>0 DEF Owes, Picked
    <3>4. \A r \in Quotes, c \in Cids : Owes(r, c)' => c \notin picks[k]
      BY <1>b, <3>0, <3>1, <3>2, <3>3 DEF BackedOK
    <3> QED BY <1>b, <2>e1, <2>e2, <2>e3, <2>e4, <3>1, <3>4, BackedKept
  <2>4. TicketsOK'
    BY <1>i, <2>e1, <2>e2, <2>e3, <2>e4, WantsLess
    DEF Saved
  <2>5. CountedOK'
    BY <1>c, <2>e1, <2>e2, <2>e3, <2>e4, ConfirmsAssumption
    DEF CountedOK, FirstSession
  <2> QED BY <2>1, <2>2, <2>3, <2>4, <2>5 DEF Backing
<1>19. ASSUME NEW k \in Confirms, UndoTicket(k) PROVE Backing'
  <2>e. /\ pc[k] \in {"rejectTicket", "withholdTicket"}
        /\ entry'[QuoteOf[k]] \in {entry[QuoteOf[k]], "none"} /\ \A r \in Quotes : r # QuoteOf[k] => entry'[r] = entry[r]
        /\ pc'[k] = "done" /\ \A j \in Confirms : j # k => pc'[j] = pc[j]
        /\ picks'[k] = {} /\ \A j \in Confirms : j # k => picks'[j] = picks[j]
        /\ ticket'[k] = NoTicket /\ \A j \in Confirms : j # k => ticket'[j] = ticket[j]
        /\ \A t \in Tickets : assignee[t] # QuoteOf[k] => pool'[t] = pool[t] /\ assignee'[t] = assignee[t]
        /\ UNCHANGED <<sweeping, sweep, observed, settling, seen, holder, net, blobs,
                       fetching, fetched, age, signed, sent, filled, closing, restarts>>
    BY <1>t, <1>19, ConfirmsAssumption DEF TypeOK, TaskTypes, UndoTicket, Ends, Goto, Unassign
  <2>1. LocalsOK'
    BY <1>l, <2>e, ConfirmsAssumption
    DEF LocalsOK, Unticketed, Working, Counting, Saved
  <2>2. WatchedOK'
    BY <1>a, <1>e, <2>e, ConfirmsAssumption
    DEF WatchedOK, Out, Saved, EntriesOK, Counting, Working, Claimed, Lapsed
  <2>3. BackedOK'
    BY <1>b, <2>e, OwesLess
    DEF Disclosing, Holding, Saved
  <2>4. TicketsOK'
    <3>1. Working(k) /\ pc'[k] = "done" BY <2>e DEF Working
    <3>2. \A r \in Quotes, t \in Tickets : Wants(r, t)' => Wants(r, t)
      BY <2>e, <3>1 DEF Wants, Saved
    <3>3. \A t \in Tickets : ~ Wants(QuoteOf[k], t)
      <4>1. \A j \in Confirms : QuoteOf[j] = QuoteOf[k] => pc[j] # "ready"
        BY <1>k, <1>o, <2>e, <3>1 DEF TasksOK, OneTask, Working, Claimed, Counting
      <4>2. entry[QuoteOf[k]] \notin Saved
        BY <1>e, <3>1, ConfirmsAssumption DEF EntriesOK, Saved
      <4> QED BY <4>1, <4>2 DEF Wants
    <3>4. UNCHANGED LiveTickets BY <2>e DEF LiveTickets, TicketSpent
    <3> QED BY <1>i, <2>e, <3>2, <3>3, <3>4, TicketsKept DEF TicketsOK, Buried
  <2>5. CountedOK'
    BY <1>c, <1>e, <2>e, ConfirmsAssumption
    DEF CountedOK, FirstSession, EntriesOK, Reversed, Working, Counting, Saved
  <2> QED BY <2>1, <2>2, <2>3, <2>4, <2>5 DEF Backing
<1>20. ASSUME NEW k \in Confirms, Panic(k) PROVE Backing'
  <2>e. /\ Running(k) /\ entry[QuoteOf[k]] = "confirming"
        /\ pc'[k] = "done" /\ \A j \in Confirms : j # k => pc'[j] = pc[j]
        /\ picks'[k] = {} /\ \A j \in Confirms : j # k => picks'[j] = picks[j]
        /\ ticket'[k] = NoTicket /\ \A j \in Confirms : j # k => ticket'[j] = ticket[j]
        /\ UNCHANGED <<entry, sweeping, sweep, observed, settling, seen, holder, net, pool,
                       assignee, blobs, fetching, fetched, age, signed, sent, filled,
                       closing, restarts>>
    BY <1>t, <1>20, ConfirmsAssumption DEF TypeOK, TaskTypes, Panic, Ends, Goto
  <2>1. LocalsOK'
    BY <1>l, <2>e, ConfirmsAssumption
    DEF LocalsOK, Unticketed, Working, Counting, Saved
  <2>2. WatchedOK'
    BY <1>a, <2>e, ConfirmsAssumption
    DEF WatchedOK, Out, Saved
  <2>3. BackedOK'
    BY <1>b, <2>e, OwesLess
    DEF Disclosing, Holding, Saved
  <2>4. TicketsOK'
    BY <1>i, <2>e, WantsLess
    DEF Saved
  <2>5. CountedOK'
    BY <1>c, <2>e, ConfirmsAssumption
    DEF CountedOK, FirstSession
  <2> QED BY <2>1, <2>2, <2>3, <2>4, <2>5 DEF Backing
<1>21. CASE StartSweep
  <2>e. /\ ~ closing /\ ~ sweep
        /\ \A r \in Quotes : (Lapsed(r) /\ entry'[r] = "expired" /\ sweeping'[r] = "confirmed")
           \/ (entry[r] \in {"indicative", "confirming"} /\ entry'[r] = "expired" /\ sweeping'[r] \in {"abandoned", "none"})
           \/ (entry'[r] = entry[r] /\ sweeping'[r] = "none" /\ ~ Lapsed(r))
        /\ UNCHANGED <<pc, picks, ticket, observed, settling, seen, holder, net, pool,
                       assignee, blobs, fetching, fetched, age, signed, sent, filled,
                       closing, restarts>>
    BY <1>t, <1>21, ConfirmsAssumption
    DEF TypeOK, TaskTypes, StartSweep, Abandoned, Lapsed, Stale
  <2>1. LocalsOK'
    BY <1>l, <1>e, <2>e, ConfirmsAssumption
    DEF LocalsOK, Unticketed, Working, Counting, Saved, EntriesOK, Claimed, Lapsed
  <2>2. WatchedOK'
    BY <1>a, <1>e, <2>e, ConfirmsAssumption
    DEF WatchedOK, Out, Saved, EntriesOK, Counting, Working, Claimed, Lapsed
  <2>3. BackedOK'
    BY <1>b, <1>l, <2>e, OwesLess
    DEF Disclosing, Holding, Saved, LocalsOK, Unticketed, Working, Lapsed
  <2>4. TicketsOK'
    BY <1>i, <2>e, WantsLess
    DEF Saved
  <2>5. CountedOK'
    <3>1. \A r \in Quotes : entry'[r] \in {"confirmed", "restored"} => entry'[r] = entry[r]
      BY <2>e
    <3>2. \A r \in Quotes : entry[r] = "confirmed" /\ age[r] # "lapsed" => entry'[r] = "confirmed"
      BY <2>e DEF Lapsed
    <3>3. UNCHANGED <<settling, observed, seen, net, age, closing, restarts>>
      BY <2>e
    <3> QED BY <1>c, <3>1, <3>2, <3>3 DEF CountedOK, FirstSession
  <2> QED BY <2>1, <2>2, <2>3, <2>4, <2>5 DEF Backing
<1>22. ASSUME NEW q \in Quotes, SweepFunds(q) PROVE Backing'
  <2>e1. <<sweeping[q], sweeping'[q]>> \in {<<"confirmed", "cids">>, <<"abandoned", "ticket">>}
    BY <1>t, <1>22, ConfirmsAssumption DEF TypeOK, TaskTypes, SweepFunds, ReleaseFunds
  <2>e2. \A r \in Quotes : r # q => sweeping'[r] = sweeping[r]
    BY <1>t, <1>22, ConfirmsAssumption DEF TypeOK, TaskTypes, SweepFunds, ReleaseFunds
  <2>e3. net'[q] = Reversed(net[q]) /\ \A r \in Quotes : r # q => net'[r] = net[r]
    BY <1>t, <1>22, ConfirmsAssumption DEF TypeOK, TaskTypes, SweepFunds, ReleaseFunds
  <2>e4. UNCHANGED <<entry, pc, picks, ticket, sweep, observed, settling, seen, holder,
                     pool, assignee, blobs, fetching, fetched, age, signed, sent, filled,
                     closing, restarts>>
    BY <1>t, <1>22, ConfirmsAssumption DEF TypeOK, TaskTypes, SweepFunds, ReleaseFunds
  <2>1. LocalsOK'
    BY <1>l, <2>e1, <2>e2, <2>e3, <2>e4, ConfirmsAssumption
    DEF LocalsOK, Unticketed, Working, Counting, Saved
  <2>2. WatchedOK'
    BY <1>a, <2>e1, <2>e2, <2>e3, <2>e4, ConfirmsAssumption
    DEF WatchedOK, Out, Saved
  <2>3. BackedOK'
    BY <1>b, <2>e1, <2>e2, <2>e3, <2>e4, OwesLess
    DEF Disclosing, Holding, Saved
  <2>4. TicketsOK'
    BY <1>i, <2>e1, <2>e2, <2>e3, <2>e4, WantsLess
    DEF Saved
  <2>5. CountedOK'
    BY <1>c, <1>e, <2>e1, <2>e2, <2>e3, <2>e4, ConfirmsAssumption
    DEF CountedOK, FirstSession, EntriesOK, Reversed, Working, Counting, Saved
  <2> QED BY <2>1, <2>2, <2>3, <2>4, <2>5 DEF Backing
<1>23. ASSUME NEW q \in Quotes, SweepCids(q) PROVE Backing'
  <2>e. /\ sweeping[q] = "cids"
        /\ sweeping'[q] = "ticket" /\ \A r \in Quotes : r # q => sweeping'[r] = sweeping[r]
        /\ \A c \in Cids : holder'[c] = IF c \in signed[q].cids THEN NoQuote ELSE holder[c]
        /\ UNCHANGED <<entry, pc, picks, ticket, sweep, observed, settling, seen, net, pool,
                       assignee, blobs, fetching, fetched, age, signed, sent, filled,
                       closing, restarts>>
    BY <1>t, <1>23, ConfirmsAssumption DEF TypeOK, TaskTypes, SweepCids, ReleaseReservations
  <2>1. LocalsOK'
    BY <1>l, <2>e, ConfirmsAssumption
    DEF LocalsOK, Unticketed, Working, Counting, Saved
  <2>2. WatchedOK'
    BY <1>a, <2>e, ConfirmsAssumption
    DEF WatchedOK, Out, Saved
  <2>3. BackedOK'
    <3>1. \A r \in Quotes, c \in Cids : Owes(r, c)' => Owes(r, c)
      BY <2>e DEF Owes, Picked, Disclosing
    <3>2. \A c \in Cids : ~ Owes(q, c)'
      BY <1>e, <1>l, <2>e
      DEF Owes, Picked, Disclosing, EntriesOK, LocalsOK, Saved, Holding, Working
    <3>3. \A c \in signed[q].cids : Owes(q, c)
      BY <2>e DEF Owes, Disclosing
    <3>4. \A r \in Quotes, c \in Cids : Owes(r, c)' => c \notin signed[q].cids
      BY <1>b, <3>1, <3>2, <3>3 DEF BackedOK
    <3> QED BY <1>b, <2>e, <3>1, <3>4, BackedKept
  <2>4. TicketsOK'
    BY <1>i, <2>e, WantsLess
    DEF Saved
  <2>5. CountedOK'
    BY <1>c, <2>e, ConfirmsAssumption
    DEF CountedOK, FirstSession
  <2> QED BY <2>1, <2>2, <2>3, <2>4, <2>5 DEF Backing
<1>24. ASSUME NEW q \in Quotes, SweepTicket(q) PROVE Backing'
  <2>e. /\ sweeping[q] = "ticket"
        /\ sweeping'[q] = "none" /\ \A r \in Quotes : r # q => sweeping'[r] = sweeping[r]
        /\ \A t \in Tickets : assignee[t] # q => pool'[t] = pool[t] /\ assignee'[t] = assignee[t]
        /\ UNCHANGED <<entry, pc, picks, ticket, sweep, observed, settling, seen, holder,
                       net, blobs, fetching, fetched, age, signed, sent, filled, closing,
                       restarts>>
    BY <1>t, <1>24, ConfirmsAssumption DEF TypeOK, TaskTypes, SweepTicket, Unassign
  <2>1. LocalsOK'
    BY <1>l, <2>e, ConfirmsAssumption
    DEF LocalsOK, Unticketed, Working, Counting, Saved
  <2>2. WatchedOK'
    BY <1>a, <2>e, ConfirmsAssumption
    DEF WatchedOK, Out, Saved
  <2>3. BackedOK'
    BY <1>b, <2>e, OwesLess
    DEF Disclosing, Holding, Saved
  <2>4. TicketsOK'
    <3>1. \A r \in Quotes, t \in Tickets : Wants(r, t)' => Wants(r, t) BY <2>e DEF Wants
    <3>2. \A t \in Tickets : ~ Wants(q, t) BY <1>e, <2>e DEF EntriesOK, Wants, Saved
    <3>3. UNCHANGED LiveTickets BY <2>e DEF LiveTickets, TicketSpent
    <3> QED BY <1>i, <2>e, <3>1, <3>2, <3>3, TicketsKept DEF TicketsOK, Buried
  <2>5. CountedOK'
    BY <1>c, <2>e, ConfirmsAssumption
    DEF CountedOK, FirstSession
  <2> QED BY <2>1, <2>2, <2>3, <2>4, <2>5 DEF Backing
<1>25. CASE EndSweep
  <2>e. /\ \A t \in Tickets : ~ AssignmentOver(t) => pool'[t] = pool[t] /\ assignee'[t] = assignee[t]
        /\ \A q \in Quotes : net'[q] = net[q] \/ (age[q] = "lapsed" /\ net'[q] = Reversed(net[q]))
        /\ UNCHANGED <<entry, pc, picks, ticket, sweeping, observed, settling, seen, holder,
                       blobs, fetching, fetched, age, signed, sent, filled, closing,
                       restarts>>
    BY <1>t, <1>25, ConfirmsAssumption DEF TypeOK, TaskTypes, EndSweep
  <2>1. LocalsOK'
    BY <1>l, <2>e, ConfirmsAssumption
    DEF LocalsOK, Unticketed, Working, Counting, Saved
  <2>2. WatchedOK'
    BY <1>a, <2>e, ConfirmsAssumption
    DEF WatchedOK, Out, Saved
  <2>3. BackedOK'
    BY <1>b, <2>e, OwesLess
    DEF Disclosing, Holding, Saved
  <2>4. TicketsOK'
    <3>1. \A r \in Quotes, t \in Tickets : Wants(r, t)' => Wants(r, t) BY <2>e DEF Wants
    <3>2. \A r \in Quotes, t \in Tickets : Wants(r, t) /\ assignee[t] = r => ~ AssignmentOver(t)
      BY DEF Wants, AssignmentOver
    <3>3. UNCHANGED LiveTickets BY <2>e DEF LiveTickets, TicketSpent
    <3> QED BY <1>i, <2>e, <3>1, <3>2, <3>3, TicketsKept DEF TicketsOK, Buried
  <2>5. CountedOK'
    BY <1>c, <1>e, <2>e, ConfirmsAssumption
    DEF CountedOK, FirstSession, EntriesOK, Reversed, Working, Counting, Saved
  <2> QED BY <2>1, <2>2, <2>3, <2>4, <2>5 DEF Backing
<1>26. CASE FetchTickets
  <2>e. /\ ~ fetching /\ fetching' = TRUE /\ fetched' = LiveTickets
        /\ UNCHANGED <<entry, pc, picks, ticket, sweeping, sweep, observed, settling, seen,
                       holder, net, pool, assignee, blobs, age, signed, sent, filled,
                       closing, restarts>>
    BY <1>t, <1>26, ConfirmsAssumption DEF TypeOK, TaskTypes, FetchTickets
  <2>1. LocalsOK'
    BY <1>l, <2>e, ConfirmsAssumption
    DEF LocalsOK, Unticketed, Working, Counting, Saved
  <2>2. WatchedOK'
    BY <1>a, <2>e, ConfirmsAssumption
    DEF WatchedOK, Out, Saved
  <2>3. BackedOK'
    BY <1>b, <2>e, OwesLess
    DEF Disclosing, Holding, Saved
  <2>4. TicketsOK'
    <3>1. \A r \in Quotes, t \in Tickets : Wants(r, t)' => Wants(r, t) BY <2>e DEF Wants
    <3>2. UNCHANGED LiveTickets BY <2>e DEF LiveTickets, TicketSpent
    <3> QED BY <1>i, <2>e, <3>1, <3>2, TicketsKept DEF Buried
  <2>5. CountedOK'
    BY <1>c, <2>e, ConfirmsAssumption
    DEF CountedOK, FirstSession
  <2> QED BY <2>1, <2>2, <2>3, <2>4, <2>5 DEF Backing
<1>27. CASE ReconcileFromAcs
  <2>e. /\ fetching /\ fetching' = FALSE /\ fetched' = {} /\ blobs' = fetched
        /\ \A t \in fetched : (pool[t] # "absent" => pool'[t] = pool[t]) /\ assignee'[t] = assignee[t]
        /\ UNCHANGED <<entry, pc, picks, ticket, sweeping, sweep, observed, settling, seen,
                       holder, net, age, signed, sent, filled, closing, restarts>>
    BY <1>t, <1>27, ConfirmsAssumption DEF TypeOK, TaskTypes, ReconcileFromAcs, Adopt
  <2>1. LocalsOK'
    BY <1>l, <2>e, ConfirmsAssumption
    DEF LocalsOK, Unticketed, Working, Counting, Saved
  <2>2. WatchedOK'
    BY <1>a, <2>e, ConfirmsAssumption
    DEF WatchedOK, Out, Saved
  <2>3. BackedOK'
    BY <1>b, <2>e, OwesLess
    DEF Disclosing, Holding, Saved
  <2>4. TicketsOK'
    <3>1. \A r \in Quotes, t \in Tickets : Wants(r, t)' => Wants(r, t) BY <2>e DEF Wants
    <3>2. UNCHANGED LiveTickets BY <2>e DEF LiveTickets, TicketSpent
    <3>3. LiveTickets \subseteq fetched BY <1>i, <2>e DEF TicketsOK
    <3>4. \A t \in Tickets : t \notin fetched => Buried(t)' BY <2>e, <3>2, <3>3 DEF Buried
    <3> QED BY <1>i, <2>e, <3>1, <3>2, <3>4, TicketsKept DEF Buried
  <2>5. CountedOK'
    BY <1>c, <2>e, ConfirmsAssumption
    DEF CountedOK, FirstSession
  <2> QED BY <2>1, <2>2, <2>3, <2>4, <2>5 DEF Backing
<1>28. CASE Shutdown
  <2>e. /\ ~ closing /\ closing' = TRUE
        /\ UNCHANGED <<entry, pc, picks, ticket, sweeping, sweep, observed, settling, seen,
                       holder, net, pool, assignee, blobs, fetching, fetched, age, signed,
                       sent, filled, restarts>>
    BY <1>t, <1>28, ConfirmsAssumption DEF TypeOK, TaskTypes, Shutdown
  <2>1. LocalsOK'
    BY <1>l, <2>e, ConfirmsAssumption
    DEF LocalsOK, Unticketed, Working, Counting, Saved
  <2>2. WatchedOK'
    BY <1>a, <2>e, ConfirmsAssumption
    DEF WatchedOK, Out, Saved
  <2>3. BackedOK'
    BY <1>b, <2>e, OwesLess
    DEF Disclosing, Holding, Saved
  <2>4. TicketsOK'
    BY <1>i, <2>e, WantsLess
    DEF Saved
  <2>5. CountedOK'
    BY <1>c, <2>e, ConfirmsAssumption
    DEF CountedOK, FirstSession
  <2> QED BY <2>1, <2>2, <2>3, <2>4, <2>5 DEF Backing
<1>29. CASE SaveAndRestart
  <2>e. /\ \A q \in Quotes : entry'[q] = IF q \in Restored THEN "restored" ELSE "none"
        /\ \A c \in Cids : holder'[c] = RestoredHolder(c)
        /\ \A k \in Confirms : pc'[k] \in {"idle", "done"} /\ picks'[k] = {} /\ ticket'[k] = NoTicket
        /\ \A q \in Quotes : sweeping'[q] = "none"
        /\ observed' = {} /\ settling' = {} /\ seen' = filled /\ restarts' = restarts + 1
        /\ blobs' = {} /\ fetching' = FALSE /\ fetched' = {}
        /\ \A t \in Tickets : ~ AssignmentOver(t) => pool'[t] = pool[t] /\ assignee'[t] = assignee[t]
        /\ UNCHANGED <<age, signed, sent, filled>>
    BY <1>t, <1>29 DEF TypeOK, TaskTypes, SaveAndRestart, Running
  <2>r. \A q \in Restored : q \in Quotes /\ entry[q] \in Saved /\ age[q] # "lapsed"
    BY DEF Restored
  <2>1. LocalsOK'
    BY <1>l, <2>e, <2>r DEF LocalsOK, Working, Saved
  <2>2. WatchedOK'
    <3>1. \A q \in Quotes : Out(q)' => q \in sent BY <2>e DEF Out
    <3>2. seen \subseteq filled BY <1>t DEF TypeOK
    <3>3. \A q \in Quotes : q \in sent /\ age[q] \in {"open", "closed"} /\ q \notin filled => entry[q] \in Saved
      BY <1>a, <3>2 DEF WatchedOK, Out
    <3> QED BY <2>e, <3>1, <3>3 DEF WatchedOK, Restored, Saved
  <2>3. BackedOK'
    <3>1. \A q \in Quotes, c \in Cids : Owes(q, c)' => q \in Restored /\ c \in signed[q].cids
      BY <2>e DEF Owes, Picked, Disclosing, Saved, Holding
    <3>2. \A q \in Restored, c \in Cids : c \in signed[q].cids => Owes(q, c)
      BY <2>r DEF Owes, Disclosing
    <3>3. \A p, q \in Restored, c \in Cids : c \in signed[p].cids /\ c \in signed[q].cids => p = q
      BY <1>b, <2>r, <3>2 DEF BackedOK
    <3>4. ASSUME NEW q \in Restored, NEW c \in Cids, c \in signed[q].cids PROVE RestoredHolder(c) = q
      BY <3>3, <3>4 DEF RestoredHolder
    <3> QED BY <2>e, <2>r, <3>1, <3>3, <3>4 DEF BackedOK
  <2>4. TicketsOK'
    <3>1. \A q \in Quotes, t \in Tickets : Wants(q, t)' => Wants(q, t)
      BY <1>t, <2>e, <2>r DEF TypeOK, Wants, Saved
    <3>2. \A q \in Quotes, t \in Tickets : Wants(q, t) /\ assignee[t] = q => ~ AssignmentOver(t)
      BY DEF Wants, AssignmentOver
    <3>3. UNCHANGED LiveTickets BY <2>e DEF LiveTickets, TicketSpent
    <3>4. \A t \in Tickets : Buried(t) => Buried(t)' BY <2>e, <3>3 DEF Buried
    <3> QED BY <1>i, <2>e, <3>1, <3>2, <3>4, TicketsKept
  <2>5. CountedOK'
    BY <1>t, <2>e, BoundsAssumption DEF TypeOK, CountedOK, FirstSession
  <2> QED BY <2>1, <2>2, <2>3, <2>4, <2>5 DEF Backing
<1>30. CASE UNCHANGED vars
  BY <1>l, <1>a, <1>b, <1>i, <1>c, <1>30
  DEF vars, Backing, LocalsOK, WatchedOK, BackedOK, TicketsOK, CountedOK, Working, Out, Owes,
       Picked, Disclosing,
      Wants, Buried, LiveTickets, TicketSpent, FirstSession
<1> QED
  BY <1>1, <1>2, <1>3, <1>4, <1>5, <1>6, <1>7, <1>8, <1>9, <1>10, <1>11, <1>12, <1>13, <1>14,
       <1>15, <1>16, <1>17, <1>18, <1>19, <1>20, <1>21, <1>22, <1>23, <1>24, <1>25, <1>26,
       <1>27, <1>28, <1>29, <1>30
  DEF Next, ConfirmStep, SweepStep


\* The inductive invariant of what the envelopes disclose.
THEOREM BInvariance ==
  ASSUME SweepMeetsTTL, WatcherPrompt
  PROVE  Spec => []BInv
<1>1. Init => BInv
  BY InitType, InitControl, InitBacking DEF BInv, IInv
<1>2. BInv /\ [Next]_vars => BInv'
  <2> SUFFICES ASSUME BInv, [Next]_vars PROVE BInv'
    OBVIOUS
  <2>1. IInv'
    BY TypeStep, ControlStep DEF BInv, IInv
  <2> QED
    BY <2>1, BackingStep DEF BInv
<1> QED
  BY <1>1, <1>2, PTL DEF Spec

\* What an envelope discloses stays reserved for its quote until it settles or its
\* grace is over, also across a restart: with the sweep and the watcher in time.
THEOREM DisclosedIsReserved ==
  ASSUME SweepMeetsTTL, WatcherPrompt
  PROVE  Spec => []EnvelopeBacked
<1>1. BInv => EnvelopeBacked
  <2> SUFFICES ASSUME BInv, NEW q \in Quotes, entry[q] \in Saved, q \notin filled,
                      NEW c \in signed[q].cids
               PROVE  holder[c] = q
    BY DEF EnvelopeBacked, Saved
  <2>1. q \notin seen /\ c \in Cids
    BY DEF BInv, IInv, TypeOK
  <2>2. Owes(q, c)
    BY DEF Owes, Disclosing
  <2> QED
    BY <2>1, <2>2 DEF BInv, Backing, BackedOK
<1> QED
  BY BInvariance, <1>1, PTL

\* Two envelopes the taker may settle never disclose a common holding or ticket: with
\* the sweep and the watcher in time.
THEOREM DisclosedOnce ==
  ASSUME SweepMeetsTTL, WatcherPrompt
  PROVE  Spec => []NoDoubleDisclosure
<1>1. ASSUME BInv, NEW q \in Quotes, Live(q)
      PROVE  /\ entry[q] \in Saved /\ q \notin seen /\ age[q] # "lapsed"
             /\ \A c \in signed[q].cids : c \in Cids /\ Owes(q, c)
             /\ signed[q].ticket # NoTicket =>
                  signed[q].ticket \in Tickets /\ Wants(q, signed[q].ticket)
  <2>1. q \notin seen /\ age[q] = "open" /\ q \in sent
    BY <1>1 DEF Live, BInv, IInv, TypeOK
  <2>2. entry[q] \in Saved
    BY <1>1, <2>1 DEF BInv, Backing, WatchedOK, Out
  <2>3. signed[q].cids \subseteq Cids /\ signed[q].ticket \in Tickets \cup {NoTicket}
    BY <1>1 DEF BInv, IInv, TypeOK
  <2> QED
    BY <2>1, <2>2, <2>3 DEF Owes, Disclosing, Wants
<1>2. BInv => NoDoubleDisclosure
  <2> SUFFICES ASSUME BInv, NEW p \in Quotes, NEW q \in Quotes, Live(p), Live(q), p # q
               PROVE  /\ signed[p].cids \cap signed[q].cids = {}
                      /\ signed[p].ticket = signed[q].ticket => signed[p].ticket = NoTicket
    BY DEF NoDoubleDisclosure
  <2>1. signed[p].cids \cap signed[q].cids = {}
    BY <1>1 DEF BInv, Backing, BackedOK
  <2>2. signed[p].ticket = signed[q].ticket => signed[p].ticket = NoTicket
    BY <1>1 DEF BInv, Backing, TicketsOK
  <2> QED
    BY <2>1, <2>2
<1> QED
  BY BInvariance, <1>2, PTL

\* A settle observed in the session that signed the quote stays in the net position,
\* whichever of the watcher, the sweep and the settle handler comes first.
THEOREM SettledIsCounted ==
  ASSUME SweepMeetsTTL, WatcherPrompt
  PROVE  Spec => []FilledStaysCounted
<1>1. BInv => FilledStaysCounted
  <2> SUFFICES ASSUME BInv, FirstSession, NEW q \in filled
               PROVE  net[q] # "none"
    BY DEF FilledStaysCounted, FirstSession
  <2>1. q \in Quotes /\ q \in sent
    BY DEF BInv, IInv, TypeOK
  <2>2. CASE q \in seen
    BY <2>1, <2>2 DEF BInv, Backing, CountedOK
  <2>3. CASE q \notin seen
    <3>1. age[q] \in {"open", "closed"}
      BY <2>1, <2>3 DEF BInv, IInv, Control, SentOK, Backing, WatchedOK, FirstSession, Counting
    <3>2. entry[q] \in Saved
      BY <2>1, <2>3, <3>1 DEF BInv, Backing, WatchedOK, Out
    <3> QED
      BY <2>1, <3>1, <3>2 DEF BInv, Backing, CountedOK, Saved
  <2> QED
    BY <2>2, <2>3
<1> QED
  BY BInvariance, <1>1, PTL
=============================================================================
