---------------------------- MODULE WorkersProofs ----------------------------
(***************************************************************************)
(* Proofs about the background workers and the cache they share, for any   *)
(* payments, holdings, jobs and amounts: the payment queue leaves no       *)
(* reservation behind and gives no holding to two workers; the automatic   *)
(* top-up never overshoots; a complete snapshot never evicts a holding     *)
(* that exists, the rungs of a split stay counted, and, when workers and   *)
(* sweep meet their TTLs, no two jobs hold the same input.                 *)
(***************************************************************************)
EXTENDS PaymentQueue, TopUp, HoldingsCache, TLAPS

-----------------------------------------------------------------------------
(* The payment queue                                                       *)

PaymentTypes ==
  /\ caller \in [Payments -> {"idle", "waiting", "left", "answered"}]
  /\ worker \in [Payments -> {"none", "running", "done"}]
  /\ held \in [Payments -> SUBSET Amulets]
  /\ reservedBy \in [Amulets -> Payments \cup {NoOne, Other}]
  /\ cached \subseteq Amulets

\* A payment is in one place of the queue at most, and has no worker yet.
QueueOK ==
  /\ inbox \cup heap \cup deferred \subseteq Payments
  /\ inbox \cap heap = {} /\ inbox \cap deferred = {} /\ heap \cap deferred = {}
  /\ item \notin inbox \cup heap \cup deferred
  /\ \A p \in inbox \cup heap \cup deferred \cup {item} :
       p \in Payments => worker[p] = "none" /\ caller[p] # "idle"
  /\ \A p \in Payments : caller[p] = "idle" => worker[p] = "none"

\* Holdings are picked for the payment that is being dispatched only.
DispatchOK ==
  /\ IF sched \in {"reserve", "permit"} THEN item \in Payments
     ELSE item = NoOne /\ picked = {}
  /\ item \in Payments /\ ~ Allocation(item) => picked = {}
  /\ sched = "permit" => picked \subseteq Amulets

\* What is picked or held is reserved for that payment, and an allocation it is.
HoldingsOK ==
  /\ sched = "permit" => \A a \in picked : reservedBy[a] = item
  /\ \A p \in Payments, a \in Amulets : a \in held[p] => reservedBy[a] = p /\ Running(p)
  /\ \A a \in Amulets : reservedBy[a] \in Payments => Allocation(reservedBy[a])

PaymentInv == PaymentTypes /\ QueueOK /\ DispatchOK /\ HoldingsOK /\ ReservationsOwned

\* No two workers spend one holding.
NoSharedHolding ==
  \A p, q \in Payments : p # q => held[p] \cap held[q] = {}

USE DEF Allocation, Waiting, Running, queueVars, cacheVars, channelVars

\* At its start the queue is empty and nothing is reserved.
LEMMA PaymentInitInv == PaymentInit => PaymentInv
<1> USE PaymentsAssumption DEF PaymentInit
<1>1. PaymentInit => PaymentTypes BY DEF PaymentTypes
<1>2. PaymentInit => QueueOK BY DEF QueueOK
<1>3. PaymentInit => DispatchOK BY DEF DispatchOK
<1>4. PaymentInit => HoldingsOK BY DEF HoldingsOK
<1>5. PaymentInit => ReservationsOwned BY DEF ReservationsOwned
<1> QED BY <1>1, <1>2, <1>3, <1>4, <1>5 DEF PaymentInv

\* Every step keeps the invariant.
LEMMA PaymentStep == PaymentInv /\ [PaymentNext]_payVars => PaymentInv'
<1> SUFFICES ASSUME PaymentInv, [PaymentNext]_payVars PROVE PaymentInv'
  OBVIOUS
<1>t. PaymentTypes BY DEF PaymentInv
<1>q. QueueOK BY DEF PaymentInv
<1>d. DispatchOK BY DEF PaymentInv
<1>h. HoldingsOK BY DEF PaymentInv
<1>r. ReservationsOwned BY DEF PaymentInv
<1>1. ASSUME NEW p \in Payments, Submit(p) PROVE PaymentInv'
  <2>1. PaymentTypes'
    BY <1>t, <1>1 DEF PaymentTypes, Submit
  <2>2. QueueOK'
    BY <1>q, <1>t, <1>1 DEF QueueOK, PaymentTypes, Submit
  <2>3. DispatchOK'
    BY <1>d, <1>1 DEF DispatchOK, Submit
  <2>4. HoldingsOK'
    BY <1>h, <1>1 DEF HoldingsOK, Submit
  <2>5. ReservationsOwned'
    BY <1>r, <1>1 DEF ReservationsOwned, Submit
  <2> QED BY <2>1, <2>2, <2>3, <2>4, <2>5 DEF PaymentInv
<1>2. ASSUME NEW p \in Payments, GivesUp(p) PROVE PaymentInv'
  <2>1. PaymentTypes'
    BY <1>t, <1>2 DEF PaymentTypes, GivesUp
  <2>2. QueueOK'
    BY <1>q, <1>2 DEF QueueOK, GivesUp
  <2>3. DispatchOK'
    BY <1>d, <1>2 DEF DispatchOK, GivesUp
  <2>4. HoldingsOK'
    BY <1>h, <1>2 DEF HoldingsOK, GivesUp
  <2>5. ReservationsOwned'
    BY <1>r, <1>2 DEF ReservationsOwned, GivesUp
  <2> QED BY <2>1, <2>2, <2>3, <2>4, <2>5 DEF PaymentInv
<1>3. ASSUME NEW p \in Payments, FeeEnds(p) PROVE PaymentInv'
  <2>1. PaymentTypes'
    BY <1>t, <1>3 DEF PaymentTypes, FeeEnds, Ends
  <2>2. QueueOK'
    BY <1>q, <1>3 DEF QueueOK, FeeEnds, Ends
  <2>3. DispatchOK'
    BY <1>d, <1>3 DEF DispatchOK, FeeEnds, Ends
  <2>4. HoldingsOK'
    BY <1>h, <1>3 DEF HoldingsOK, FeeEnds, Ends
  <2>5. ReservationsOwned'
    BY <1>r, <1>t, <1>h, <1>3 DEF ReservationsOwned, PaymentTypes, HoldingsOK, FeeEnds, Ends
  <2> QED BY <2>1, <2>2, <2>3, <2>4, <2>5 DEF PaymentInv
<1>4. ASSUME NEW p \in Payments, AllocateSucceeds(p) PROVE PaymentInv'
  <2>1. PaymentTypes'
    BY <1>t, <1>4 DEF PaymentTypes, AllocateSucceeds, Ends, GiveBack
  <2>2. QueueOK'
    BY <1>q, <1>4 DEF QueueOK, AllocateSucceeds, Ends, GiveBack
  <2>3. DispatchOK'
    BY <1>d, <1>4 DEF DispatchOK, AllocateSucceeds, Ends, GiveBack
  <2>4. HoldingsOK'
    BY PaymentsAssumption, <1>h, <1>t, <1>q, <1>d, <1>r, <1>4 DEF HoldingsOK, PaymentTypes, QueueOK, DispatchOK, ReservationsOwned, AllocateSucceeds, Ends, GiveBack
  <2>5. ReservationsOwned'
    BY PaymentsAssumption, <1>r, <1>t, <1>q, <1>d, <1>h, <1>4 DEF ReservationsOwned, PaymentTypes, QueueOK, DispatchOK, HoldingsOK, AllocateSucceeds, Ends, GiveBack
  <2> QED BY <2>1, <2>2, <2>3, <2>4, <2>5 DEF PaymentInv
<1>5. ASSUME NEW p \in Payments, AllocateInactive(p) PROVE PaymentInv'
  <2>1. PaymentTypes'
    BY <1>t, <1>5 DEF PaymentTypes, AllocateInactive, Ends, GiveBack
  <2>2. QueueOK'
    BY <1>q, <1>5 DEF QueueOK, AllocateInactive, Ends, GiveBack
  <2>3. DispatchOK'
    BY <1>d, <1>5 DEF DispatchOK, AllocateInactive, Ends, GiveBack
  <2>4. HoldingsOK'
    BY PaymentsAssumption, <1>h, <1>t, <1>q, <1>d, <1>r, <1>5 DEF HoldingsOK, PaymentTypes, QueueOK, DispatchOK, ReservationsOwned, AllocateInactive, Ends, GiveBack
  <2>5. ReservationsOwned'
    BY PaymentsAssumption, <1>r, <1>t, <1>q, <1>d, <1>h, <1>5 DEF ReservationsOwned, PaymentTypes, QueueOK, DispatchOK, HoldingsOK, AllocateInactive, Ends, GiveBack
  <2> QED BY <2>1, <2>2, <2>3, <2>4, <2>5 DEF PaymentInv
<1>6. ASSUME NEW p \in Payments, AllocateFails(p) PROVE PaymentInv'
  <2>1. PaymentTypes'
    BY <1>t, <1>6 DEF PaymentTypes, AllocateFails, Ends, GiveBack
  <2>2. QueueOK'
    BY <1>q, <1>6 DEF QueueOK, AllocateFails, Ends, GiveBack
  <2>3. DispatchOK'
    BY <1>d, <1>6 DEF DispatchOK, AllocateFails, Ends, GiveBack
  <2>4. HoldingsOK'
    BY PaymentsAssumption, <1>h, <1>t, <1>q, <1>d, <1>r, <1>6 DEF HoldingsOK, PaymentTypes, QueueOK, DispatchOK, ReservationsOwned, AllocateFails, Ends, GiveBack
  <2>5. ReservationsOwned'
    BY PaymentsAssumption, <1>r, <1>t, <1>q, <1>d, <1>h, <1>6 DEF ReservationsOwned, PaymentTypes, QueueOK, DispatchOK, HoldingsOK, AllocateFails, Ends, GiveBack
  <2> QED BY <2>1, <2>2, <2>3, <2>4, <2>5 DEF PaymentInv
<1>7. ASSUME NEW p \in Payments, WorkerPanics(p) PROVE PaymentInv'
  <2>1. PaymentTypes'
    BY <1>t, <1>7 DEF PaymentTypes, WorkerPanics, Ends, GiveBack
  <2>2. QueueOK'
    BY <1>q, <1>7 DEF QueueOK, WorkerPanics, Ends, GiveBack
  <2>3. DispatchOK'
    BY <1>d, <1>7 DEF DispatchOK, WorkerPanics, Ends, GiveBack
  <2>4. HoldingsOK'
    BY PaymentsAssumption, <1>h, <1>t, <1>q, <1>d, <1>r, <1>7 DEF HoldingsOK, PaymentTypes, QueueOK, DispatchOK, ReservationsOwned, WorkerPanics, Ends, GiveBack
  <2>5. ReservationsOwned'
    BY PaymentsAssumption, <1>r, <1>t, <1>q, <1>d, <1>h, <1>7 DEF ReservationsOwned, PaymentTypes, QueueOK, DispatchOK, HoldingsOK, WorkerPanics, Ends, GiveBack
  <2> QED BY <2>1, <2>2, <2>3, <2>4, <2>5 DEF PaymentInv
<1>8. CASE Collect
  <2>1. PaymentTypes'
    BY <1>t, <1>8 DEF PaymentTypes, Collect, StopScheduler
  <2>2. QueueOK'
    BY <1>q, <1>t, <1>d, <1>8 DEF QueueOK, PaymentTypes, DispatchOK, Collect, StopScheduler
  <2>3. DispatchOK'
    BY <1>d, <1>8 DEF DispatchOK, Collect, StopScheduler
  <2>4. HoldingsOK'
    BY <1>h, <1>8 DEF HoldingsOK, Collect, StopScheduler
  <2>5. ReservationsOwned'
    BY <1>r, <1>8 DEF ReservationsOwned, Collect, StopScheduler
  <2> QED BY <2>1, <2>2, <2>3, <2>4, <2>5 DEF PaymentInv
<1>9. CASE GetChannel
  <2>1. PaymentTypes'
    BY <1>t, <1>9 DEF PaymentTypes, GetChannel
  <2>2. QueueOK'
    BY <1>q, <1>9 DEF QueueOK, GetChannel
  <2>3. DispatchOK'
    BY <1>d, <1>9 DEF DispatchOK, GetChannel
  <2>4. HoldingsOK'
    BY <1>h, <1>9 DEF HoldingsOK, GetChannel
  <2>5. ReservationsOwned'
    BY <1>r, <1>9 DEF ReservationsOwned, GetChannel
  <2> QED BY <2>1, <2>2, <2>3, <2>4, <2>5 DEF PaymentInv
<1>10. CASE Pop
  <2>1. PaymentTypes'
    BY <1>t, <1>10 DEF PaymentTypes, Pop
  <2>2. QueueOK'
    BY <1>q, <1>t, <1>10 DEF QueueOK, PaymentTypes, Pop, Leaves, PickFor
  <2>3. DispatchOK'
    BY <1>d, <1>t, <1>q, <1>10 DEF DispatchOK, PaymentTypes, QueueOK, Pop, Leaves, PickFor
  <2>4. HoldingsOK'
    BY <1>h, <1>10 DEF HoldingsOK, Pop
  <2>5. ReservationsOwned'
    BY <1>r, <1>10 DEF ReservationsOwned, Pop
  <2> QED BY <2>1, <2>2, <2>3, <2>4, <2>5 DEF PaymentInv
<1>11. CASE ReservePicked
  <2>1. PaymentTypes'
    BY <1>t, <1>q, <1>d, <1>11 DEF PaymentTypes, QueueOK, DispatchOK, ReservePicked, FreeAmulets
  <2>2. QueueOK'
    BY PaymentsAssumption, <1>q, <1>t, <1>d, <1>h, <1>r, <1>11 DEF QueueOK, PaymentTypes, DispatchOK, HoldingsOK, ReservationsOwned, ReservePicked, FreeAmulets
  <2>3. DispatchOK'
    BY <1>d, <1>t, <1>11 DEF DispatchOK, PaymentTypes, ReservePicked, FreeAmulets
  <2>4. HoldingsOK'
    BY PaymentsAssumption, <1>h, <1>t, <1>q, <1>d, <1>r, <1>11 DEF HoldingsOK, PaymentTypes, QueueOK, DispatchOK, ReservationsOwned, ReservePicked, FreeAmulets
  <2>5. ReservationsOwned'
    BY <1>r, <1>11 DEF ReservationsOwned, ReservePicked
  <2> QED BY <2>1, <2>2, <2>3, <2>4, <2>5 DEF PaymentInv
<1>12. CASE Permit
  <2>1. PaymentTypes'
    BY <1>t, <1>q, <1>d, <1>12 DEF PaymentTypes, QueueOK, DispatchOK, Permit, Leaves, GiveBack
  <2>2. QueueOK'
    BY PaymentsAssumption, <1>q, <1>t, <1>d, <1>h, <1>r, <1>12 DEF QueueOK, PaymentTypes, DispatchOK, HoldingsOK, ReservationsOwned, Permit, Leaves, GiveBack
  <2>3. DispatchOK'
    BY <1>d, <1>12 DEF DispatchOK, Permit
  <2>4. HoldingsOK'
    BY PaymentsAssumption, <1>h, <1>t, <1>q, <1>d, <1>r, <1>12 DEF HoldingsOK, PaymentTypes, QueueOK, DispatchOK, ReservationsOwned, Permit, Leaves, GiveBack
  <2>5. ReservationsOwned'
    BY PaymentsAssumption, <1>r, <1>t, <1>q, <1>d, <1>h, <1>12 DEF ReservationsOwned, PaymentTypes, QueueOK, DispatchOK, HoldingsOK, Permit, Leaves, GiveBack
  <2> QED BY <2>1, <2>2, <2>3, <2>4, <2>5 DEF PaymentInv
<1>13. CASE EndPass
  <2>1. PaymentTypes'
    BY <1>t, <1>13 DEF PaymentTypes, EndPass
  <2>2. QueueOK'
    BY <1>q, <1>13 DEF QueueOK, EndPass
  <2>3. DispatchOK'
    BY <1>d, <1>13 DEF DispatchOK, EndPass
  <2>4. HoldingsOK'
    BY <1>h, <1>13 DEF HoldingsOK, EndPass
  <2>5. ReservationsOwned'
    BY <1>r, <1>13 DEF ReservationsOwned, EndPass
  <2> QED BY <2>1, <2>2, <2>3, <2>4, <2>5 DEF PaymentInv
<1>14. CASE Backoff
  <2>1. PaymentTypes'
    BY <1>t, <1>14 DEF PaymentTypes, Backoff, StopScheduler
  <2>2. QueueOK'
    BY <1>q, <1>t, <1>d, <1>14 DEF QueueOK, PaymentTypes, DispatchOK, Backoff, StopScheduler
  <2>3. DispatchOK'
    BY <1>d, <1>14 DEF DispatchOK, Backoff, StopScheduler
  <2>4. HoldingsOK'
    BY <1>h, <1>14 DEF HoldingsOK, Backoff, StopScheduler
  <2>5. ReservationsOwned'
    BY <1>r, <1>14 DEF ReservationsOwned, Backoff, StopScheduler
  <2> QED BY <2>1, <2>2, <2>3, <2>4, <2>5 DEF PaymentInv
<1>15. CASE GetChannelFails
  <2>1. PaymentTypes'
    BY <1>t, <1>15 DEF PaymentTypes, GetChannelFails, StopScheduler
  <2>2. QueueOK'
    BY <1>q, <1>t, <1>d, <1>15 DEF QueueOK, PaymentTypes, DispatchOK, GetChannelFails, StopScheduler
  <2>3. DispatchOK'
    BY <1>d, <1>15 DEF DispatchOK, GetChannelFails, StopScheduler
  <2>4. HoldingsOK'
    BY <1>h, <1>15 DEF HoldingsOK, GetChannelFails, StopScheduler
  <2>5. ReservationsOwned'
    BY <1>r, <1>15 DEF ReservationsOwned, GetChannelFails, StopScheduler
  <2> QED BY <2>1, <2>2, <2>3, <2>4, <2>5 DEF PaymentInv
<1>16. ASSUME NEW a \in Amulets, OtherReserves(a) PROVE PaymentInv'
  <2>1. PaymentTypes'
    BY <1>t, <1>16 DEF PaymentTypes, OtherReserves
  <2>2. QueueOK'
    BY <1>q, <1>16 DEF QueueOK, OtherReserves
  <2>3. DispatchOK'
    BY <1>d, <1>16 DEF DispatchOK, OtherReserves
  <2>4. HoldingsOK'
    BY PaymentsAssumption, <1>h, <1>t, <1>q, <1>d, <1>r, <1>16 DEF HoldingsOK, PaymentTypes, QueueOK, DispatchOK, ReservationsOwned, OtherReserves, FreeAmulets
  <2>5. ReservationsOwned'
    BY PaymentsAssumption, <1>r, <1>t, <1>q, <1>d, <1>h, <1>16 DEF ReservationsOwned, PaymentTypes, QueueOK, DispatchOK, HoldingsOK, OtherReserves, FreeAmulets
  <2> QED BY <2>1, <2>2, <2>3, <2>4, <2>5 DEF PaymentInv
<1>17. ASSUME NEW a \in Amulets, OtherEnds(a) PROVE PaymentInv'
  <2>1. PaymentTypes'
    BY <1>t, <1>17 DEF PaymentTypes, OtherEnds
  <2>2. QueueOK'
    BY <1>q, <1>17 DEF QueueOK, OtherEnds
  <2>3. DispatchOK'
    BY <1>d, <1>17 DEF DispatchOK, OtherEnds
  <2>4. HoldingsOK'
    BY PaymentsAssumption, <1>h, <1>t, <1>q, <1>d, <1>r, <1>17 DEF HoldingsOK, PaymentTypes, QueueOK, DispatchOK, ReservationsOwned, OtherEnds
  <2>5. ReservationsOwned'
    BY PaymentsAssumption, <1>r, <1>t, <1>q, <1>d, <1>h, <1>17 DEF ReservationsOwned, PaymentTypes, QueueOK, DispatchOK, HoldingsOK, OtherEnds
  <2> QED BY <2>1, <2>2, <2>3, <2>4, <2>5 DEF PaymentInv
<1>18. ASSUME NEW a \in Amulets, Appears(a) PROVE PaymentInv'
  <2>1. PaymentTypes'
    BY <1>t, <1>18 DEF PaymentTypes, Appears
  <2>2. QueueOK'
    BY <1>q, <1>18 DEF QueueOK, Appears
  <2>3. DispatchOK'
    BY <1>d, <1>18 DEF DispatchOK, Appears
  <2>4. HoldingsOK'
    BY <1>h, <1>18 DEF HoldingsOK, Appears
  <2>5. ReservationsOwned'
    BY <1>r, <1>18 DEF ReservationsOwned, Appears
  <2> QED BY <2>1, <2>2, <2>3, <2>4, <2>5 DEF PaymentInv
<1>19. CASE SignalStop
  <2>1. PaymentTypes'
    BY <1>t, <1>19 DEF PaymentTypes, SignalStop
  <2>2. QueueOK'
    BY <1>q, <1>19 DEF QueueOK, SignalStop
  <2>3. DispatchOK'
    BY <1>d, <1>19 DEF DispatchOK, SignalStop
  <2>4. HoldingsOK'
    BY <1>h, <1>19 DEF HoldingsOK, SignalStop
  <2>5. ReservationsOwned'
    BY <1>r, <1>19 DEF ReservationsOwned, SignalStop
  <2> QED BY <2>1, <2>2, <2>3, <2>4, <2>5 DEF PaymentInv
<1>20. CASE UNCHANGED payVars
  BY <1>t, <1>q, <1>d, <1>h, <1>r, <1>20
  DEF payVars, PaymentInv, PaymentTypes, QueueOK, DispatchOK, HoldingsOK, ReservationsOwned
<1> QED
  BY <1>1, <1>2, <1>3, <1>4, <1>5, <1>6, <1>7, <1>8, <1>9, <1>10, <1>11, <1>12, <1>13, <1>14, <1>15, <1>16, <1>17, <1>18, <1>19, <1>20
  DEF PaymentNext, WorkerEnds, Schedule

\* The types, the queue and the reservations hold in every reachable state.
THEOREM PaymentInvariance == PaymentSpec => []PaymentInv
<1>1. PaymentInit => PaymentInv BY PaymentInitInv
<1>2. PaymentInv /\ [PaymentNext]_payVars => PaymentInv' BY PaymentStep
<1> QED BY <1>1, <1>2, PTL DEF PaymentSpec

\* A holding reserved for a payment belongs to its running worker, or to the
\* scheduler between the reservation and the permit, however many payments,
\* holdings and permits there are (payment_queue.rs:491-540).
THEOREM ReservationsHaveOwners == PaymentSpec => []ReservationsOwned
<1>1. PaymentInv => ReservationsOwned BY DEF PaymentInv
<1> QED BY <1>1, PaymentInvariance, PTL

\* Two workers never spend one holding, and what a worker spends stays reserved
\* for its payment while it runs: nobody else can take it meanwhile.
THEOREM WorkersShareNothing == PaymentSpec => []NoSharedHolding
<1>1. PaymentInv => NoSharedHolding
  BY DEF PaymentInv, PaymentTypes, HoldingsOK, NoSharedHolding
<1> QED BY <1>1, PaymentInvariance, PTL

-----------------------------------------------------------------------------
(* The traffic top-up                                                      *)

Spots == {"idle", "balance", "cc", "wait"}
TopupTypes ==
  /\ attempt \in [Attempts -> Spots] /\ locked \in BOOLEAN
  /\ flying \in Nat /\ landed \in Nat /\ lost \in Nat /\ excess \in Nat
  /\ prepaid \in Nat

\* The lock is held by one attempt on its way to a submit, or by one submit.
Deciding(w) == attempt[w] \in {"balance", "cc"}
OneHolder ==
  /\ flying + landed <= 1
  /\ flying + landed = 1 => locked /\ \A w \in Attempts : ~ Deciding(w)
  /\ \A w \in Attempts : Deciding(w) => locked
  /\ \A v, w \in Attempts : Deciding(v) /\ Deciding(w) => v = w

\* Until a top-up in excess is known of, only a low balance leads to a submit.
LowBefore ==
  excess = 0 =>
    /\ attempt["onboarding"] = "idle"
    /\ attempt["runner"] = "cc" \/ flying > 0 => prepaid < MinCc
    /\ prepaid < MinCc + TopupCc

TopupInv == TopupTypes /\ OneHolder /\ LowBefore

USE DEF Deciding, Spots, Attempts, purseVars

LEMMA TopupInitInv == TopupInit => TopupInv
<1> SUFFICES ASSUME TopupInit PROVE TopupInv
  OBVIOUS
<1> USE DEF TopupInit
<1>m. MinCc \in Nat \ {0} /\ TopupCc \in Nat \ {0} BY TopupAssumption
<1>1. TopupTypes BY <1>m DEF TopupTypes
<1>2. OneHolder BY DEF OneHolder
<1>3. LowBefore BY <1>m DEF LowBefore
<1> QED BY <1>1, <1>2, <1>3 DEF TopupInv

\* Every step keeps the lock's discipline.
LEMMA TopupStep == TopupInv /\ [TopupNext]_topVars => TopupInv'
<1> SUFFICES ASSUME TopupInv, [TopupNext]_topVars PROVE TopupInv'
  OBVIOUS
<1>t. TopupTypes BY DEF TopupInv
<1>o. OneHolder BY DEF TopupInv
<1>l. LowBefore BY DEF TopupInv
<1>m. MinCc \in Nat \ {0} /\ TopupCc \in Nat \ {0} BY TopupAssumption
<1>1. CASE Spend
  <2>1. TopupTypes'
    BY <1>t, <1>1 DEF TopupTypes, Spend
  <2>2. OneHolder'
    BY <1>o, <1>t, <1>1 DEF OneHolder, TopupTypes, Spend
  <2>3. LowBefore'
    BY <1>m, <1>l, <1>t, <1>1 DEF LowBefore, TopupTypes, Spend
  <2> QED BY <2>1, <2>2, <2>3 DEF TopupInv
<1>2. CASE TimerFires
  <2>1. TopupTypes'
    BY <1>t, <1>2 DEF TopupTypes, TimerFires, RunnerIdle, MaybeTopup
  <2>2. OneHolder'
    BY <1>o, <1>t, <1>2 DEF OneHolder, TopupTypes, TimerFires, RunnerIdle, MaybeTopup
  <2>3. LowBefore'
    BY <1>m, <1>l, <1>t, <1>2 DEF LowBefore, TopupTypes, TimerFires, RunnerIdle, MaybeTopup
  <2> QED BY <2>1, <2>2, <2>3 DEF TopupInv
<1>3. CASE NudgeArrives
  <2>1. TopupTypes'
    BY <1>t, <1>3 DEF TopupTypes, NudgeArrives, RunnerIdle, MaybeTopup
  <2>2. OneHolder'
    BY <1>o, <1>t, <1>3 DEF OneHolder, TopupTypes, NudgeArrives, RunnerIdle, MaybeTopup
  <2>3. LowBefore'
    BY <1>m, <1>l, <1>t, <1>3 DEF LowBefore, TopupTypes, NudgeArrives, RunnerIdle, MaybeTopup
  <2> QED BY <2>1, <2>2, <2>3 DEF TopupInv
<1>4. CASE ReadBalance
  <2>1. TopupTypes'
    BY <1>t, <1>4 DEF TopupTypes, ReadBalance, GiveUp, Goes
  <2>2. OneHolder'
    BY <1>o, <1>t, <1>4 DEF OneHolder, TopupTypes, ReadBalance, GiveUp, Goes
  <2>3. LowBefore'
    BY <1>m, <1>l, <1>t, <1>4 DEF LowBefore, TopupTypes, ReadBalance, GiveUp, Goes
  <2> QED BY <2>1, <2>2, <2>3 DEF TopupInv
<1>5. CASE ForceTopup
  <2>1. TopupTypes'
    BY <1>t, <1>5 DEF TopupTypes, ForceTopup
  <2>2. OneHolder'
    BY <1>o, <1>t, <1>5 DEF OneHolder, TopupTypes, ForceTopup
  <2>3. LowBefore'
    BY <1>m, <1>l, <1>t, <1>5 DEF LowBefore, TopupTypes, ForceTopup
  <2> QED BY <2>1, <2>2, <2>3 DEF TopupInv
<1>6. ASSUME NEW w \in Attempts, ReadCc(w) PROVE TopupInv'
  <2>1. TopupTypes'
    <3>1. CASE GiveUp(w) /\ UNCHANGED flying
      BY <1>t, <1>6, <3>1 DEF TopupTypes, ReadCc, GiveUp
    <3>2. CASE flying' = flying + 1 /\ Goes(w, "wait") /\ UNCHANGED locked
      BY <1>t, <1>6, <3>2 DEF TopupTypes, ReadCc, Goes
    <3> QED BY <1>6, <3>1, <3>2 DEF ReadCc
  <2>2. OneHolder'
    <3>1. locked /\ flying + landed = 0
      BY <1>o, <1>t, <1>6 DEF OneHolder, TopupTypes, ReadCc
    <3>2. \A v \in Attempts : ~ Deciding(v)'
      BY <1>o, <1>t, <1>6 DEF OneHolder, TopupTypes, ReadCc, GiveUp, Goes
    <3>3. CASE GiveUp(w) /\ UNCHANGED flying
      BY <1>t, <1>6, <3>1, <3>2, <3>3 DEF OneHolder, TopupTypes, ReadCc
    <3>4. CASE flying' = flying + 1 /\ Goes(w, "wait") /\ UNCHANGED locked
      BY <1>t, <1>6, <3>1, <3>2, <3>4 DEF OneHolder, TopupTypes, ReadCc
    <3> QED BY <1>6, <3>3, <3>4 DEF ReadCc
  <2>3. LowBefore'
    BY <1>m, <1>l, <1>t, <1>6 DEF LowBefore, TopupTypes, ReadCc, GiveUp, Goes
  <2> QED BY <2>1, <2>2, <2>3 DEF TopupInv
<1>7. ASSUME NEW w \in Attempts, WaitSubmit(w) PROVE TopupInv'
  <2>1. TopupTypes'
    BY <1>t, <1>7 DEF TopupTypes, WaitSubmit, Goes
  <2>2. OneHolder'
    BY <1>o, <1>t, <1>7 DEF OneHolder, TopupTypes, WaitSubmit, Goes
  <2>3. LowBefore'
    BY <1>m, <1>l, <1>t, <1>7 DEF LowBefore, TopupTypes, WaitSubmit, Goes
  <2> QED BY <2>1, <2>2, <2>3 DEF TopupInv
<1>8. CASE Executes
  <2>1. TopupTypes'
    BY <1>m, <1>t, <1>8 DEF TopupTypes, Executes
  <2>2. OneHolder'
    BY <1>o, <1>t, <1>8 DEF OneHolder, TopupTypes, Executes
  <2>3. LowBefore'
    BY <1>m, <1>l, <1>t, <1>o, <1>8 DEF LowBefore, TopupTypes, OneHolder, Executes
  <2> QED BY <2>1, <2>2, <2>3 DEF TopupInv
<1>9. CASE SubmitEnds
  <2>1. TopupTypes'
    <3>1. flying' \in Nat /\ landed' \in Nat /\ lost' \in Nat
      BY <1>t, <1>9 DEF TopupTypes, SubmitEnds
    <3> QED BY <1>t, <1>9, <3>1 DEF TopupTypes, SubmitEnds
  <2>2. OneHolder'
    <3>1. flying + landed = 1 BY <1>o, <1>t, <1>9 DEF OneHolder, TopupTypes, SubmitEnds
    <3>2. \A v \in Attempts : ~ Deciding(v)'
      BY <1>o, <1>9, <3>1 DEF OneHolder, SubmitEnds
    <3>3. flying' + landed' = 0
      BY <1>t, <1>9, <3>1 DEF TopupTypes, SubmitEnds
    <3> QED BY <3>2, <3>3 DEF OneHolder
  <2>3. LowBefore'
    BY <1>m, <1>l, <1>t, <1>9 DEF LowBefore, TopupTypes, SubmitEnds
  <2> QED BY <2>1, <2>2, <2>3 DEF TopupInv
<1>10. CASE LandsLate
  <2>1. TopupTypes'
    BY <1>m, <1>t, <1>10 DEF TopupTypes, LandsLate
  <2>2. OneHolder'
    BY <1>o, <1>t, <1>10 DEF OneHolder, TopupTypes, LandsLate
  <2>3. LowBefore'
    BY <1>m, <1>l, <1>t, <1>10 DEF LowBefore, TopupTypes, LandsLate
  <2> QED BY <2>1, <2>2, <2>3 DEF TopupInv
<1>11. CASE RunnerFails
  <2>1. TopupTypes'
    BY <1>t, <1>11 DEF TopupTypes, RunnerFails
  <2>2. OneHolder'
    BY <1>o, <1>t, <1>11 DEF OneHolder, TopupTypes, RunnerFails
  <2>3. LowBefore'
    BY <1>m, <1>l, <1>t, <1>11 DEF LowBefore, TopupTypes, RunnerFails
  <2> QED BY <2>1, <2>2, <2>3 DEF TopupInv
<1>12. CASE RunnerRestarts
  <2>1. TopupTypes'
    BY <1>t, <1>12 DEF TopupTypes, RunnerRestarts
  <2>2. OneHolder'
    BY <1>o, <1>t, <1>12 DEF OneHolder, TopupTypes, RunnerRestarts
  <2>3. LowBefore'
    BY <1>m, <1>l, <1>t, <1>12 DEF LowBefore, TopupTypes, RunnerRestarts
  <2> QED BY <2>1, <2>2, <2>3 DEF TopupInv
<1>13. CASE RunnerStops
  <2>1. TopupTypes'
    BY <1>t, <1>13 DEF TopupTypes, RunnerStops
  <2>2. OneHolder'
    BY <1>o, <1>t, <1>13 DEF OneHolder, TopupTypes, RunnerStops
  <2>3. LowBefore'
    BY <1>m, <1>l, <1>t, <1>13 DEF LowBefore, TopupTypes, RunnerStops
  <2> QED BY <2>1, <2>2, <2>3 DEF TopupInv
<1>14. CASE UNCHANGED topVars
  BY <1>t, <1>o, <1>l, <1>14 DEF topVars, TopupInv, TopupTypes, OneHolder, LowBefore
<1> QED
  BY <1>1, <1>2, <1>3, <1>4, <1>5, <1>6, <1>7, <1>8, <1>9, <1>10, <1>11, <1>12, <1>13, <1>14
  DEF TopupNext

\* At most one attempt or submit holds the lock, in every reachable state.
THEOREM TopupInvariance == TopupSpec => []TopupInv
<1>1. TopupInit => TopupInv BY TopupInitInv
<1>2. TopupInv /\ [TopupNext]_topVars => TopupInv' BY TopupStep
<1> QED BY <1>1, <1>2, PTL DEF TopupSpec

\* A low balance is topped up once: the balance passes MinCc + TopupCc only after
\* a top-up that no low balance called for, whatever timers, nudges, restarts and
\* late submits come together (topup.rs:12-13, 44-45).
THEOREM NeverOvershoots == TopupSpec => []NoOvershoot
<1>1. TopupInv => NoOvershoot
  BY TopupAssumption DEF TopupInv, TopupTypes, LowBefore, NoOvershoot
<1> QED BY <1>1, TopupInvariance, PTL

-----------------------------------------------------------------------------
(* The holdings cache: its inductive invariant                              *)

\* Everything the agent knows of has been created: contract ids are never
\* guessed, and never used for a second contract.
OnlyBornIsKnown ==
    /\ active \subseteq born
    /\ available \subseteq born
    /\ snap \subseteq born
    /\ \A j \in Jobs : inputs[j] \subseteq born /\ outputs[j] \subseteq born

\* An entry that exists and is missing from the snapshot in hand was discovered
\* after the fetch began, so the merge boundary protects it.
SnapshotCovers ==
    acs = "fetched" => (available \cap active) \ recent \subseteq snap

\* The snapshot in hand shows the outputs of every split that it supersedes,
\* and of every split that an earlier snapshot superseded.
SnapshotCoversSplits ==
    acs = "fetched" =>
        \A j \in Jobs : Kind[j] \in {"split", "merge"} /\ phase[j] = "done"
                        /\ (j \in oldPending \/ j \notin pending)
            => outputs[j] \cap active \subseteq snap

\* Only finished splits and merges are pending.
PendingIsDone ==
    /\ oldPending \subseteq pending
    /\ \A j \in pending : phase[j] = "done"

\* Only a quote is sent out and swept.
OnlyQuotesAreSent ==
    \A j \in Jobs : phase[j] \in {"sent", "over"} => Kind[j] = "quote"

IInv ==
    /\ TypeOK
    /\ OnlyQuotesAreSent
    /\ OnlyBornIsKnown
    /\ SnapshotCovers
    /\ SnapshotCoversSplits
    /\ PendingIsDone
    /\ RungsStayCounted

\* With the TTLs met, whoever has selected an existing holding is the one the
\* reserved pool names, its reservation has not expired, and no closed quote
\* that the sweep has yet to see had the same holding.
OwnersHold ==
    /\ \A j \in Jobs : InFlight(j) =>
          \A c \in inputs[j] \cap active : holder[c] = j /\ c \notin expired
    /\ \A j, q \in Jobs : InFlight(j) /\ phase[q] = "over" =>
          inputs[j] \cap inputs[q] \cap active = {}

-----------------------------------------------------------------------------
(* Types.                                                                  *)

LEMMA InitType == Init => TypeOK
  BY CacheAssumption DEF CacheAssumption, Init, TypeOK, Phases, Answers, Progress

LEMMA StepType == TypeOK /\ [Next]_vars => TypeOK'
<1> SUFFICES ASSUME TypeOK, [Next]_vars PROVE TypeOK'
  OBVIOUS
<1> USE DEF TypeOK, ledgerVars, poolVars, resVars, splitVars, acsVars, jobVars
<1>1. CASE StartFetch
  BY <1>1 DEF StartFetch
<1>2. CASE ReadSnapshot
  BY <1>2 DEF ReadSnapshot
<1>3. CASE FetchFails
  BY <1>3 DEF FetchFails, EndCycle, CleanupExpired
<1>4. CASE ApplyComplete
  BY <1>4 DEF ApplyComplete, RefreshFrom, EndCycle, CleanupExpired
<1>5. CASE ApplyPartial
  BY <1>5 DEF ApplyPartial, EndCycle, CleanupExpired
<1>6. CASE ApplyAmulets
  BY <1>6 DEF ApplyAmulets, RefreshFrom, EndCycle, CleanupExpired
<1>7. CASE WatcherSkips
  BY <1>7 DEF WatcherSkips, Progress
<1>8. ASSUME NEW c \in Cids, Deposit(c) PROVE TypeOK'
  BY <1>8 DEF Deposit
<1>9. ASSUME NEW c \in Cids, Expire(c) PROVE TypeOK'
  BY <1>9 DEF Expire
<1>10. ASSUME NEW c \in Cids, WatchCreated(c) PROVE TypeOK'
  BY <1>10 DEF WatchCreated, AddCreated, Progress
<1>11. ASSUME NEW c \in Cids, WatchArchived(c) PROVE TypeOK'
  BY <1>11 DEF WatchArchived, MarkConsumed, Progress
<1>12. ASSUME NEW c \in Cids, WatcherReplays(c) PROVE TypeOK'
  BY <1>12 DEF WatcherReplays, Progress
<1>13. ASSUME NEW j \in Jobs, Pick(j) PROVE TypeOK'
  BY <1>13 DEF Pick, Phases
<1>14. ASSUME NEW j \in Jobs, Reserve(j) PROVE TypeOK'
  BY <1>14 DEF Reserve, Phases
<1>15. ASSUME NEW j \in Jobs, ReserveFails(j) PROVE TypeOK'
  BY <1>15 DEF ReserveFails, Phases
<1>16. ASSUME NEW j \in Jobs, Release(j) PROVE TypeOK'
  BY <1>16 DEF Release, ReleaseReservations, Phases, Answers
<1>17. ASSUME NEW j \in Jobs, SubmitCommits(j) PROVE TypeOK'
  BY <1>17 DEF SubmitCommits, Transact, NewOutputs, Phases, Answers
<1>18. ASSUME NEW j \in Jobs, SubmitRefused(j) PROVE TypeOK'
  BY <1>18 DEF SubmitRefused, Phases, Answers
<1>19. ASSUME NEW j \in Jobs, MarkInputs(j) PROVE TypeOK'
  BY <1>19 DEF MarkInputs, MarkConsumed, Phases
<1>20. ASSUME NEW j \in Jobs, AddChange(j) PROVE TypeOK'
  BY <1>20 DEF AddChange, AddCreated, Phases
<1>21. ASSUME NEW j \in Jobs, RecordPending(j) PROVE TypeOK'
  BY <1>21 DEF RecordPending, Phases
<1>22. ASSUME NEW j \in Jobs, MarkInactive(j) PROVE TypeOK'
  BY <1>22 DEF MarkInactive, MarkConsumed, Phases, Answers
<1>23. ASSUME NEW j \in Jobs, IssueQuote(j) PROVE TypeOK'
  BY <1>23 DEF IssueQuote, Phases
<1>24. ASSUME NEW j \in Jobs, TakerSettles(j) PROVE TypeOK'
  BY <1>24 DEF TakerSettles, Transact, NewOutputs, Answers
<1>25. ASSUME NEW j \in Jobs, WindowCloses(j) PROVE TypeOK'
  BY <1>25 DEF WindowCloses, Phases
<1>26. ASSUME NEW j \in Jobs, Sweep(j) PROVE TypeOK'
  BY <1>26 DEF Sweep, ReleaseReservations, Phases
<1>27. CASE UNCHANGED vars
  BY <1>27 DEF vars
<1> QED
  BY <1>1, <1>2, <1>3, <1>4, <1>5, <1>6, <1>7, <1>8, <1>9, <1>10, <1>11, <1>12,
     <1>13, <1>14, <1>15, <1>16, <1>17, <1>18, <1>19, <1>20, <1>21, <1>22, <1>23,
     <1>24, <1>25, <1>26, <1>27
  DEF Next, AcsWorker, Watcher, JobStep

-----------------------------------------------------------------------------
(* The inductive invariant is one.                                         *)

LEMMA InitIInv == Init => IInv
<1> SUFFICES ASSUME Init PROVE IInv
  OBVIOUS
<1>1. TypeOK
  BY InitType
<1> QED
  BY <1>1
  DEF IInv, Init, OnlyQuotesAreSent, OnlyBornIsKnown, SnapshotCovers, SnapshotCoversSplits, PendingIsDone,
      RungsStayCounted

\* One case per action of Next.
LEMMA StepIInv == IInv /\ [Next]_vars => IInv'
<1> SUFFICES ASSUME IInv, [Next]_vars PROVE IInv'
  OBVIOUS
<1>t. TypeOK'
  BY StepType DEF IInv
<1> USE DEF IInv, TypeOK, OnlyQuotesAreSent, OnlyBornIsKnown, SnapshotCovers,
        SnapshotCoversSplits, PendingIsDone, RungsStayCounted,
        ledgerVars, poolVars, resVars, splitVars, acsVars, jobVars
<1>1. CASE StartFetch
  BY <1>1, <1>t DEF StartFetch
<1>2. CASE ReadSnapshot
  BY <1>2, <1>t DEF ReadSnapshot
<1>3. CASE FetchFails
  BY <1>3, <1>t DEF FetchFails, EndCycle
<1>4. CASE ApplyComplete
  BY <1>4, <1>t DEF ApplyComplete, RefreshFrom, EndCycle
<1>5. CASE ApplyPartial
  BY <1>5, <1>t DEF ApplyPartial, EndCycle
<1>6. CASE ApplyAmulets
  BY <1>6, <1>t DEF ApplyAmulets, RefreshFrom, EndCycle
<1>7. CASE WatcherSkips
  BY <1>7, <1>t DEF WatcherSkips
<1>8. ASSUME NEW c \in Cids, Deposit(c) PROVE IInv'
  BY <1>8, <1>t DEF Deposit
<1>9. ASSUME NEW c \in Cids, Expire(c) PROVE IInv'
  BY <1>9, <1>t DEF Expire
<1>10. ASSUME NEW c \in Cids, WatchCreated(c) PROVE IInv'
  BY <1>10, <1>t DEF WatchCreated, AddCreated
<1>11. ASSUME NEW c \in Cids, WatchArchived(c) PROVE IInv'
  BY <1>11, <1>t DEF WatchArchived
<1>12. ASSUME NEW c \in Cids, WatcherReplays(c) PROVE IInv'
  BY <1>12, <1>t DEF WatcherReplays
<1>13. ASSUME NEW j \in Jobs, Pick(j) PROVE IInv'
  BY <1>13, <1>t DEF Pick
<1>14. ASSUME NEW j \in Jobs, Reserve(j) PROVE IInv'
  BY <1>14, <1>t DEF Reserve
<1>15. ASSUME NEW j \in Jobs, ReserveFails(j) PROVE IInv'
  BY <1>15, <1>t DEF ReserveFails
<1>16. ASSUME NEW j \in Jobs, Release(j) PROVE IInv'
  BY <1>16, <1>t DEF Release
<1>17. ASSUME NEW j \in Jobs, SubmitCommits(j) PROVE IInv'
  BY <1>17, <1>t DEF SubmitCommits, Transact, NewOutputs
<1>18. ASSUME NEW j \in Jobs, SubmitRefused(j) PROVE IInv'
  BY <1>18, <1>t DEF SubmitRefused
<1>19. ASSUME NEW j \in Jobs, MarkInputs(j) PROVE IInv'
  BY <1>19, <1>t DEF MarkInputs
<1>20. ASSUME NEW j \in Jobs, AddChange(j) PROVE IInv'
  BY <1>20, <1>t DEF AddChange, AddCreated
<1>21. ASSUME NEW j \in Jobs, RecordPending(j) PROVE IInv'
  BY <1>21, <1>t DEF RecordPending
<1>22. ASSUME NEW j \in Jobs, MarkInactive(j) PROVE IInv'
  BY <1>22, <1>t DEF MarkInactive
<1>23. ASSUME NEW j \in Jobs, IssueQuote(j) PROVE IInv'
  BY <1>23, <1>t DEF IssueQuote
<1>24. ASSUME NEW j \in Jobs, TakerSettles(j) PROVE IInv'
  BY <1>24, <1>t DEF TakerSettles, Transact, NewOutputs
<1>25. ASSUME NEW j \in Jobs, WindowCloses(j) PROVE IInv'
  BY <1>25, <1>t DEF WindowCloses
<1>26. ASSUME NEW j \in Jobs, Sweep(j) PROVE IInv'
  BY <1>26, <1>t DEF Sweep
<1>27. CASE UNCHANGED vars
  BY <1>27, <1>t DEF vars
<1> QED
  BY <1>1, <1>2, <1>3, <1>4, <1>5, <1>6, <1>7, <1>8, <1>9, <1>10, <1>11, <1>12,
     <1>13, <1>14, <1>15, <1>16, <1>17, <1>18, <1>19, <1>20, <1>21, <1>22, <1>23,
     <1>24, <1>25, <1>26, <1>27
  DEF Next, AcsWorker, Watcher, JobStep

-----------------------------------------------------------------------------
(* Ownership, when the TTLs are met.                                       *)

\* With both TTLs met only closed quotes lose their reservation.
LEMMA OnlyClosedExpires ==
  ASSUME WorkersMeetTTL, NEW c \in Cids, Expire(c)
  PROVE  phase[holder[c]] \in {"over", "done"}
  BY DEF Expire

\* One case per action of Next.
LEMMA StepOwners ==
  ASSUME WorkersMeetTTL, SweepMeetsTTL
  PROVE  IInv /\ OwnersHold /\ [Next]_vars => OwnersHold'
<1> SUFFICES ASSUME IInv, OwnersHold, [Next]_vars PROVE OwnersHold'
  OBVIOUS
<1> USE DEF IInv, TypeOK, OnlyBornIsKnown, OwnersHold, InFlight,
        ledgerVars, poolVars, resVars, splitVars, acsVars, jobVars
<1>1. CASE StartFetch
  BY <1>1 DEF StartFetch
<1>2. CASE ReadSnapshot
  BY <1>2 DEF ReadSnapshot
<1>3. CASE FetchFails
  BY <1>3 DEF FetchFails, EndCycle, CleanupExpired
<1>4. CASE ApplyComplete
  BY <1>4 DEF ApplyComplete, RefreshFrom, EndCycle, CleanupExpired
<1>5. CASE ApplyPartial
  BY <1>5 DEF ApplyPartial, EndCycle, CleanupExpired
<1>6. CASE ApplyAmulets
  BY <1>6 DEF ApplyAmulets, RefreshFrom, EndCycle, CleanupExpired
<1>7. CASE WatcherSkips
  BY <1>7 DEF WatcherSkips
<1>8. ASSUME NEW c \in Cids, Deposit(c) PROVE OwnersHold'
  BY <1>8 DEF Deposit
<1>9. ASSUME NEW c \in Cids, Expire(c) PROVE OwnersHold'
  BY <1>9, OnlyClosedExpires DEF Expire
<1>10. ASSUME NEW c \in Cids, WatchCreated(c) PROVE OwnersHold'
  BY <1>10 DEF WatchCreated, AddCreated
<1>11. ASSUME NEW c \in Cids, WatchArchived(c) PROVE OwnersHold'
  BY <1>11 DEF WatchArchived, MarkConsumed
<1>12. ASSUME NEW c \in Cids, WatcherReplays(c) PROVE OwnersHold'
  BY <1>12 DEF WatcherReplays
<1>13. ASSUME NEW j \in Jobs, Pick(j) PROVE OwnersHold'
  BY <1>13 DEF Pick
<1>14. ASSUME NEW j \in Jobs, Reserve(j) PROVE OwnersHold'
  <2>1. \A k \in Jobs : InFlight(k) => inputs[k] \cap inputs[j] \cap active = {}
    BY <1>14, CacheAssumption DEF CacheAssumption, Reserve, Reservable, Reserved
  <2>2. \A q \in Jobs : phase[q] = "over" => inputs[q] \cap inputs[j] = {}
    BY <1>14 DEF Reserve, SweptInTime
  <2> QED
    BY <1>14, <2>1, <2>2 DEF Reserve
<1>15. ASSUME NEW j \in Jobs, ReserveFails(j) PROVE OwnersHold'
  BY <1>15 DEF ReserveFails
<1>16. ASSUME NEW j \in Jobs, Release(j) PROVE OwnersHold'
  BY <1>16 DEF Release, ReleaseReservations
<1>17. ASSUME NEW j \in Jobs, SubmitCommits(j) PROVE OwnersHold'
  BY <1>17 DEF SubmitCommits, Transact, NewOutputs
<1>18. ASSUME NEW j \in Jobs, SubmitRefused(j) PROVE OwnersHold'
  BY <1>18 DEF SubmitRefused
<1>19. ASSUME NEW j \in Jobs, MarkInputs(j) PROVE OwnersHold'
  BY <1>19 DEF MarkInputs, MarkConsumed
<1>20. ASSUME NEW j \in Jobs, AddChange(j) PROVE OwnersHold'
  BY <1>20 DEF AddChange, AddCreated
<1>21. ASSUME NEW j \in Jobs, RecordPending(j) PROVE OwnersHold'
  BY <1>21 DEF RecordPending
<1>22. ASSUME NEW j \in Jobs, MarkInactive(j) PROVE OwnersHold'
  BY <1>22 DEF MarkInactive, MarkConsumed
<1>23. ASSUME NEW j \in Jobs, IssueQuote(j) PROVE OwnersHold'
  BY <1>23 DEF IssueQuote
<1>24. ASSUME NEW j \in Jobs, TakerSettles(j) PROVE OwnersHold'
  BY <1>24 DEF TakerSettles, Transact, NewOutputs
<1>25. ASSUME NEW j \in Jobs, WindowCloses(j) PROVE OwnersHold'
  BY <1>25 DEF WindowCloses
<1>26. ASSUME NEW j \in Jobs, Sweep(j) PROVE OwnersHold'
  BY <1>26 DEF Sweep, ReleaseReservations
<1>27. CASE UNCHANGED vars
  BY <1>27 DEF vars
<1> QED
  BY <1>1, <1>2, <1>3, <1>4, <1>5, <1>6, <1>7, <1>8, <1>9, <1>10, <1>11, <1>12,
     <1>13, <1>14, <1>15, <1>16, <1>17, <1>18, <1>19, <1>20, <1>21, <1>22, <1>23,
     <1>24, <1>25, <1>26, <1>27
  DEF Next, AcsWorker, Watcher, JobStep

-----------------------------------------------------------------------------
(* The theorems.                                                           *)

\* Every state satisfies the inductive invariant.
THEOREM Invariance == Spec => []IInv
  BY InitIInv, StepIInv, PTL DEF Spec

\* The types are right.
THEOREM TypeCorrect == Spec => []TypeOK
  BY Invariance, PTL DEF IInv

\* count_in_band never loses the outputs of a committed split or merge between
\* the transaction's result and the snapshot that shows them.
THEOREM RungsCounted == Spec => []RungsStayCounted
  BY Invariance, PTL DEF IInv

\* A complete refresh_from_acs_snapshot never evicts a holding that exists,
\* whatever was created, spent or discovered while the snapshot was on its way.
THEOREM SnapshotIsSafe == Spec => SnapshotKeepsExisting
<1>1. IInv /\ [Next]_vars => [ApplyComplete => available \cap active \subseteq available']_vars
  <2> SUFFICES ASSUME IInv, ApplyComplete PROVE available \cap active \subseteq available'
    OBVIOUS
  <2> QED
    BY DEF IInv, SnapshotCovers, ApplyComplete, RefreshFrom
<1> QED
  BY <1>1, Invariance, PTL DEF Spec, SnapshotKeepsExisting

\* When workers end before their reservation expires and the sweep runs before
\* an expired quote's inputs are taken again, the reserved pool does what it is
\* for: no two payments, splits, merges or live quotes hold the same existing
\* holding, for any number of them.
THEOREM InputsAreExclusive ==
  ASSUME WorkersMeetTTL, SweepMeetsTTL
  PROVE  Spec => []NoSharedInput
<1>1. Init => OwnersHold
  BY DEF Init, OwnersHold, InFlight
<1>2. IInv /\ OwnersHold /\ [Next]_vars => OwnersHold'
  BY StepOwners
<1>3. OwnersHold => NoSharedInput
  BY DEF OwnersHold, NoSharedInput, InFlight
<1> QED
  BY <1>1, <1>2, <1>3, Invariance, PTL DEF Spec

=============================================================================
