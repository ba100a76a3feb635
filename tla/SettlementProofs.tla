-------------------------- MODULE SettlementProofs --------------------------
(***************************************************************************)
(* Proofs about Settlement for any proposals, permits, retries, restarts   *)
(* and crashes: the types, that the order tracker's reservations add up    *)
(* and never exceed the order, that commitments never exceed the balance,  *)
(* that no allocation reaches the ledger without both reservations, that   *)
(* nothing reserved or committed is left without an owner, and, while      *)
(* answers are prompt and no process dies, that the order is never filled  *)
(* for more than its quantity.                                             *)
(***************************************************************************)
EXTENDS Settlement, FiniteSetTheorems, TLAPS

-----------------------------------------------------------------------------
(* Types.                                                                  *)

\* No task is a task state of its own.
LEMMA IdleType == Idle \in TaskRecords
  BY DEF Idle, TaskRecords, Stages, Results

\* Every way a step of a task ends leaves a task.
LEMMA TaskTypes ==
  ASSUME TypeOK, NEW p \in Proposals
  PROVE  /\ \A pc \in {"latch", "act", "reserve", "allocating"} :
              Goto(p, pc) => task' \in [Proposals -> TaskRecords]
         /\ \A r \in Results : Finish(p, r) => task' \in [Proposals -> TaskRecords]
         /\ \A r \in Results, s \in Stages :
              Again(p, r, s) => task' \in [Proposals -> TaskRecords]
         /\ \A a \in Asked(p) :
              task' = [task EXCEPT ![p].pc = "check", ![p].act = a]
                => task' \in [Proposals -> TaskRecords]
<1>0. task[p] \in TaskRecords
  BY DEF TypeOK
<1>1. ASSUME NEW pc \in {"latch", "act", "reserve", "allocating"}, Goto(p, pc)
      PROVE  task' \in [Proposals -> TaskRecords]
  <2>1. [task[p] EXCEPT !.pc = pc] \in TaskRecords
    BY <1>0 DEF TaskRecords
  <2> QED
    BY <1>1, <2>1 DEF TypeOK, Goto
<1>2. ASSUME NEW r \in Results, Finish(p, r)
      PROVE  task' \in [Proposals -> TaskRecords]
  <2>1. [task[p] EXCEPT !.pc = "done", !.result = r] \in TaskRecords
    BY <1>0 DEF TaskRecords
  <2> QED
    BY <1>2, <2>1 DEF TypeOK, Finish
<1>3. ASSUME NEW r \in Results, NEW s \in Stages, Again(p, r, s)
      PROVE  task' \in [Proposals -> TaskRecords]
  BY <1>3, IdleType DEF TypeOK, Again, TaskRecords, Idle, Results
<1>4. ASSUME NEW a \in Asked(p),
             task' = [task EXCEPT ![p].pc = "check", ![p].act = a]
      PROVE  task' \in [Proposals -> TaskRecords]
  <2>1. a \in ServerActions \cup {"None", "Preconfirm", "NoneSettled", "NoneFailed"}
    BY ActionsAssumption DEF ActionsAssumption, Asked, ServerActions
  <2>2. [task[p] EXCEPT !.pc = "check", !.act = a] \in TaskRecords
    BY <1>0, <2>1 DEF TaskRecords
  <2> QED
    BY <1>4, <2>2 DEF TypeOK
<1> QED
  BY <1>1, <1>2, <1>3, <1>4

\* A fresh executor has the right types.
LEMMA InitType == Init => TypeOK
<1> SUFFICES ASSUME Init PROVE TypeOK
  OBVIOUS
<1>1. task \in [Proposals -> TaskRecords]
  BY IdleType DEF Init
<1>2. v2only \in BOOLEAN /\ shutting \in BOOLEAN
  BY SwitchesAssumption DEF SwitchesAssumption, Init
<1>3. saved \in [entry : [Proposals -> {"none", "recorded", "reserved"}],
                 pendingQty : Nat, settledQty : Nat,
                 completed : SUBSET Proposals, rejected : SUBSET Proposals]
  BY DEF Init, EmptyFile
<1>4. entry \in [Proposals -> {"none", "recorded", "reserved"}]
  BY DEF Init, EmptyFile
<1>5. /\ retries \in [Proposals -> 0 .. MaxRetries]
      /\ restarts \in 0 .. MaxRestarts
  BY BoundsAssumption DEF BoundsAssumption, Init
<1>6. stage \in [Proposals -> Stages] /\ age \in [Proposals -> Ages]
  BY DEF Init, Ages, Stages
<1> QED
  BY <1>1, <1>2, <1>3, <1>4, <1>5, <1>6 DEF Init, TypeOK

\* Every handler, task step and restart keeps the types.
LEMMA TypeStep == TypeOK /\ [Next]_vars => TypeOK'
<1> SUFFICES ASSUME TypeOK, [Next]_vars PROVE TypeOK'
  OBVIOUS
<1>1. ASSUME NEW p \in Proposals, Create(p) PROVE TypeOK'
  BY <1>1
  DEF TypeOK, Create, serverVars, trackerVars, liquidityVars, setVars,
      sessionVars
<1>2. ASSUME NEW p \in Proposals, WindowCloses(p) PROVE TypeOK'
  BY <1>2
  DEF TypeOK, WindowCloses, Ages, serverVars, trackerVars, liquidityVars,
      setVars, sessionVars
<1>3. ASSUME NEW p \in Proposals, OperatorSettles(p) PROVE TypeOK'
  BY <1>3
  DEF TypeOK, OperatorSettles, serverVars, trackerVars, liquidityVars,
      setVars, sessionVars
<1>4. ASSUME NEW p \in Proposals, ServerCancels(p) PROVE TypeOK'
  BY <1>4
  DEF TypeOK, ServerCancels, serverVars, trackerVars, liquidityVars, setVars,
      sessionVars
<1>5. ASSUME NEW p \in Proposals, AlreadySettled(p) PROVE TypeOK'
  BY <1>5
  DEF TypeOK, AlreadySettled, Offered, Unknown, serverVars, trackerVars,
      liquidityVars, setVars, sessionVars
<1>6. ASSUME NEW p \in Proposals, Refuse(p) PROVE TypeOK'
  BY <1>6
  DEF TypeOK, Refuse, RejectProposal, Offered, Unknown, serverVars,
      trackerVars, liquidityVars, setVars, sessionVars
<1>7. ASSUME NEW p \in Proposals, Adopt(p) PROVE TypeOK'
  BY <1>7
  DEF TypeOK, Adopt, Offered, Unknown, RecordSettlementOrder, Stages,
      serverVars, trackerVars, liquidityVars, setVars, sessionVars
<1>8. ASSUME NEW p \in Proposals, AdoptRestored(p) PROVE TypeOK'
  BY <1>8
  DEF TypeOK, AdoptRestored, Offered, Unknown, Stages, serverVars,
      trackerVars, liquidityVars, setVars, sessionVars
<1>9. ASSUME NEW p \in Proposals, AbandonRestored(p) PROVE TypeOK'
  BY <1>9
  DEF TypeOK, AbandonRestored, Offered, Unknown, MarkFailed, Lot, Max0,
      serverVars, trackerVars, liquidityVars, setVars, sessionVars
<1>10. ASSUME NEW p \in Proposals, LeaveAlone(p) PROVE TypeOK'
  BY <1>10
  DEF TypeOK, LeaveAlone, Offered, Unknown, serverVars, trackerVars,
      liquidityVars, setVars, sessionVars
<1>11. ASSUME NEW p \in Proposals, AbortV1(p) PROVE TypeOK'
  BY <1>11
  DEF TypeOK, AbortV1, Offered, Unknown, MarkFailed, Lot, Max0, serverVars,
      trackerVars, liquidityVars, setVars, sessionVars
<1>12. ASSUME NEW p \in Proposals, StreamSettled(p) PROVE TypeOK'
  BY <1>12, BoundsAssumption
  DEF BoundsAssumption, TypeOK, StreamSettled, Forget, ReleaseCommitment,
      MarkSettled, Lot, Max0, serverVars, trackerVars,
      liquidityVars, setVars, sessionVars
<1>13. ASSUME NEW p \in Proposals, StreamFailed(p) PROVE TypeOK'
  BY <1>13, BoundsAssumption
  DEF BoundsAssumption, TypeOK, StreamFailed, Forget, ReleaseCommitment, MarkFailed, Lot, Max0,
      serverVars, trackerVars, liquidityVars, setVars, sessionVars
<1>14. ASSUME NEW p \in Proposals, SpawnSettlementTask(p) PROVE TypeOK'
  <2>1. [Idle EXCEPT !.pc = "status", !.stage = stage[p]] \in TaskRecords
    BY IdleType DEF TaskRecords, TypeOK
  <2> QED
    BY <1>14, <2>1 DEF SpawnSettlementTask, TypeOK, serverVars, trackerVars, liquidityVars, setVars, sessionVars
<1>15. ASSUME NEW p \in Proposals, ReadStatus(p) PROVE TypeOK'
  <2>1. task' \in [Proposals -> TaskRecords]
    BY <1>15, TaskTypes DEF ReadStatus, Results
  <2> QED
    BY <1>15, <2>1
    DEF TypeOK, ReadStatus, serverVars, trackerVars, liquidityVars, setVars,
        sessionVars
<1>16. ASSUME NEW p \in Proposals, CheckAction(p) PROVE TypeOK'
  <2>1. task' \in [Proposals -> TaskRecords]
    BY <1>16, TaskTypes DEF CheckAction, Results
  <2> QED
    BY <1>16, <2>1
    DEF TypeOK, CheckAction, serverVars, trackerVars, liquidityVars, setVars,
        sessionVars
<1>17. ASSUME NEW p \in Proposals, CommitLiquidity(p) PROVE TypeOK'
  <2>1. task' \in [Proposals -> TaskRecords]
    BY <1>17, TaskTypes DEF CommitLiquidity, Results
  <2> QED
    BY <1>17, <2>1
    DEF TypeOK, CommitLiquidity, serverVars, trackerVars, liquidityVars,
        setVars, sessionVars
<1>18. ASSUME NEW p \in Proposals, LatchOrder(p) PROVE TypeOK'
  <2>1. task' \in [Proposals -> TaskRecords]
    BY <1>18, TaskTypes DEF LatchOrder, Results
  <2> QED
    BY <1>18, <2>1
    DEF TypeOK, LatchOrder, TryReservePending, Lot, serverVars, trackerVars,
        liquidityVars, setVars, sessionVars
<1>19. ASSUME NEW p \in Proposals, Preconfirm(p) PROVE TypeOK'
  <2>1. task' \in [Proposals -> TaskRecords]
    BY <1>19, TaskTypes DEF Preconfirm, Results, TypeOK, TaskRecords
  <2> QED
    BY <1>19, <2>1
    DEF TypeOK, Preconfirm, serverVars, trackerVars, liquidityVars, setVars,
        sessionVars
<1>20. ASSUME NEW p \in Proposals, RefuseAtShutdown(p) PROVE TypeOK'
  <2>1. task' \in [Proposals -> TaskRecords]
    BY <1>20, TaskTypes DEF RefuseAtShutdown, Results
  <2>2. status' \in [Proposals -> {"unborn", "pending", "settled", "failed"}]
    BY <1>20 DEF RefuseAtShutdown, TypeOK
  <2>3. entry' \in [Proposals -> {"none", "recorded", "reserved"}]
        /\ pendingQty' \in Nat /\ settledQty' \in Nat
    BY <1>20 DEF RefuseAtShutdown, MarkFailed, Lot, Max0, TypeOK
  <2> QED
    BY <1>20, <2>1, <2>2, <2>3 DEF RefuseAtShutdown, TypeOK, serverVars, trackerVars, liquidityVars, setVars, sessionVars
<1>21. ASSUME NEW p \in Proposals, Progress(p) PROVE TypeOK'
  <2>0. StageAfter[task[p].act] \in Stages
    <3>1. task[p].act \in {"PayDvpFee", "CreateDvp", "AcceptDvp", "PayAllocFee"}
      BY <1>21 DEF Progress, StageAfter
    <3> QED
      BY <3>1 DEF StageAfter, Stages
  <2>1. task' \in [Proposals -> TaskRecords]
    BY <1>21, <2>0, TaskTypes DEF Progress, Results, Errors
  <2> QED
    BY <1>21, <2>1
    DEF TypeOK, Progress, serverVars, trackerVars, liquidityVars, setVars,
        sessionVars
<1>22. ASSUME NEW p \in Proposals, Allocate(p) PROVE TypeOK'
  <2>1. task' \in [Proposals -> TaskRecords]
    BY <1>22, TaskTypes DEF Allocate, Results
  <2> QED
    BY <1>22, <2>1
    DEF TypeOK, Allocate, serverVars, trackerVars, liquidityVars, setVars,
        sessionVars
<1>23. ASSUME NEW p \in Proposals, AllocateReturns(p) PROVE TypeOK'
  <2>1. task' \in [Proposals -> TaskRecords]
    <3>1. CASE task' = [task EXCEPT ![p].pc = "done", ![p].stage = "Allocated",
                                    ![p].result = "stepped"]
      <4>0. task[p] \in TaskRecords
        BY DEF TypeOK
      <4>1. [task[p] EXCEPT !.pc = "done", !.stage = "Allocated",
                            !.result = "stepped"] \in TaskRecords
        BY <4>0 DEF TaskRecords, Stages, Results
      <4> QED
        BY <3>1, <4>1 DEF TypeOK
    <3>2. CASE \E e \in Errors : Finish(p, e)
      BY <3>2, TaskTypes DEF Errors, Results
    <3> QED
      BY <1>23, <3>1, <3>2 DEF AllocateReturns, Errors
  <2> QED
    BY <1>23, <2>1
    DEF TypeOK, AllocateReturns, serverVars, trackerVars, liquidityVars,
        setVars, sessionVars
<1>24. ASSUME NEW p \in Proposals, Waits(p) PROVE TypeOK'
  <2>1. task' \in [Proposals -> TaskRecords]
    BY <1>24, TaskTypes DEF Waits, Results
  <2> QED
    BY <1>24, <2>1
    DEF TypeOK, Waits, serverVars, trackerVars, liquidityVars, setVars,
        sessionVars
<1>25. ASSUME NEW p \in Proposals, SeesTerminal(p) PROVE TypeOK'
  <2>1. task' \in [Proposals -> TaskRecords]
    BY <1>25, TaskTypes DEF SeesTerminal, Results
  <2> QED
    BY <1>25, <2>1
    DEF TypeOK, SeesTerminal, MarkSettled, MarkFailed, Lot, Max0, serverVars,
        trackerVars, liquidityVars, setVars, sessionVars
<1>26. ASSUME NEW p \in Proposals, CollectResult(p) PROVE TypeOK'
  <2>1. task' \in [Proposals -> TaskRecords] /\ task[p] \in TaskRecords
    BY <1>26, IdleType DEF CollectResult, TypeOK
  <2>2. task[p].stage \in Stages
    BY <2>1 DEF TaskRecords
  <2>3. trackerVars' = trackerVars \/ MarkFailed(p)
    BY <1>26 DEF CollectResult, CollectGoesOn, CollectRejected, CollectTerminal,
       CollectError, CollectAbandoned, KeepReservations, ReleaseOrphan
  <2>4. entry' \in [Proposals -> {"none", "recorded", "reserved"}]
        /\ pendingQty' \in Nat /\ settledQty' \in Nat
    BY <2>3 DEF TypeOK, MarkFailed, Lot, Max0, trackerVars
  <2>5. CASE CollectGoesOn(p)
    BY <1>26, <2>1, <2>2, <2>4, <2>5, BoundsAssumption
    DEF BoundsAssumption, CollectResult, CollectGoesOn, Stages, KeepReservations, ReleaseOrphan,
        ReleaseCommitment, Forget, NotifyServerCancel,
        TypeOK, serverVars, trackerVars, liquidityVars, setVars, sessionVars
  <2>6. CASE CollectRejected(p)
    BY <1>26, <2>1, <2>2, <2>4, <2>6, BoundsAssumption
    DEF BoundsAssumption, CollectResult, CollectRejected, Stages, KeepReservations, ReleaseOrphan,
        ReleaseCommitment, Forget, NotifyServerCancel,
        TypeOK, serverVars, trackerVars, liquidityVars, setVars, sessionVars
  <2>7. CASE CollectTerminal(p)
    BY <1>26, <2>1, <2>2, <2>4, <2>7, BoundsAssumption
    DEF BoundsAssumption, CollectResult, CollectTerminal, Stages, KeepReservations, ReleaseOrphan,
        ReleaseCommitment, Forget, NotifyServerCancel,
        TypeOK, serverVars, trackerVars, liquidityVars, setVars, sessionVars
  <2>8. CASE CollectError(p)
    BY <1>26, <2>1, <2>2, <2>4, <2>8, BoundsAssumption
    DEF BoundsAssumption, CollectResult, CollectError, Stages, KeepReservations, ReleaseOrphan,
        ReleaseCommitment, Forget, NotifyServerCancel,
        TypeOK, serverVars, trackerVars, liquidityVars, setVars, sessionVars
  <2>9. CASE CollectAbandoned(p)
    BY <1>26, <2>1, <2>2, <2>4, <2>9, BoundsAssumption
    DEF BoundsAssumption, CollectResult, CollectAbandoned, Stages, KeepReservations, ReleaseOrphan,
        ReleaseCommitment, Forget, NotifyServerCancel,
        TypeOK, serverVars, trackerVars, liquidityVars, setVars, sessionVars
  <2> QED
    BY <1>26, <2>5, <2>6, <2>7, <2>8, <2>9 DEF CollectResult
<1>27. ASSUME NEW p \in Proposals, RunRelease(p) PROVE TypeOK'
  BY <1>27
  DEF TypeOK, RunRelease, serverVars, trackerVars, liquidityVars, setVars,
      sessionVars
<1>28. ASSUME NEW p \in Proposals, AbortTask(p) PROVE TypeOK'
  BY <1>28, IdleType
  DEF TypeOK, AbortTask, LateAllocations, serverVars, trackerVars,
      liquidityVars, setVars, sessionVars
<1>29. CASE Reconcile
  BY <1>29 DEF TypeOK, Reconcile, serverVars, trackerVars, liquidityVars, setVars,
      sessionVars
<1>30. CASE Shutdown
  BY <1>30 DEF TypeOK, Shutdown, serverVars, trackerVars, liquidityVars, setVars,
      sessionVars
<1>31. CASE SaveAndRestart
  <2> DEFINE file == [entry |-> entry, pendingQty |-> PrunedPending, settledQty |-> settledQty,
              completed |-> completed, rejected |-> rejected]
  <2>1. file \in [entry : [Proposals -> {"none", "recorded", "reserved"}],
                 pendingQty : Nat, settledQty : Nat,
                 completed : SUBSET Proposals, rejected : SUBSET Proposals]
    BY DEF TypeOK, PrunedPending
  <2>2. Restart(file)
    BY <1>31 DEF SaveAndRestart
  <2> HIDE DEF file
  <2>3. /\ saved' = file
        /\ entry' \in [Proposals -> {"none", "recorded", "reserved"}]
        /\ pendingQty' \in Nat /\ settledQty' \in Nat
        /\ completed' \subseteq Proposals /\ rejected' \subseteq Proposals
    BY <2>1, <2>2 DEF Restart
  <2>4. /\ task' \in [Proposals -> TaskRecords]
        /\ stage' \in [Proposals -> Stages]
    BY <2>2, IdleType DEF Restart, Stages
  <2>5. retries' \in [Proposals -> 0 .. MaxRetries] /\ restarts' \in 0 .. MaxRestarts
    BY <2>2, <1>31, BoundsAssumption DEF BoundsAssumption, Restart, TypeOK, SaveAndRestart
  <2>6. v2only' \in BOOLEAN /\ shutting' \in BOOLEAN
    BY <2>2, SwitchesAssumption DEF SwitchesAssumption, Restart
  <2>7. allocated' \subseteq Proposals
    BY <1>31 DEF SaveAndRestart, LateAllocations, TypeOK
  <2> QED
    BY <2>1, <2>2, <2>3, <2>4, <2>5, <2>6, <2>7 DEF Restart, TypeOK
<1>32. CASE Crash
  <2> DEFINE file == saved
  <2>1. file \in [entry : [Proposals -> {"none", "recorded", "reserved"}],
                 pendingQty : Nat, settledQty : Nat,
                 completed : SUBSET Proposals, rejected : SUBSET Proposals]
    BY DEF TypeOK, PrunedPending
  <2>2. Restart(file)
    BY <1>32 DEF Crash
  <2> HIDE DEF file
  <2>3. /\ saved' = file
        /\ entry' \in [Proposals -> {"none", "recorded", "reserved"}]
        /\ pendingQty' \in Nat /\ settledQty' \in Nat
        /\ completed' \subseteq Proposals /\ rejected' \subseteq Proposals
    BY <2>1, <2>2 DEF Restart
  <2>4. /\ task' \in [Proposals -> TaskRecords]
        /\ stage' \in [Proposals -> Stages]
    BY <2>2, IdleType DEF Restart, Stages
  <2>5. retries' \in [Proposals -> 0 .. MaxRetries] /\ restarts' \in 0 .. MaxRestarts
    BY <2>2, <1>32, BoundsAssumption DEF BoundsAssumption, Restart, TypeOK, Crash
  <2>6. v2only' \in BOOLEAN /\ shutting' \in BOOLEAN
    BY <2>2, SwitchesAssumption DEF SwitchesAssumption, Restart
  <2>7. allocated' \subseteq Proposals
    BY <1>32 DEF Crash, LateAllocations, TypeOK
  <2> QED
    BY <2>1, <2>2, <2>3, <2>4, <2>5, <2>6, <2>7 DEF Restart, TypeOK
<1>33. CASE UNCHANGED vars
  BY <1>33 DEF TypeOK, vars, serverVars, trackerVars, liquidityVars, setVars, sessionVars
<1> QED
  BY <1>1, <1>2, <1>3, <1>4, <1>5, <1>6, <1>7, <1>8, <1>9, <1>10, <1>11,
     <1>12, <1>13, <1>14, <1>15, <1>16, <1>17, <1>18, <1>19, <1>20, <1>21,
     <1>22, <1>23, <1>24, <1>25, <1>26, <1>27, <1>28, <1>29, <1>30, <1>31,
     <1>32, <1>33
  DEF Next, HandleProposal, TaskStep
-----------------------------------------------------------------------------
(* The inductive invariant.                                                *)

\* The reserved settlements of the order, by a table of entries
ReservedIn(table) == {p \in Orders : table[p] = "reserved"}

\* The accounts add up, those of the state file included: a crash restores them.
AccountsAddUp ==
  /\ PendingAddsUp
  /\ NotOversold
  /\ saved.pendingQty = Cardinality(ReservedIn(saved.entry))
  /\ saved.pendingQty + saved.settledQty <= Quantity

\* A task works for an active settlement, or for one a terminal event has ended.
TasksHaveOwners ==
  /\ \A p \in active : p \notin completed \cup rejected /\ status[p] # "unborn"
  /\ \A p \in Proposals : task[p] # Idle =>
       \/ p \in active
       \/ p \in completed \cup rejected /\ status[p] \in {"settled", "failed"}

\* A commitment is only released for a proposal that is never taken up again.
ReleasesAreFinal == releasing \subseteq completed \cup rejected

\* A task past ensure_reserved holds both reservations while the settlement lives.
ReservedToAct ==
  \A p \in Proposals : status[p] = "pending" =>
    /\ task[p].pc = "latch" => p \in committed
    /\ \/ task[p].pc = "allocating"
       \/ task[p].pc = "act" /\ task[p].act \notin Unreserved
       => entry[p] = "reserved" /\ p \in committed

IInv ==
  /\ TypeOK
  /\ AccountsAddUp
  /\ FundsNotOvercommitted
  /\ TasksHaveOwners
  /\ ReleasesAreFinal
  /\ ReservedToAct

-----------------------------------------------------------------------------
(* The accounts of the order tracker.                                      *)

\* The reserved settlements are finitely many.
LEMMA ReservedIsFinite ==
  ASSUME NEW table PROVE IsFiniteSet(ReservedIn(table))
<1>1. ReservedIn(table) \subseteq Proposals
  BY OrdersAssumption DEF OrdersAssumption, ReservedIn
<1> QED
  BY <1>1, ProposalsAssumption, FS_Subset DEF ProposalsAssumption

\* The accounts change by the tracker's own operations and by restarts only.
TrackerStep ==
  \E p \in Proposals : \/ RecordSettlementOrder(p) \/ TryReservePending(p)
                       \/ MarkSettled(p) \/ MarkFailed(p)

\* Every step of the system is one of those, as far as the tracker can tell.
LEMMA TrackerEffects ==
  ASSUME Next
  PROVE  \/ UNCHANGED <<trackerVars, saved>>
         \/ TrackerStep /\ UNCHANGED saved
         \/ SaveAndRestart \/ Crash
<1> DEFINE Goal == \/ UNCHANGED <<trackerVars, saved>>
                   \/ TrackerStep /\ UNCHANGED saved
                   \/ SaveAndRestart \/ Crash
<1>1. ASSUME NEW p \in Proposals, Create(p) PROVE Goal
  BY <1>1 DEF Create, trackerVars, sessionVars
<1>2. ASSUME NEW p \in Proposals, WindowCloses(p) PROVE Goal
  BY <1>2 DEF WindowCloses, trackerVars, sessionVars
<1>3. ASSUME NEW p \in Proposals, OperatorSettles(p) PROVE Goal
  BY <1>3 DEF OperatorSettles, trackerVars, sessionVars
<1>4. ASSUME NEW p \in Proposals, ServerCancels(p) PROVE Goal
  BY <1>4 DEF ServerCancels, trackerVars, sessionVars
<1>5. ASSUME NEW p \in Proposals, AlreadySettled(p) PROVE Goal
  BY <1>5 DEF AlreadySettled, trackerVars, sessionVars
<1>6. ASSUME NEW p \in Proposals, Refuse(p) PROVE Goal
  BY <1>6 DEF Refuse, trackerVars, sessionVars
<1>7. ASSUME NEW p \in Proposals, Adopt(p) PROVE Goal
  BY <1>7 DEF Adopt, trackerVars, sessionVars, TrackerStep
<1>8. ASSUME NEW p \in Proposals, AdoptRestored(p) PROVE Goal
  BY <1>8 DEF AdoptRestored, trackerVars, sessionVars
<1>9. ASSUME NEW p \in Proposals, AbandonRestored(p) PROVE Goal
  BY <1>9 DEF AbandonRestored, trackerVars, sessionVars, TrackerStep
<1>10. ASSUME NEW p \in Proposals, LeaveAlone(p) PROVE Goal
  BY <1>10 DEF LeaveAlone, trackerVars, sessionVars
<1>11. ASSUME NEW p \in Proposals, AbortV1(p) PROVE Goal
  BY <1>11 DEF AbortV1, trackerVars, sessionVars, TrackerStep
<1>12. ASSUME NEW p \in Proposals, StreamSettled(p) PROVE Goal
  BY <1>12 DEF StreamSettled, trackerVars, sessionVars, TrackerStep
<1>13. ASSUME NEW p \in Proposals, StreamFailed(p) PROVE Goal
  BY <1>13 DEF StreamFailed, trackerVars, sessionVars, TrackerStep
<1>14. ASSUME NEW p \in Proposals, SpawnSettlementTask(p) PROVE Goal
  BY <1>14 DEF SpawnSettlementTask, trackerVars, sessionVars
<1>15. ASSUME NEW p \in Proposals, ReadStatus(p) PROVE Goal
  BY <1>15 DEF ReadStatus, trackerVars, sessionVars
<1>16. ASSUME NEW p \in Proposals, CheckAction(p) PROVE Goal
  BY <1>16 DEF CheckAction, trackerVars, sessionVars
<1>17. ASSUME NEW p \in Proposals, CommitLiquidity(p) PROVE Goal
  BY <1>17 DEF CommitLiquidity, trackerVars, sessionVars
<1>18. ASSUME NEW p \in Proposals, LatchOrder(p) PROVE Goal
  BY <1>18 DEF LatchOrder, trackerVars, sessionVars, TrackerStep
<1>19. ASSUME NEW p \in Proposals, Preconfirm(p) PROVE Goal
  BY <1>19 DEF Preconfirm, trackerVars, sessionVars
<1>20. ASSUME NEW p \in Proposals, RefuseAtShutdown(p) PROVE Goal
  BY <1>20 DEF RefuseAtShutdown, trackerVars, sessionVars, TrackerStep
<1>21. ASSUME NEW p \in Proposals, Progress(p) PROVE Goal
  BY <1>21 DEF Progress, trackerVars, sessionVars
<1>22. ASSUME NEW p \in Proposals, Allocate(p) PROVE Goal
  BY <1>22 DEF Allocate, trackerVars, sessionVars
<1>23. ASSUME NEW p \in Proposals, AllocateReturns(p) PROVE Goal
  BY <1>23 DEF AllocateReturns, trackerVars, sessionVars
<1>24. ASSUME NEW p \in Proposals, Waits(p) PROVE Goal
  BY <1>24 DEF Waits, trackerVars, sessionVars
<1>25. ASSUME NEW p \in Proposals, SeesTerminal(p) PROVE Goal
  BY <1>25 DEF SeesTerminal, trackerVars, sessionVars, TrackerStep
<1>26. ASSUME NEW p \in Proposals, CollectResult(p) PROVE Goal
  BY <1>26 DEF CollectResult, trackerVars, sessionVars, CollectGoesOn, CollectRejected,
      CollectTerminal, CollectError, CollectAbandoned, KeepReservations,
      ReleaseOrphan, TrackerStep
<1>27. ASSUME NEW p \in Proposals, RunRelease(p) PROVE Goal
  BY <1>27 DEF RunRelease, trackerVars, sessionVars
<1>28. ASSUME NEW p \in Proposals, AbortTask(p) PROVE Goal
  BY <1>28 DEF AbortTask, trackerVars, sessionVars
<1>29. CASE Reconcile
  BY <1>29 DEF Reconcile, trackerVars, sessionVars
<1>30. CASE Shutdown
  BY <1>30 DEF Shutdown, trackerVars, sessionVars
<1> QED
  BY <1>1, <1>2, <1>3, <1>4, <1>5, <1>6, <1>7, <1>8, <1>9, <1>10, <1>11,
     <1>12, <1>13, <1>14, <1>15, <1>16, <1>17, <1>18, <1>19, <1>20, <1>21,
     <1>22, <1>23, <1>24, <1>25, <1>26, <1>27, <1>28, <1>29, <1>30
  DEF Next, HandleProposal, TaskStep

\* Each operation moves pending_quantity and the set of reserved settlements alike.
LEMMA TrackerKeepsAccounts ==
  ASSUME TypeOK, PendingAddsUp, NotOversold, TrackerStep
  PROVE  PendingAddsUp' /\ NotOversold'
<1> DEFINE R == ReservedIn(entry)
<1>0. /\ IsFiniteSet(R) /\ Cardinality(R) \in Nat /\ pendingQty = Cardinality(R)
      /\ pendingQty + settledQty <= Quantity /\ Quantity \in Nat
      /\ pendingQty \in Nat /\ settledQty \in Nat
  BY ReservedIsFinite, FS_CardinalityType, BoundsAssumption
  DEF BoundsAssumption, PendingAddsUp, NotOversold, ReservedIn, TypeOK
<1>1. PICK p \in Proposals : \/ RecordSettlementOrder(p) \/ TryReservePending(p)
                             \/ MarkSettled(p) \/ MarkFailed(p)
  BY DEF TrackerStep
<1>t. entry \in [Proposals -> {"none", "recorded", "reserved"}] /\ Orders \subseteq Proposals
  BY OrdersAssumption DEF OrdersAssumption, TypeOK
<1>s. ASSUME pendingQty' = Cardinality(ReservedIn(entry')),
             pendingQty' + settledQty' <= Quantity
      PROVE  PendingAddsUp' /\ NotOversold'
  BY <1>s DEF PendingAddsUp, NotOversold, ReservedIn
<1> HIDE DEF R
<1>2. CASE RecordSettlementOrder(p)
  <2>1. ReservedIn(entry') = R
    BY <1>2, <1>t DEF RecordSettlementOrder, ReservedIn, R
  <2> QED
    BY <1>0, <1>2, <1>s, <2>1 DEF RecordSettlementOrder
<1>3. CASE TryReservePending(p) /\ p \in Orders
  <2>1. ReservedIn(entry') = R \cup {p} /\ p \notin R
    BY <1>3, <1>t DEF TryReservePending, ReservedIn, R
  <2>2. Cardinality(R \cup {p}) = Cardinality(R) + 1
    BY <1>0, <2>1, FS_AddElement
  <2>3. pendingQty' = pendingQty + 1 /\ settledQty' = settledQty
        /\ pendingQty + settledQty < Quantity
    BY <1>3 DEF TryReservePending, Lot, Capacity
  <2> QED
    BY <1>0, <1>s, <2>1, <2>2, <2>3
<1>4. CASE TryReservePending(p) /\ p \notin Orders
  <2>1. ReservedIn(entry') = R
    BY <1>4, <1>t DEF TryReservePending, ReservedIn, R
  <2>2. pendingQty' = pendingQty /\ settledQty' = settledQty
    BY <1>0, <1>4 DEF TryReservePending, Lot
  <2> QED
    BY <1>0, <1>s, <2>1, <2>2
<1>5. CASE (MarkSettled(p) \/ MarkFailed(p)) /\ p \in R
  <2>1. ReservedIn(entry') = R \ {p} /\ entry[p] = "reserved" /\ p \in Orders
    BY <1>5, <1>t DEF MarkSettled, MarkFailed, ReservedIn, R
  <2>2. Cardinality(R \ {p}) = Cardinality(R) - 1 /\ Cardinality(R \ {p}) \in Nat
    BY <1>0, <1>5, FS_RemoveElement, FS_CardinalityType
  <2>3. pendingQty' = pendingQty - 1 /\ settledQty' \in {settledQty, settledQty + 1}
    BY <1>0, <1>5, <2>1, <2>2 DEF MarkSettled, MarkFailed, Lot, Max0
  <2> QED
    BY <1>0, <1>s, <2>1, <2>2, <2>3
<1>6. CASE (MarkSettled(p) \/ MarkFailed(p)) /\ p \notin R
  <2>1. ReservedIn(entry') = R
    BY <1>6, <1>t DEF MarkSettled, MarkFailed, ReservedIn, R
  <2>2. entry[p] # "reserved" \/ p \notin Orders
    BY <1>6 DEF ReservedIn, R
  <2>3. pendingQty' = pendingQty /\ settledQty' = settledQty
    BY <1>0, <1>6, <2>2 DEF MarkSettled, MarkFailed, Lot, Max0
  <2> QED
    BY <1>0, <1>s, <2>1, <2>3
<1> QED
  BY <1>1, <1>2, <1>3, <1>4, <1>5, <1>6

\* The accounts add up after every step; prune_state drops nothing that counts.
LEMMA AccountsStep == TypeOK /\ AccountsAddUp /\ [Next]_vars => AccountsAddUp'
<1> SUFFICES ASSUME TypeOK, AccountsAddUp, [Next]_vars PROVE AccountsAddUp'
  OBVIOUS
<1>1. CASE UNCHANGED <<trackerVars, saved>>
  BY <1>1 DEF AccountsAddUp, PendingAddsUp, NotOversold, ReservedIn, trackerVars
<1>2. CASE TrackerStep /\ UNCHANGED saved
  <2>1. PendingAddsUp' /\ NotOversold'
    BY <1>2, TrackerKeepsAccounts DEF AccountsAddUp
  <2> QED
    BY <1>2, <2>1 DEF AccountsAddUp, ReservedIn
<1>3. CASE SaveAndRestart
  <2>1. /\ entry' = entry /\ pendingQty' = PrunedPending /\ settledQty' = settledQty
        /\ saved'.entry = entry /\ saved'.pendingQty = PrunedPending
        /\ saved'.settledQty = settledQty
    BY <1>3 DEF SaveAndRestart, Restart
  <2>2. PrunedPending = Cardinality(ReservedIn(entry))
    <3>1. CASE \E p \in Orders : entry[p] # "none"
      BY <3>1 DEF PrunedPending, AccountsAddUp, PendingAddsUp, ReservedIn
    <3>2. CASE ~ \E p \in Orders : entry[p] # "none"
      <4>1. ReservedIn(entry) = {}
        BY <3>2 DEF ReservedIn
      <4> QED
        BY <3>2, <4>1, FS_EmptySet DEF PrunedPending
    <3> QED
      BY <3>1, <3>2
  <2>3. PrunedPending = pendingQty
    BY <2>2 DEF AccountsAddUp, PendingAddsUp, ReservedIn
  <2> QED
    BY <2>1, <2>2, <2>3 DEF AccountsAddUp, PendingAddsUp, NotOversold, ReservedIn
<1>4. CASE Crash
  <2>1. /\ entry' = saved.entry /\ pendingQty' = saved.pendingQty
        /\ settledQty' = saved.settledQty /\ saved' = saved
    BY <1>4 DEF Crash, Restart
  <2> QED
    BY <2>1 DEF AccountsAddUp, PendingAddsUp, NotOversold, ReservedIn
<1>5. CASE UNCHANGED vars
  BY <1>1, <1>5 DEF vars, sessionVars, trackerVars
<1> QED
  BY <1>1, <1>2, <1>3, <1>4, <1>5, TrackerEffects

-----------------------------------------------------------------------------
(* The liquidity manager.                                                  *)

\* Only ensure_reserved adds a commitment, and it checks the balance first.
LEMMA CommitEffects ==
  ASSUME Next
  PROVE  committed' \subseteq committed \/ \E p \in Proposals : CommitLiquidity(p)
<1> DEFINE Goal == committed' \subseteq committed \/ \E p \in Proposals : CommitLiquidity(p)
<1>1. ASSUME NEW p \in Proposals, Create(p) PROVE Goal
  BY <1>1 DEF Create, liquidityVars
<1>2. ASSUME NEW p \in Proposals, WindowCloses(p) PROVE Goal
  BY <1>2 DEF WindowCloses, liquidityVars
<1>3. ASSUME NEW p \in Proposals, OperatorSettles(p) PROVE Goal
  BY <1>3 DEF OperatorSettles, liquidityVars
<1>4. ASSUME NEW p \in Proposals, ServerCancels(p) PROVE Goal
  BY <1>4 DEF ServerCancels, liquidityVars
<1>5. ASSUME NEW p \in Proposals, AlreadySettled(p) PROVE Goal
  BY <1>5 DEF AlreadySettled, liquidityVars
<1>6. ASSUME NEW p \in Proposals, Refuse(p) PROVE Goal
  BY <1>6 DEF Refuse, liquidityVars
<1>7. ASSUME NEW p \in Proposals, Adopt(p) PROVE Goal
  BY <1>7 DEF Adopt, liquidityVars
<1>8. ASSUME NEW p \in Proposals, AdoptRestored(p) PROVE Goal
  BY <1>8 DEF AdoptRestored, liquidityVars
<1>9. ASSUME NEW p \in Proposals, AbandonRestored(p) PROVE Goal
  BY <1>9 DEF AbandonRestored, liquidityVars
<1>10. ASSUME NEW p \in Proposals, LeaveAlone(p) PROVE Goal
  BY <1>10 DEF LeaveAlone, liquidityVars
<1>11. ASSUME NEW p \in Proposals, AbortV1(p) PROVE Goal
  BY <1>11 DEF AbortV1, liquidityVars
<1>12. ASSUME NEW p \in Proposals, StreamSettled(p) PROVE Goal
  BY <1>12 DEF StreamSettled, liquidityVars
<1>13. ASSUME NEW p \in Proposals, StreamFailed(p) PROVE Goal
  BY <1>13 DEF StreamFailed, liquidityVars
<1>14. ASSUME NEW p \in Proposals, SpawnSettlementTask(p) PROVE Goal
  BY <1>14 DEF SpawnSettlementTask, liquidityVars
<1>15. ASSUME NEW p \in Proposals, ReadStatus(p) PROVE Goal
  BY <1>15 DEF ReadStatus, liquidityVars
<1>16. ASSUME NEW p \in Proposals, CheckAction(p) PROVE Goal
  BY <1>16 DEF CheckAction, liquidityVars
<1>17. ASSUME NEW p \in Proposals, CommitLiquidity(p) PROVE Goal
  BY <1>17
<1>18. ASSUME NEW p \in Proposals, LatchOrder(p) PROVE Goal
  BY <1>18 DEF LatchOrder, liquidityVars
<1>19. ASSUME NEW p \in Proposals, Preconfirm(p) PROVE Goal
  BY <1>19 DEF Preconfirm, liquidityVars
<1>20. ASSUME NEW p \in Proposals, RefuseAtShutdown(p) PROVE Goal
  BY <1>20 DEF RefuseAtShutdown, liquidityVars
<1>21. ASSUME NEW p \in Proposals, Progress(p) PROVE Goal
  BY <1>21 DEF Progress, liquidityVars
<1>22. ASSUME NEW p \in Proposals, Allocate(p) PROVE Goal
  BY <1>22 DEF Allocate, liquidityVars
<1>23. ASSUME NEW p \in Proposals, AllocateReturns(p) PROVE Goal
  BY <1>23 DEF AllocateReturns, liquidityVars
<1>24. ASSUME NEW p \in Proposals, Waits(p) PROVE Goal
  BY <1>24 DEF Waits, liquidityVars
<1>25. ASSUME NEW p \in Proposals, SeesTerminal(p) PROVE Goal
  BY <1>25 DEF SeesTerminal, liquidityVars
<1>26. ASSUME NEW p \in Proposals, CollectResult(p) PROVE Goal
  BY <1>26 DEF CollectResult, liquidityVars
<1>27. ASSUME NEW p \in Proposals, RunRelease(p) PROVE Goal
  BY <1>27 DEF RunRelease, liquidityVars
<1>28. ASSUME NEW p \in Proposals, AbortTask(p) PROVE Goal
  BY <1>28 DEF AbortTask, liquidityVars
<1>29. CASE Reconcile
  BY <1>29 DEF Reconcile, Restart, liquidityVars
<1>30. CASE Shutdown
  BY <1>30 DEF Shutdown, Restart, liquidityVars
<1>31. CASE SaveAndRestart
  BY <1>31 DEF SaveAndRestart, Restart, liquidityVars
<1>32. CASE Crash
  BY <1>32 DEF Crash, Restart, liquidityVars
<1> QED
  BY <1>1, <1>2, <1>3, <1>4, <1>5, <1>6, <1>7, <1>8, <1>9, <1>10, <1>11,
     <1>12, <1>13, <1>14, <1>15, <1>16, <1>17, <1>18, <1>19, <1>20, <1>21,
     <1>22, <1>23, <1>24, <1>25, <1>26, <1>27, <1>28, <1>29, <1>30, <1>31,
     <1>32
  DEF Next, HandleProposal, TaskStep

\* Commitments stay within the balance: the check and the insert are one step.
LEMMA FundsStep == TypeOK /\ FundsNotOvercommitted /\ [Next]_vars => FundsNotOvercommitted'
<1> SUFFICES ASSUME TypeOK, FundsNotOvercommitted, [Next]_vars
             PROVE  FundsNotOvercommitted'
  OBVIOUS
<1>0. /\ IsFiniteSet(committed) /\ Cardinality(committed) \in Nat
      /\ Cardinality(committed) <= Funds /\ Funds \in Nat
  BY ProposalsAssumption, BoundsAssumption, FS_Subset, FS_CardinalityType
  DEF ProposalsAssumption, BoundsAssumption, TypeOK, FundsNotOvercommitted
<1>1. CASE committed' \subseteq committed
  <2>1. Cardinality(committed') <= Cardinality(committed) /\ IsFiniteSet(committed')
    BY <1>0, <1>1, FS_Subset
  <2>2. Cardinality(committed') \in Nat
    BY <2>1, FS_CardinalityType
  <2> QED
    BY <1>0, <2>1, <2>2 DEF FundsNotOvercommitted
<1>2. ASSUME NEW p \in Proposals, CommitLiquidity(p) PROVE FundsNotOvercommitted'
  <2>1. CASE p \notin committed /\ CanCommit(p)
    <3>1. committed' = committed \cup {p}
      BY <1>2, <2>1 DEF CommitLiquidity
    <3>2. Cardinality(committed \cup {p}) = Cardinality(committed) + 1
      BY <1>0, <2>1, FS_AddElement
    <3> QED
      BY <1>0, <2>1, <3>1, <3>2 DEF CanCommit, FundsNotOvercommitted
  <2>2. CASE p \in committed \/ ~ CanCommit(p)
    <3>1. committed' = committed
      BY <1>2, <2>2 DEF CommitLiquidity
    <3> QED
      BY <1>1, <3>1
  <2> QED
    BY <2>1, <2>2
<1>3. CASE UNCHANGED vars
  BY <1>1, <1>3 DEF vars, liquidityVars
<1> QED
  BY <1>1, <1>2, <1>3, CommitEffects

-----------------------------------------------------------------------------
(* Tasks and the settlements they work for.                                *)

\* A task is never left without a settlement that will collect its result, and
\* a proposal whose commitment is being released is never adopted again.
LEMMA OwnersStep ==
  TypeOK /\ TasksHaveOwners /\ ReleasesAreFinal /\ [Next]_vars
    => TasksHaveOwners' /\ ReleasesAreFinal'
<1> SUFFICES ASSUME TypeOK, TasksHaveOwners, ReleasesAreFinal, [Next]_vars
             PROVE  TasksHaveOwners' /\ ReleasesAreFinal'
  OBVIOUS
<1> DEFINE Goal == TasksHaveOwners' /\ ReleasesAreFinal'
<1>1. ASSUME NEW p \in Proposals, Create(p) PROVE Goal
  BY <1>1
  DEF Create, TasksHaveOwners, ReleasesAreFinal, TypeOK, serverVars,
      liquidityVars, setVars
<1>2. ASSUME NEW p \in Proposals, WindowCloses(p) PROVE Goal
  BY <1>2
  DEF WindowCloses, TasksHaveOwners, ReleasesAreFinal, TypeOK, serverVars,
      liquidityVars, setVars
<1>3. ASSUME NEW p \in Proposals, OperatorSettles(p) PROVE Goal
  BY <1>3
  DEF OperatorSettles, TasksHaveOwners, ReleasesAreFinal, TypeOK, serverVars,
      liquidityVars, setVars
<1>4. ASSUME NEW p \in Proposals, ServerCancels(p) PROVE Goal
  BY <1>4
  DEF ServerCancels, TasksHaveOwners, ReleasesAreFinal, TypeOK, serverVars,
      liquidityVars, setVars
<1>5. ASSUME NEW p \in Proposals, AlreadySettled(p) PROVE Goal
  BY <1>5
  DEF AlreadySettled, Offered, Unknown, TasksHaveOwners, ReleasesAreFinal,
      TypeOK, serverVars, liquidityVars, setVars
<1>6. ASSUME NEW p \in Proposals, Refuse(p) PROVE Goal
  BY <1>6
  DEF Refuse, RejectProposal, Offered, Unknown, TasksHaveOwners,
      ReleasesAreFinal, TypeOK, serverVars, liquidityVars, setVars
<1>7. ASSUME NEW p \in Proposals, Adopt(p) PROVE Goal
  BY <1>7
  DEF Adopt, Offered, Unknown, TasksHaveOwners, ReleasesAreFinal, TypeOK,
      serverVars, liquidityVars, setVars
<1>8. ASSUME NEW p \in Proposals, AdoptRestored(p) PROVE Goal
  BY <1>8
  DEF AdoptRestored, Offered, Unknown, TasksHaveOwners, ReleasesAreFinal,
      TypeOK, serverVars, liquidityVars, setVars
<1>9. ASSUME NEW p \in Proposals, AbandonRestored(p) PROVE Goal
  BY <1>9
  DEF AbandonRestored, Offered, Unknown, TasksHaveOwners, ReleasesAreFinal,
      TypeOK, serverVars, liquidityVars, setVars
<1>10. ASSUME NEW p \in Proposals, LeaveAlone(p) PROVE Goal
  BY <1>10
  DEF LeaveAlone, Offered, Unknown, TasksHaveOwners, ReleasesAreFinal, TypeOK,
      serverVars, liquidityVars, setVars
<1>11. ASSUME NEW p \in Proposals, AbortV1(p) PROVE Goal
  BY <1>11
  DEF AbortV1, Offered, Unknown, TasksHaveOwners, ReleasesAreFinal, TypeOK,
      serverVars, liquidityVars, setVars
<1>12. ASSUME NEW p \in Proposals, StreamSettled(p) PROVE Goal
  BY <1>12
  DEF StreamSettled, Forget, ReleaseCommitment, TasksHaveOwners,
      ReleasesAreFinal, TypeOK, serverVars, liquidityVars, setVars
<1>13. ASSUME NEW p \in Proposals, StreamFailed(p) PROVE Goal
  BY <1>13
  DEF StreamFailed, Forget, ReleaseCommitment, TasksHaveOwners,
      ReleasesAreFinal, TypeOK, serverVars, liquidityVars, setVars
<1>14. ASSUME NEW p \in Proposals, SpawnSettlementTask(p) PROVE Goal
  BY <1>14
  DEF SpawnSettlementTask, Running, TasksHaveOwners, ReleasesAreFinal, TypeOK,
      serverVars, liquidityVars, setVars
<1>15. ASSUME NEW p \in Proposals, ReadStatus(p) PROVE Goal
  <2>1. task[p] # Idle /\ \A q \in Proposals \ {p} : task'[q] = task[q]
    BY <1>15 DEF ReadStatus, Finish, Idle, TypeOK
  <2> QED
    BY <1>15, <2>1 DEF ReadStatus, TasksHaveOwners, ReleasesAreFinal, TypeOK, serverVars, liquidityVars, setVars
<1>16. ASSUME NEW p \in Proposals, CheckAction(p) PROVE Goal
  <2>1. task[p] # Idle /\ \A q \in Proposals \ {p} : task'[q] = task[q]
    BY <1>16 DEF CheckAction, Goto, Finish, Idle, TypeOK
  <2> QED
    BY <1>16, <2>1 DEF CheckAction, TasksHaveOwners, ReleasesAreFinal, TypeOK, serverVars, liquidityVars, setVars
<1>17. ASSUME NEW p \in Proposals, CommitLiquidity(p) PROVE Goal
  <2>1. task[p] # Idle /\ \A q \in Proposals \ {p} : task'[q] = task[q]
    BY <1>17 DEF CommitLiquidity, Goto, Finish, Idle, TypeOK
  <2> QED
    BY <1>17, <2>1 DEF CommitLiquidity, TasksHaveOwners, ReleasesAreFinal, TypeOK, serverVars, liquidityVars, setVars
<1>18. ASSUME NEW p \in Proposals, LatchOrder(p) PROVE Goal
  <2>1. task[p] # Idle /\ \A q \in Proposals \ {p} : task'[q] = task[q]
    BY <1>18 DEF LatchOrder, Goto, Finish, Idle, TypeOK
  <2> QED
    BY <1>18, <2>1 DEF LatchOrder, TasksHaveOwners, ReleasesAreFinal, TypeOK, serverVars, liquidityVars, setVars
<1>19. ASSUME NEW p \in Proposals, Preconfirm(p) PROVE Goal
  <2>1. task[p] # Idle /\ \A q \in Proposals \ {p} : task'[q] = task[q]
    BY <1>19 DEF Preconfirm, Again, Finish, Idle, TypeOK
  <2> QED
    BY <1>19, <2>1 DEF Preconfirm, TasksHaveOwners, ReleasesAreFinal, TypeOK, serverVars, liquidityVars, setVars
<1>20. ASSUME NEW p \in Proposals, RefuseAtShutdown(p) PROVE Goal
  <2>1. task[p] # Idle /\ \A q \in Proposals \ {p} : task'[q] = task[q]
    BY <1>20 DEF RefuseAtShutdown, Finish, Idle, TypeOK
  <2> QED
    BY <1>20, <2>1 DEF RefuseAtShutdown, TasksHaveOwners, ReleasesAreFinal, TypeOK, serverVars, liquidityVars, setVars
<1>21. ASSUME NEW p \in Proposals, Progress(p) PROVE Goal
  <2>1. task[p] # Idle /\ \A q \in Proposals \ {p} : task'[q] = task[q]
    BY <1>21 DEF Progress, Again, Finish, Idle, TypeOK
  <2> QED
    BY <1>21, <2>1 DEF Progress, TasksHaveOwners, ReleasesAreFinal, TypeOK, serverVars, liquidityVars, setVars
<1>22. ASSUME NEW p \in Proposals, Allocate(p) PROVE Goal
  <2>1. task[p] # Idle /\ \A q \in Proposals \ {p} : task'[q] = task[q]
    BY <1>22 DEF Allocate, Goto, Finish, Idle, TypeOK
  <2> QED
    BY <1>22, <2>1 DEF Allocate, TasksHaveOwners, ReleasesAreFinal, TypeOK, serverVars, liquidityVars, setVars
<1>23. ASSUME NEW p \in Proposals, AllocateReturns(p) PROVE Goal
  <2>1. task[p] # Idle /\ \A q \in Proposals \ {p} : task'[q] = task[q]
    BY <1>23 DEF AllocateReturns, Finish, Idle, TypeOK
  <2> QED
    BY <1>23, <2>1 DEF AllocateReturns, TasksHaveOwners, ReleasesAreFinal, TypeOK, serverVars, liquidityVars, setVars
<1>24. ASSUME NEW p \in Proposals, Waits(p) PROVE Goal
  <2>1. task[p] # Idle /\ \A q \in Proposals \ {p} : task'[q] = task[q]
    BY <1>24 DEF Waits, Finish, Idle, TypeOK
  <2> QED
    BY <1>24, <2>1 DEF Waits, TasksHaveOwners, ReleasesAreFinal, TypeOK, serverVars, liquidityVars, setVars
<1>25. ASSUME NEW p \in Proposals, SeesTerminal(p) PROVE Goal
  <2>1. task[p] # Idle /\ \A q \in Proposals \ {p} : task'[q] = task[q]
    BY <1>25 DEF SeesTerminal, Finish, Idle, TypeOK
  <2> QED
    BY <1>25, <2>1 DEF SeesTerminal, TasksHaveOwners, ReleasesAreFinal, TypeOK, serverVars, liquidityVars, setVars
<1>26. ASSUME NEW p \in Proposals, CollectResult(p) PROVE Goal
  <2>0. /\ task[p] # Idle /\ task'[p] = Idle
        /\ \A q \in Proposals \ {p} : task'[q] = task[q]
        /\ status' = status
    BY <1>26 DEF CollectResult, Idle, TypeOK, serverVars
  <2>1. CASE CollectGoesOn(p)
    BY <2>0, <2>1
    DEF CollectGoesOn, KeepReservations, ReleaseOrphan, Orphaned,
        ReleaseCommitment, Forget, TasksHaveOwners, ReleasesAreFinal, TypeOK
  <2>2. CASE CollectRejected(p)
    BY <2>0, <2>2
    DEF CollectRejected, KeepReservations, ReleaseOrphan, Orphaned,
        ReleaseCommitment, Forget, TasksHaveOwners, ReleasesAreFinal, TypeOK
  <2>3. CASE CollectTerminal(p)
    BY <2>0, <2>3
    DEF CollectTerminal, KeepReservations, ReleaseOrphan, Orphaned,
        ReleaseCommitment, Forget, TasksHaveOwners, ReleasesAreFinal, TypeOK
  <2>4. CASE CollectError(p)
    BY <2>0, <2>4
    DEF CollectError, KeepReservations, ReleaseOrphan, Orphaned,
        ReleaseCommitment, Forget, TasksHaveOwners, ReleasesAreFinal, TypeOK
  <2>5. CASE CollectAbandoned(p)
    BY <2>0, <2>5
    DEF CollectAbandoned, KeepReservations, ReleaseOrphan, Orphaned,
        ReleaseCommitment, Forget, TasksHaveOwners, ReleasesAreFinal, TypeOK
  <2> QED
    BY <1>26, <2>1, <2>2, <2>3, <2>4, <2>5 DEF CollectResult
<1>27. ASSUME NEW p \in Proposals, RunRelease(p) PROVE Goal
  BY <1>27
  DEF RunRelease, TasksHaveOwners, ReleasesAreFinal, TypeOK, serverVars,
      liquidityVars, setVars
<1>28. ASSUME NEW p \in Proposals, AbortTask(p) PROVE Goal
  BY <1>28
  DEF AbortTask, TasksHaveOwners, ReleasesAreFinal, TypeOK, serverVars,
      liquidityVars, setVars
<1>29. CASE Reconcile
  BY <1>29
  DEF Reconcile, Restart, TasksHaveOwners, ReleasesAreFinal, TypeOK,
      serverVars, liquidityVars, setVars
<1>30. CASE Shutdown
  BY <1>30
  DEF Shutdown, Restart, TasksHaveOwners, ReleasesAreFinal, TypeOK,
      serverVars, liquidityVars, setVars
<1>31. CASE SaveAndRestart
  BY <1>31
  DEF SaveAndRestart, Restart, TasksHaveOwners, ReleasesAreFinal, TypeOK,
      serverVars, liquidityVars, setVars
<1>32. CASE Crash
  BY <1>32
  DEF Crash, Restart, TasksHaveOwners, ReleasesAreFinal, TypeOK, serverVars,
      liquidityVars, setVars
<1>33. CASE UNCHANGED vars
  BY <1>33
  DEF vars, TasksHaveOwners, ReleasesAreFinal, serverVars, liquidityVars,
      setVars
<1> QED
  BY <1>1, <1>2, <1>3, <1>4, <1>5, <1>6, <1>7, <1>8, <1>9, <1>10, <1>11,
     <1>12, <1>13, <1>14, <1>15, <1>16, <1>17, <1>18, <1>19, <1>20, <1>21,
     <1>22, <1>23, <1>24, <1>25, <1>26, <1>27, <1>28, <1>29, <1>30, <1>31,
     <1>32, <1>33
  DEF Next, HandleProposal, TaskStep

-----------------------------------------------------------------------------
(* Reservations precede allocations.                                       *)

\* Where a step of a task leaves it.
LEMMA TaskMoves ==
  ASSUME TypeOK, NEW p \in Proposals
  PROVE  /\ \A pc : Goto(p, pc) =>
              /\ task'[p].pc = pc /\ task'[p].act = task[p].act
              /\ \A q \in Proposals \ {p} : task'[q] = task[q]
         /\ \A r : Finish(p, r) =>
              /\ task'[p].pc = "done"
              /\ \A q \in Proposals \ {p} : task'[q] = task[q]
         /\ \A r, s : Again(p, r, s) =>
              /\ task'[p].pc \in {"status", "done"}
              /\ \A q \in Proposals \ {p} : task'[q] = task[q]
         /\ \A a : task' = [task EXCEPT ![p].pc = "check", ![p].act = a] =>
              /\ task'[p].pc = "check"
              /\ \A q \in Proposals \ {p} : task'[q] = task[q]
<1>0. task \in [Proposals -> TaskRecords] /\ task[p] \in TaskRecords
  BY DEF TypeOK
<1>1. ASSUME NEW pc, Goto(p, pc)
      PROVE  /\ task'[p].pc = pc /\ task'[p].act = task[p].act
             /\ \A q \in Proposals \ {p} : task'[q] = task[q]
  BY <1>0, <1>1 DEF Goto, TaskRecords
<1>2. ASSUME NEW r, Finish(p, r)
      PROVE  /\ task'[p].pc = "done"
             /\ \A q \in Proposals \ {p} : task'[q] = task[q]
  BY <1>0, <1>2 DEF Finish, TaskRecords
<1>3. ASSUME NEW r, NEW s, Again(p, r, s)
      PROVE  /\ task'[p].pc \in {"status", "done"}
             /\ \A q \in Proposals \ {p} : task'[q] = task[q]
  BY <1>0, <1>3 DEF Again, Idle
<1>4. ASSUME NEW a, task' = [task EXCEPT ![p].pc = "check", ![p].act = a]
      PROVE  /\ task'[p].pc = "check"
             /\ \A q \in Proposals \ {p} : task'[q] = task[q]
  BY <1>0, <1>4 DEF TaskRecords
<1> QED
  BY <1>1, <1>2, <1>3, <1>4

\* Nothing takes a reservation from a task that is about to allocate: not a
\* stream event, not the reconciler, not a late release.
LEMMA ReservedStep ==
  TypeOK /\ TasksHaveOwners /\ ReleasesAreFinal /\ ReservedToAct /\ [Next]_vars
    => ReservedToAct'
<1> SUFFICES ASSUME TypeOK, TasksHaveOwners, ReleasesAreFinal, ReservedToAct,
                    [Next]_vars
             PROVE  ReservedToAct'
  OBVIOUS
<1>1. ASSUME NEW p \in Proposals, Create(p) PROVE ReservedToAct'
  BY <1>1
  DEF Create, TasksHaveOwners, Idle, ReservedToAct, TypeOK, serverVars,
      trackerVars, liquidityVars
<1>2. ASSUME NEW p \in Proposals, WindowCloses(p) PROVE ReservedToAct'
  BY <1>2
  DEF WindowCloses, ReservedToAct, TypeOK, serverVars, trackerVars,
      liquidityVars
<1>3. ASSUME NEW p \in Proposals, OperatorSettles(p) PROVE ReservedToAct'
  BY <1>3
  DEF OperatorSettles, ReservedToAct, TypeOK, serverVars, trackerVars,
      liquidityVars
<1>4. ASSUME NEW p \in Proposals, ServerCancels(p) PROVE ReservedToAct'
  BY <1>4
  DEF ServerCancels, ReservedToAct, TypeOK, serverVars, trackerVars,
      liquidityVars
<1>5. ASSUME NEW p \in Proposals, AlreadySettled(p) PROVE ReservedToAct'
  BY <1>5
  DEF AlreadySettled, ReservedToAct, TypeOK, serverVars, trackerVars,
      liquidityVars
<1>6. ASSUME NEW p \in Proposals, Refuse(p) PROVE ReservedToAct'
  BY <1>6
  DEF Refuse, RejectProposal, ReservedToAct, TypeOK, serverVars, trackerVars,
      liquidityVars
<1>7. ASSUME NEW p \in Proposals, Adopt(p) PROVE ReservedToAct'
  BY <1>7
  DEF Adopt, RecordSettlementOrder, Offered, Unknown, ReservedToAct, TypeOK,
      serverVars, trackerVars, liquidityVars
<1>8. ASSUME NEW p \in Proposals, AdoptRestored(p) PROVE ReservedToAct'
  BY <1>8
  DEF AdoptRestored, ReservedToAct, TypeOK, serverVars, trackerVars,
      liquidityVars
<1>9. ASSUME NEW p \in Proposals, AbandonRestored(p) PROVE ReservedToAct'
  BY <1>9
  DEF AbandonRestored, MarkFailed, Offered, Unknown, Idle, TasksHaveOwners,
      ReservedToAct, TypeOK, serverVars, trackerVars, liquidityVars
<1>10. ASSUME NEW p \in Proposals, LeaveAlone(p) PROVE ReservedToAct'
  BY <1>10
  DEF LeaveAlone, ReservedToAct, TypeOK, serverVars, trackerVars,
      liquidityVars
<1>11. ASSUME NEW p \in Proposals, AbortV1(p) PROVE ReservedToAct'
  BY <1>11
  DEF AbortV1, MarkFailed, ReservedToAct, TypeOK, serverVars, trackerVars,
      liquidityVars
<1>12. ASSUME NEW p \in Proposals, StreamSettled(p) PROVE ReservedToAct'
  BY <1>12
  DEF StreamSettled, MarkSettled, ReservedToAct, TypeOK, serverVars,
      trackerVars, liquidityVars
<1>13. ASSUME NEW p \in Proposals, StreamFailed(p) PROVE ReservedToAct'
  BY <1>13
  DEF StreamFailed, MarkFailed, ReservedToAct, TypeOK, serverVars,
      trackerVars, liquidityVars
<1>14. ASSUME NEW p \in Proposals, SpawnSettlementTask(p) PROVE ReservedToAct'
  BY <1>14
  DEF SpawnSettlementTask, Idle, ReservedToAct, TypeOK, serverVars,
      trackerVars, liquidityVars
<1>15. ASSUME NEW p \in Proposals, ReadStatus(p) PROVE ReservedToAct'
  <2>1. /\ task'[p].pc \in {"check", "done"}
        /\ \A q \in Proposals \ {p} : task'[q] = task[q]
    BY <1>15, TaskMoves DEF ReadStatus
  <2> QED
    BY <1>15, <2>1
    DEF ReadStatus, ReservedToAct, TypeOK, serverVars, trackerVars,
        liquidityVars
<1>16. ASSUME NEW p \in Proposals, CheckAction(p) PROVE ReservedToAct'
  <2>1. /\ \/ task'[p].pc \in {"done", "reserve"}
           \/ task'[p].pc = "act" /\ task'[p].act \in Unreserved
        /\ \A q \in Proposals \ {p} : task'[q] = task[q]
    BY <1>16, TaskMoves DEF CheckAction
  <2> QED
    BY <1>16, <2>1
    DEF CheckAction, ReservedToAct, TypeOK, serverVars, trackerVars,
        liquidityVars
<1>17. ASSUME NEW p \in Proposals, CommitLiquidity(p) PROVE ReservedToAct'
  <2>1. /\ \/ task'[p].pc = "done" /\ committed' = committed
           \/ task'[p].pc = "latch" /\ committed' = committed \cup {p}
        /\ \A q \in Proposals \ {p} : task'[q] = task[q]
    BY <1>17, TaskMoves DEF CommitLiquidity
  <2> QED
    BY <1>17, <2>1
    DEF CommitLiquidity, ReservedToAct, TypeOK, serverVars, trackerVars,
        liquidityVars
<1>18. ASSUME NEW p \in Proposals, LatchOrder(p) PROVE ReservedToAct'
  <2>0. entry \in [Proposals -> {"none", "recorded", "reserved"}]
    BY DEF TypeOK
  <2>1. CASE Goto(p, "act") /\ entry'[p] = "reserved"
             /\ \A q \in Proposals \ {p} : entry'[q] = entry[q]
    <3>1. \A q \in Proposals \ {p} : task'[q] = task[q]
      BY <2>1, TaskMoves
    <3> QED
      BY <1>18, <2>1, <3>1 DEF LatchOrder, ReservedToAct, serverVars, liquidityVars
  <2>2. CASE Finish(p, "error") /\ entry' = entry
    <3>1. /\ task'[p].pc = "done"
          /\ \A q \in Proposals \ {p} : task'[q] = task[q]
      BY <2>2, TaskMoves
    <3> QED
      BY <1>18, <2>2, <3>1 DEF LatchOrder, ReservedToAct, serverVars, liquidityVars
  <2> QED
    BY <1>18, <2>0, <2>1, <2>2 DEF LatchOrder, TryReservePending, trackerVars
<1>19. ASSUME NEW p \in Proposals, Preconfirm(p) PROVE ReservedToAct'
  <2>1. /\ task'[p].pc \in {"status", "done"}
        /\ \A q \in Proposals \ {p} : task'[q] = task[q]
    BY <1>19, TaskMoves DEF Preconfirm
  <2> QED
    BY <1>19, <2>1
    DEF Preconfirm, ReservedToAct, TypeOK, serverVars, trackerVars,
        liquidityVars
<1>20. ASSUME NEW p \in Proposals, RefuseAtShutdown(p) PROVE ReservedToAct'
  BY <1>20
  DEF RefuseAtShutdown, Finish, MarkFailed, ReservedToAct, TypeOK, serverVars,
      trackerVars, liquidityVars
<1>21. ASSUME NEW p \in Proposals, Progress(p) PROVE ReservedToAct'
  <2>1. /\ task'[p].pc \in {"status", "done"}
        /\ \A q \in Proposals \ {p} : task'[q] = task[q]
    BY <1>21, TaskMoves DEF Progress
  <2> QED
    BY <1>21, <2>1
    DEF Progress, ReservedToAct, TypeOK, serverVars, trackerVars,
        liquidityVars
<1>22. ASSUME NEW p \in Proposals, Allocate(p) PROVE ReservedToAct'
  <2>1. /\ \/ task'[p].pc = "done"
           \/ task[p].pc = "act" /\ task[p].act \notin Unreserved
        /\ \A q \in Proposals \ {p} : task'[q] = task[q]
    BY <1>22, TaskMoves DEF Allocate, Unreserved
  <2> QED
    BY <1>22, <2>1
    DEF Allocate, ReservedToAct, TypeOK, serverVars, trackerVars,
        liquidityVars
<1>23. ASSUME NEW p \in Proposals, AllocateReturns(p) PROVE ReservedToAct'
  BY <1>23
  DEF AllocateReturns, Finish, ReservedToAct, TypeOK, serverVars, trackerVars,
      liquidityVars
<1>24. ASSUME NEW p \in Proposals, Waits(p) PROVE ReservedToAct'
  BY <1>24
  DEF Waits, Finish, ReservedToAct, TypeOK, serverVars, trackerVars,
      liquidityVars
<1>25. ASSUME NEW p \in Proposals, SeesTerminal(p) PROVE ReservedToAct'
  BY <1>25
  DEF SeesTerminal, Finish, MarkSettled, MarkFailed, ReservedToAct, TypeOK,
      serverVars, trackerVars, liquidityVars
<1>26. ASSUME NEW p \in Proposals, CollectResult(p) PROVE ReservedToAct'
  <2>1. /\ task'[p].pc = "idle" /\ status' = status /\ committed' = committed
        /\ \A q \in Proposals \ {p} : task'[q] = task[q]
    BY <1>26 DEF CollectResult, Idle, TypeOK, serverVars
  <2>2. trackerVars' = trackerVars \/ MarkFailed(p)
    BY <1>26 DEF CollectResult, CollectGoesOn, CollectRejected, CollectTerminal,
       CollectError, CollectAbandoned, KeepReservations, ReleaseOrphan
  <2>3. \A q \in Proposals \ {p} : entry'[q] = entry[q]
    BY <2>2 DEF MarkFailed, trackerVars, TypeOK
  <2> QED
    BY <2>1, <2>3 DEF ReservedToAct
<1>27. ASSUME NEW p \in Proposals, RunRelease(p) PROVE ReservedToAct'
  BY <1>27
  DEF RunRelease, TasksHaveOwners, ReleasesAreFinal, Idle, ReservedToAct,
      TypeOK, serverVars, trackerVars, liquidityVars
<1>28. ASSUME NEW p \in Proposals, AbortTask(p) PROVE ReservedToAct'
  BY <1>28
  DEF AbortTask, Idle, ReservedToAct, TypeOK, serverVars, trackerVars,
      liquidityVars
<1>29. CASE Reconcile
  BY <1>29
  DEF Reconcile, Restart, TasksHaveOwners, Idle, ReservedToAct, TypeOK,
      serverVars, trackerVars, liquidityVars
<1>30. CASE Shutdown
  BY <1>30
  DEF Shutdown, Restart, Idle, ReservedToAct, TypeOK, serverVars, trackerVars,
      liquidityVars
<1>31. CASE SaveAndRestart
  BY <1>31
  DEF SaveAndRestart, Restart, Idle, ReservedToAct, TypeOK, serverVars,
      trackerVars, liquidityVars
<1>32. CASE Crash
  BY <1>32
  DEF Crash, Restart, Idle, ReservedToAct, TypeOK, serverVars, trackerVars,
      liquidityVars
<1>33. CASE UNCHANGED vars
  BY <1>33
  DEF vars, ReservedToAct, serverVars, trackerVars, liquidityVars
<1> QED
  BY <1>1, <1>2, <1>3, <1>4, <1>5, <1>6, <1>7, <1>8, <1>9, <1>10, <1>11,
     <1>12, <1>13, <1>14, <1>15, <1>16, <1>17, <1>18, <1>19, <1>20, <1>21,
     <1>22, <1>23, <1>24, <1>25, <1>26, <1>27, <1>28, <1>29, <1>30, <1>31,
     <1>32, <1>33
  DEF Next, HandleProposal, TaskStep

\* What a step adds to the ledger comes from a task that waits in the queue.
LEMMA AllocationEffects ==
  ASSUME Next, NEW q \in allocated' \ allocated
  PROVE  q \in Proposals /\ task[q].pc = "allocating" /\ CanAllocate(q)
<1> DEFINE Goal == q \in Proposals /\ task[q].pc = "allocating" /\ CanAllocate(q)
<1>1. ASSUME NEW p \in Proposals, Create(p) PROVE Goal
  BY <1>1 DEF Create, serverVars
<1>2. ASSUME NEW p \in Proposals, WindowCloses(p) PROVE Goal
  BY <1>2 DEF WindowCloses, serverVars
<1>3. ASSUME NEW p \in Proposals, OperatorSettles(p) PROVE Goal
  BY <1>3 DEF OperatorSettles, serverVars
<1>4. ASSUME NEW p \in Proposals, ServerCancels(p) PROVE Goal
  BY <1>4 DEF ServerCancels, serverVars
<1>5. ASSUME NEW p \in Proposals, AlreadySettled(p) PROVE Goal
  BY <1>5 DEF AlreadySettled, serverVars
<1>6. ASSUME NEW p \in Proposals, Refuse(p) PROVE Goal
  BY <1>6 DEF Refuse, RejectProposal, serverVars
<1>7. ASSUME NEW p \in Proposals, Adopt(p) PROVE Goal
  BY <1>7 DEF Adopt, serverVars
<1>8. ASSUME NEW p \in Proposals, AdoptRestored(p) PROVE Goal
  BY <1>8 DEF AdoptRestored, serverVars
<1>9. ASSUME NEW p \in Proposals, AbandonRestored(p) PROVE Goal
  BY <1>9 DEF AbandonRestored, serverVars
<1>10. ASSUME NEW p \in Proposals, LeaveAlone(p) PROVE Goal
  BY <1>10 DEF LeaveAlone, serverVars
<1>11. ASSUME NEW p \in Proposals, AbortV1(p) PROVE Goal
  BY <1>11 DEF AbortV1, serverVars
<1>12. ASSUME NEW p \in Proposals, StreamSettled(p) PROVE Goal
  BY <1>12 DEF StreamSettled, serverVars
<1>13. ASSUME NEW p \in Proposals, StreamFailed(p) PROVE Goal
  BY <1>13 DEF StreamFailed, serverVars
<1>14. ASSUME NEW p \in Proposals, SpawnSettlementTask(p) PROVE Goal
  BY <1>14 DEF SpawnSettlementTask, serverVars
<1>15. ASSUME NEW p \in Proposals, ReadStatus(p) PROVE Goal
  BY <1>15 DEF ReadStatus, serverVars
<1>16. ASSUME NEW p \in Proposals, CheckAction(p) PROVE Goal
  BY <1>16 DEF CheckAction, serverVars
<1>17. ASSUME NEW p \in Proposals, CommitLiquidity(p) PROVE Goal
  BY <1>17 DEF CommitLiquidity, serverVars
<1>18. ASSUME NEW p \in Proposals, LatchOrder(p) PROVE Goal
  BY <1>18 DEF LatchOrder, serverVars
<1>19. ASSUME NEW p \in Proposals, Preconfirm(p) PROVE Goal
  BY <1>19 DEF Preconfirm, serverVars
<1>20. ASSUME NEW p \in Proposals, RefuseAtShutdown(p) PROVE Goal
  BY <1>20 DEF RefuseAtShutdown, serverVars
<1>21. ASSUME NEW p \in Proposals, Progress(p) PROVE Goal
  BY <1>21 DEF Progress, serverVars
<1>22. ASSUME NEW p \in Proposals, Allocate(p) PROVE Goal
  BY <1>22 DEF Allocate, serverVars
<1>23. ASSUME NEW p \in Proposals, AllocateReturns(p) PROVE Goal
  BY <1>23 DEF AllocateReturns, serverVars
<1>24. ASSUME NEW p \in Proposals, Waits(p) PROVE Goal
  BY <1>24 DEF Waits, serverVars
<1>25. ASSUME NEW p \in Proposals, SeesTerminal(p) PROVE Goal
  BY <1>25 DEF SeesTerminal, serverVars
<1>26. ASSUME NEW p \in Proposals, CollectResult(p) PROVE Goal
  BY <1>26 DEF CollectResult, serverVars
<1>27. ASSUME NEW p \in Proposals, RunRelease(p) PROVE Goal
  BY <1>27 DEF RunRelease, serverVars
<1>28. ASSUME NEW p \in Proposals, AbortTask(p) PROVE Goal
  BY <1>28 DEF AbortTask, LateAllocations, serverVars
<1>29. CASE Reconcile
  BY <1>29 DEF Reconcile, LateAllocations, serverVars
<1>30. CASE Shutdown
  BY <1>30 DEF Shutdown, LateAllocations, serverVars
<1>31. CASE SaveAndRestart
  BY <1>31 DEF SaveAndRestart, LateAllocations, serverVars
<1>32. CASE Crash
  BY <1>32 DEF Crash, LateAllocations, serverVars
<1> QED
  BY <1>1, <1>2, <1>3, <1>4, <1>5, <1>6, <1>7, <1>8, <1>9, <1>10, <1>11,
     <1>12, <1>13, <1>14, <1>15, <1>16, <1>17, <1>18, <1>19, <1>20, <1>21,
     <1>22, <1>23, <1>24, <1>25, <1>26, <1>27, <1>28, <1>29, <1>30, <1>31,
     <1>32
  DEF Next, HandleProposal, TaskStep

-----------------------------------------------------------------------------
(* The theorems.                                                           *)

\* The first session starts with empty accounts and no task.
LEMMA InitInv == Init => IInv
<1> SUFFICES ASSUME Init PROVE IInv
  OBVIOUS
<1>1. ReservedIn(entry) = {} /\ ReservedIn(saved.entry) = {}
  BY OrdersAssumption DEF OrdersAssumption, Init, EmptyFile, ReservedIn
<1>2. AccountsAddUp
  <2>1. pendingQty = 0 /\ settledQty = 0 /\ saved.pendingQty = 0 /\ saved.settledQty = 0
    BY DEF Init, EmptyFile
  <2>2. PendingAddsUp
    BY <1>1, <2>1, FS_EmptySet DEF PendingAddsUp, ReservedIn
  <2> QED
    BY <1>1, <2>1, <2>2, FS_EmptySet, BoundsAssumption
    DEF BoundsAssumption, AccountsAddUp, NotOversold
<1>3. FundsNotOvercommitted
  BY FS_EmptySet, BoundsAssumption DEF BoundsAssumption, FundsNotOvercommitted, Init
<1>4. TasksHaveOwners /\ ReleasesAreFinal
  BY DEF Init, TasksHaveOwners, ReleasesAreFinal
<1>5. ReservedToAct
  BY DEF Init, ReservedToAct, Idle
<1> QED
  BY <1>2, <1>3, <1>4, <1>5, InitType DEF IInv

\* The inductive invariant holds of the executor in every state.
THEOREM Invariance == Spec => []IInv
<1>1. IInv /\ [Next]_vars => IInv'
  BY TypeStep, AccountsStep, FundsStep, OwnersStep, ReservedStep DEF IInv
<1> QED
  BY InitInv, <1>1, PTL DEF Spec

\* Every variable of the executor keeps its type, and retries their limit.
THEOREM TypeCorrect == Spec => []TypeOK
<1>1. IInv => TypeOK
  BY DEF IInv
<1> QED
  BY Invariance, <1>1, PTL

\* The order tracker's pending_quantity is the sum of what is reserved, through
\* stream events, task results, restarts and crashes, for any set of proposals.
THEOREM ReservationsAddUp == Spec => []PendingAddsUp
<1>1. IInv => PendingAddsUp
  BY DEF IInv, AccountsAddUp
<1> QED
  BY Invariance, <1>1, PTL

\* What is reserved and settled never exceeds the order, however many proposals
\* were adopted for it while nothing was reserved.
THEOREM NeverOversold == Spec => []NotOversold
<1>1. IInv => NotOversold
  BY DEF IInv, AccountsAddUp
<1> QED
  BY Invariance, <1>1, PTL

\* Commitments never exceed the balance, whatever the number of permits.
THEOREM FundsSuffice == Spec => []FundsNotOvercommitted
<1>1. IInv => FundsNotOvercommitted
  BY DEF IInv
<1> QED
  BY Invariance, <1>1, PTL

\* No allocation reaches the ledger without both reservations, not even one
\* whose task was aborted or whose process died before it answered.
THEOREM AllocatesReserved == Spec => ReservedBeforeAllocating
<1> DEFINE Step == \A p \in allocated' \ allocated : entry[p] = "reserved" /\ p \in committed
<1>1. IInv /\ [Next]_vars => [Step]_vars
  <2> SUFFICES ASSUME IInv, Next, NEW q \in allocated' \ allocated
               PROVE  entry[q] = "reserved" /\ q \in committed
    OBVIOUS
  <2>1. q \in Proposals /\ task[q].pc = "allocating" /\ status[q] = "pending"
    BY AllocationEffects DEF CanAllocate
  <2> QED
    BY <2>1 DEF IInv, ReservedToAct
<1> QED
  BY Invariance, <1>1, PTL DEF Spec, ReservedBeforeAllocating

-----------------------------------------------------------------------------
(* What a task was told, and what becomes of a reservation.                *)

\* A task on its way from an answer of the server to the step it asks for
Deciding == {"check", "reserve", "latch", "act"}
Over == {"NoneSettled", "NoneFailed"}

\* Only its own task allocates for a settlement, so an answer that calls for a step
\* still stands when the step is taken, and one that gives it up gives up nothing that
\* could settle.
AnswersOK ==
  \A p \in Proposals :
    /\ task[p].pc \in Deciding =>
         /\ task[p].act \notin Over \cup {"Wait"} => p \notin allocated
         /\ task[p].act = "NoneFailed" => status[p] = "failed"
         /\ task[p].act = "NoneSettled" => status[p] = "settled"
    /\ task[p].pc = "allocating" => p \notin allocated
    /\ task[p].pc = "check" /\ age[p] = "expired" /\ task[p].act \notin Over =>
         status[p] # "settled"
    /\ task[p].pc = "done" /\ task[p].result = "permanent" => ~ Live(p)
    /\ status[p] = "failed" => p \notin allocated

\* A task that outlives its settlement, or has seen it end, has no order reserved.
OrphansOK ==
  \A p \in Proposals :
    /\ task[p] # Idle /\ p \notin active => entry[p] = "none"
    /\ task[p].pc = "done" /\ task[p].result \in {"rejected", "terminal"} => entry[p] = "none"

\* Who releases what is reserved, here and in the state file
OwnedOK ==
  /\ \A p \in Proposals :
       p \in committed => p \in active \/ p \in releasing \/ task[p] # Idle \/ shutting
  /\ TRUE \notin Modes =>
       /\ ~ v2only
       /\ \A p \in Proposals :
            /\ entry[p] # "none" => p \in active \/ (restarts > 0 /\ p \notin rejected)
            /\ saved.entry[p] # "none" => p \notin saved.rejected

\* An allocation that may still settle has its lot reserved, or counted as settled.
Unbacked(p) == Live(p) /\ entry[p] # "reserved"
CountedOK == Cardinality({p \in Orders : Unbacked(p)}) <= settledQty

\* Where that can change: a settled lot leaves pending_quantity for settled_quantity.
SettledStep ==
  \/ /\ settledQty' = settledQty
     /\ \A q \in Orders : Unbacked(q)' => Unbacked(q)
  \/ \E p \in Orders :
       /\ settledQty' = settledQty + 1
       /\ \A q \in Orders \ {p} : Unbacked(q)' => Unbacked(q)

\* What a step makes of its task, and of nobody else's
Others(p) == \A q \in Proposals : q # p => task'[q] = task[q]

LEMMA GotoMoves ==
  ASSUME TypeOK, NEW p \in Proposals, NEW pc, Goto(p, pc)
  PROVE  task'[p].pc = pc /\ task'[p].act = task[p].act /\ Others(p)
<1>1. task \in [Proposals -> TaskRecords] /\ task[p] \in TaskRecords
  BY DEF TypeOK
<1> QED
  BY <1>1 DEF Goto, TaskRecords, Others

LEMMA FinishMoves ==
  ASSUME TypeOK, NEW p \in Proposals, NEW r, Finish(p, r)
  PROVE  task'[p].pc = "done" /\ task'[p].result = r /\ Others(p)
<1>1. task \in [Proposals -> TaskRecords] /\ task[p] \in TaskRecords
  BY DEF TypeOK
<1> QED
  BY <1>1 DEF Finish, TaskRecords, Others

LEMMA AgainMoves ==
  ASSUME TypeOK, NEW p \in Proposals, NEW r, NEW s, Again(p, r, s)
  PROVE  /\ task'[p].pc = "status" \/ (task'[p].pc = "done" /\ task'[p].result = r)
         /\ Others(p)
<1>1. task \in [Proposals -> TaskRecords] /\ task[p] \in TaskRecords
  BY DEF TypeOK
<1> QED
  BY <1>1 DEF Again, Idle, Others

\* What a step of a task needs, and what it leaves
LEMMA TaskSteps ==
  ASSUME TypeOK, NEW p \in Proposals
  PROVE  /\ ReadStatus(p) =>
              /\ task[p].pc = "status" /\ Others(p)
              /\ (task'[p].pc = "check" /\ task'[p].act \in Asked(p))
                 \/ (task'[p].pc = "done" /\ task'[p].result = "error")
         /\ CheckAction(p) =>
              /\ task[p].pc = "check" /\ Others(p)
              /\ (task'[p].pc \in {"act", "reserve"} /\ task'[p].act = task[p].act)
                 \/ (task'[p].pc = "done" /\ task'[p].result = "permanent")
         /\ CommitLiquidity(p) =>
              /\ task[p].pc = "reserve" /\ Others(p)
              /\ (task'[p].pc = "latch" /\ task'[p].act = task[p].act)
                 \/ (task'[p].pc = "done" /\ task'[p].result = "error")
         /\ LatchOrder(p) =>
              /\ task[p].pc = "latch" /\ Others(p)
              /\ (task'[p].pc = "act" /\ task'[p].act = task[p].act)
                 \/ (task'[p].pc = "done" /\ task'[p].result = "error")
         /\ Preconfirm(p) =>
              /\ task[p].pc = "act" /\ Others(p)
              /\ task'[p].pc = "status"
                 \/ (task'[p].pc = "done" /\ task'[p].result \in {"error", "preconfirmed"})
         /\ RefuseAtShutdown(p) =>
              /\ task[p].pc = "act" /\ task[p].act = "Preconfirm" /\ Others(p)
              /\ task'[p].pc = "done" /\ task'[p].result = "rejected"
         /\ Progress(p) =>
              /\ task[p].pc = "act" /\ Others(p)
              /\ (task'[p].pc = "status"
                 \/ (task'[p].pc = "done" /\ task'[p].result = "stepped"))
                    \/ (task[p].act \in {"CreateDvp", "AcceptDvp"} /\ task'[p].pc = "done"
                         /\ task'[p].result \in Errors)
         /\ Allocate(p) =>
              /\ task[p].pc = "act" /\ task[p].act = "Allocate" /\ Others(p)
              /\ task'[p].pc = "allocating"
                 \/ (task'[p].pc = "done" /\ task'[p].result \in {"wait", "transient"})
         /\ AllocateReturns(p) =>
              /\ task[p].pc = "allocating" /\ Others(p)
              /\ task'[p].pc = "done" /\ task'[p].result \in Errors \cup {"stepped"}
         /\ Waits(p) =>
              /\ task[p].pc = "act" /\ Others(p)
              /\ task'[p].pc = "done" /\ task'[p].result = "wait"
         /\ SeesTerminal(p) =>
              /\ task[p].pc = "act" /\ task[p].act \in Over /\ Others(p)
              /\ task'[p].pc = "done" /\ task'[p].result = "terminal"
<1>1. ASSUME ReadStatus(p)
      PROVE  /\ task[p].pc = "status" /\ Others(p)
             /\ (task'[p].pc = "check" /\ task'[p].act \in Asked(p))
                \/ (task'[p].pc = "done" /\ task'[p].result = "error")
  <2>1. task \in [Proposals -> TaskRecords] /\ task[p] \in TaskRecords
    BY DEF TypeOK
  <2>2. ASSUME NEW a \in Asked(p), task' = [task EXCEPT ![p].pc = "check", ![p].act = a]
        PROVE  task'[p].pc = "check" /\ task'[p].act = a /\ Others(p)
    BY <2>1, <2>2 DEF TaskRecords, Others
  <2> QED
    BY <1>1, <2>2, FinishMoves DEF ReadStatus
<1>2. ASSUME CheckAction(p)
      PROVE  /\ task[p].pc = "check" /\ Others(p)
             /\ (task'[p].pc \in {"act", "reserve"} /\ task'[p].act = task[p].act)
                \/ (task'[p].pc = "done" /\ task'[p].result = "permanent")
  <2>1. task[p].pc = "check"
    BY <1>2 DEF CheckAction
  <2>2. Others(p)
    BY <1>2, FinishMoves, GotoMoves DEF CheckAction
  <2>3. (task'[p].pc \in {"act", "reserve"} /\ task'[p].act = task[p].act)
          \/ (task'[p].pc = "done" /\ task'[p].result = "permanent")
    BY <1>2, FinishMoves, GotoMoves DEF CheckAction
  <2> QED
    BY <2>1, <2>2, <2>3
<1>3. ASSUME CommitLiquidity(p)
      PROVE  /\ task[p].pc = "reserve" /\ Others(p)
             /\ (task'[p].pc = "latch" /\ task'[p].act = task[p].act)
                \/ (task'[p].pc = "done" /\ task'[p].result = "error")
  <2>1. task[p].pc = "reserve"
    BY <1>3 DEF CommitLiquidity
  <2>2. Others(p)
    BY <1>3, FinishMoves, GotoMoves DEF CommitLiquidity
  <2>3. (task'[p].pc = "latch" /\ task'[p].act = task[p].act)
          \/ (task'[p].pc = "done" /\ task'[p].result = "error")
    BY <1>3, FinishMoves, GotoMoves DEF CommitLiquidity
  <2> QED
    BY <2>1, <2>2, <2>3
<1>4. ASSUME LatchOrder(p)
      PROVE  /\ task[p].pc = "latch" /\ Others(p)
             /\ (task'[p].pc = "act" /\ task'[p].act = task[p].act)
                \/ (task'[p].pc = "done" /\ task'[p].result = "error")
  <2>1. task[p].pc = "latch"
    BY <1>4 DEF LatchOrder
  <2>2. Others(p)
    BY <1>4, FinishMoves, GotoMoves DEF LatchOrder
  <2>3. (task'[p].pc = "act" /\ task'[p].act = task[p].act)
          \/ (task'[p].pc = "done" /\ task'[p].result = "error")
    BY <1>4, FinishMoves, GotoMoves DEF LatchOrder
  <2> QED
    BY <2>1, <2>2, <2>3
<1>5. ASSUME Preconfirm(p)
      PROVE  /\ task[p].pc = "act" /\ Others(p)
             /\ task'[p].pc = "status"
                \/ (task'[p].pc = "done" /\ task'[p].result \in {"error", "preconfirmed"})
  <2>1. task[p].pc = "act"
    BY <1>5 DEF Preconfirm
  <2>2. Others(p)
    BY <1>5, FinishMoves, AgainMoves DEF Preconfirm
  <2>3. task'[p].pc = "status"
          \/ (task'[p].pc = "done" /\ task'[p].result \in {"error", "preconfirmed"})
    BY <1>5, FinishMoves, AgainMoves DEF Preconfirm
  <2> QED
    BY <2>1, <2>2, <2>3
<1>6. ASSUME RefuseAtShutdown(p)
      PROVE  /\ task[p].pc = "act" /\ task[p].act = "Preconfirm" /\ Others(p)
             /\ task'[p].pc = "done" /\ task'[p].result = "rejected"
  <2>1. task[p].pc = "act" /\ task[p].act = "Preconfirm"
    BY <1>6 DEF RefuseAtShutdown
  <2>2. Others(p)
    BY <1>6, FinishMoves, GotoMoves DEF RefuseAtShutdown
  <2>3. task'[p].pc = "done" /\ task'[p].result = "rejected"
    BY <1>6, FinishMoves, GotoMoves DEF RefuseAtShutdown
  <2> QED
    BY <2>1, <2>2, <2>3
<1>7. ASSUME Progress(p)
      PROVE  /\ task[p].pc = "act" /\ Others(p)
             /\ (task'[p].pc = "status"
                \/ (task'[p].pc = "done" /\ task'[p].result = "stepped"))
                    \/ (task[p].act \in {"CreateDvp", "AcceptDvp"} /\ task'[p].pc = "done"
                         /\ task'[p].result \in Errors)
  <2>1. task[p].pc = "act"
    BY <1>7 DEF Progress
  <2>2. Others(p)
    BY <1>7, FinishMoves, AgainMoves DEF Progress
  <2>3. (task'[p].pc = "status" \/ (task'[p].pc = "done" /\ task'[p].result = "stepped"))
                    \/ (task[p].act \in {"CreateDvp", "AcceptDvp"} /\ task'[p].pc = "done"
                         /\ task'[p].result \in Errors)
    BY <1>7, FinishMoves, AgainMoves DEF Progress
  <2> QED
    BY <2>1, <2>2, <2>3
<1>8. ASSUME Allocate(p)
      PROVE  /\ task[p].pc = "act" /\ task[p].act = "Allocate" /\ Others(p)
             /\ task'[p].pc = "allocating"
                \/ (task'[p].pc = "done" /\ task'[p].result \in {"wait", "transient"})
  <2>1. task[p].pc = "act" /\ task[p].act = "Allocate"
    BY <1>8 DEF Allocate
  <2>2. Others(p)
    BY <1>8, FinishMoves, GotoMoves DEF Allocate
  <2>3. task'[p].pc = "allocating"
          \/ (task'[p].pc = "done" /\ task'[p].result \in {"wait", "transient"})
    BY <1>8, FinishMoves, GotoMoves DEF Allocate
  <2> QED
    BY <2>1, <2>2, <2>3
<1>9. ASSUME AllocateReturns(p)
      PROVE  /\ task[p].pc = "allocating" /\ Others(p)
             /\ task'[p].pc = "done" /\ task'[p].result \in Errors \cup {"stepped"}
  <2>1. task \in [Proposals -> TaskRecords] /\ task[p] \in TaskRecords
    BY DEF TypeOK
  <2>2. ASSUME task' = [task EXCEPT ![p].pc = "done", ![p].stage = "Allocated",
                                    ![p].result = "stepped"]
        PROVE  task'[p].pc = "done" /\ task'[p].result = "stepped" /\ Others(p)
    BY <2>1, <2>2 DEF TaskRecords, Others
  <2> QED
    BY <1>9, <2>2, FinishMoves DEF AllocateReturns, Errors
<1>10. ASSUME Waits(p)
      PROVE  /\ task[p].pc = "act" /\ Others(p)
             /\ task'[p].pc = "done" /\ task'[p].result = "wait"
  <2>1. task[p].pc = "act"
    BY <1>10 DEF Waits
  <2>2. Others(p)
    BY <1>10, FinishMoves, GotoMoves DEF Waits
  <2>3. task'[p].pc = "done" /\ task'[p].result = "wait"
    BY <1>10, FinishMoves, GotoMoves DEF Waits
  <2> QED
    BY <2>1, <2>2, <2>3
<1>11. ASSUME SeesTerminal(p)
      PROVE  /\ task[p].pc = "act" /\ task[p].act \in Over /\ Others(p)
             /\ task'[p].pc = "done" /\ task'[p].result = "terminal"
  <2>1. task[p].pc = "act" /\ task[p].act \in Over
    BY <1>11 DEF SeesTerminal, Over
  <2>2. Others(p)
    BY <1>11, FinishMoves, GotoMoves DEF SeesTerminal
  <2>3. task'[p].pc = "done" /\ task'[p].result = "terminal"
    BY <1>11, FinishMoves, GotoMoves DEF SeesTerminal
  <2> QED
    BY <2>1, <2>2, <2>3
<1> QED
  BY <1>1, <1>2, <1>3, <1>4, <1>5, <1>6, <1>7, <1>8, <1>9, <1>10, <1>11

\* Stream events, task results, releases and restarts leave nothing behind.
LEMMA OwnedStep ==
  ASSUME IInv, OrphansOK, OwnedOK, [Next]_vars
  PROVE  OrphansOK' /\ OwnedOK'
<1> USE DEF serverVars, trackerVars, liquidityVars, setVars, sessionVars
<1>t. TypeOK BY DEF IInv
<1>o. TasksHaveOwners BY DEF IInv
<1>n. OrphansOK OBVIOUS
<1>w. OwnedOK OBVIOUS
<1>1. ASSUME NEW p \in Proposals, Create(p) PROVE OrphansOK' /\ OwnedOK'
  <2>e. /\ UNCHANGED <<entry, committed, releasing, active, completed, rejected, task,
                       shutting, v2only, saved, restarts>>
    BY <1>t, <1>1 DEF TypeOK, Create
  <2>1. OrphansOK'
    BY <1>n, <2>e DEF OrphansOK
  <2>2. OwnedOK'
    BY <1>w, <2>e DEF OwnedOK
  <2> QED BY <2>1, <2>2
<1>2. ASSUME NEW p \in Proposals, WindowCloses(p) PROVE OrphansOK' /\ OwnedOK'
  <2>e. /\ UNCHANGED <<entry, committed, releasing, active, completed, rejected, task,
                       shutting, v2only, saved, restarts>>
    BY <1>t, <1>2 DEF TypeOK, WindowCloses
  <2>1. OrphansOK'
    BY <1>n, <2>e DEF OrphansOK
  <2>2. OwnedOK'
    BY <1>w, <2>e DEF OwnedOK
  <2> QED BY <2>1, <2>2
<1>3. ASSUME NEW p \in Proposals, OperatorSettles(p) PROVE OrphansOK' /\ OwnedOK'
  <2>e. /\ UNCHANGED <<entry, committed, releasing, active, completed, rejected, task,
                       shutting, v2only, saved, restarts>>
    BY <1>t, <1>3 DEF TypeOK, OperatorSettles
  <2>1. OrphansOK'
    BY <1>n, <2>e DEF OrphansOK
  <2>2. OwnedOK'
    BY <1>w, <2>e DEF OwnedOK
  <2> QED BY <2>1, <2>2
<1>4. ASSUME NEW p \in Proposals, ServerCancels(p) PROVE OrphansOK' /\ OwnedOK'
  <2>e. /\ UNCHANGED <<entry, committed, releasing, active, completed, rejected, task,
                       shutting, v2only, saved, restarts>>
    BY <1>t, <1>4 DEF TypeOK, ServerCancels
  <2>1. OrphansOK'
    BY <1>n, <2>e DEF OrphansOK
  <2>2. OwnedOK'
    BY <1>w, <2>e DEF OwnedOK
  <2> QED BY <2>1, <2>2
<1>5. ASSUME NEW p \in Proposals, AlreadySettled(p) PROVE OrphansOK' /\ OwnedOK'
  <2>e. /\ p \notin active \cup completed \cup rejected
        /\ completed' = completed \cup {p}
        /\ UNCHANGED <<entry, committed, releasing, active, rejected, task, shutting, v2only,
                       saved, restarts>>
    BY <1>t, <1>5 DEF TypeOK, AlreadySettled, Offered, Unknown
  <2>1. OrphansOK'
    BY <1>n, <2>e DEF OrphansOK
  <2>2. OwnedOK'
    BY <1>w, <2>e DEF OwnedOK
  <2> QED BY <2>1, <2>2
<1>6. ASSUME NEW p \in Proposals, Refuse(p) PROVE OrphansOK' /\ OwnedOK'
  <2>e. /\ p \notin active \cup completed \cup rejected
        /\ entry[p] = "none"
        /\ rejected' \in {rejected, rejected \cup {p}}
        /\ UNCHANGED <<entry, committed, releasing, active, completed, task, shutting, v2only,
                       saved, restarts>>
    BY <1>t, <1>6 DEF TypeOK, Refuse, RejectProposal, Offered, Unknown
  <2>1. OrphansOK'
    BY <1>n, <2>e DEF OrphansOK
  <2>2. OwnedOK'
    BY <1>w, <2>e DEF OwnedOK
  <2> QED BY <2>1, <2>2
<1>7. ASSUME NEW p \in Proposals, Adopt(p) PROVE OrphansOK' /\ OwnedOK'
  <2>e. /\ p \notin active \cup completed \cup rejected
        /\ active' = active \cup {p}
        /\ \A q \in Proposals : q # p => entry'[q] = entry[q]
        /\ UNCHANGED <<committed, releasing, completed, rejected, task, shutting, v2only,
                       saved, restarts>>
    BY <1>t, <1>7 DEF TypeOK, Adopt, Offered, Unknown, RecordSettlementOrder
  <2>1. OrphansOK'
    BY <1>n, <1>o, <2>e DEF OrphansOK, TasksHaveOwners, Idle
  <2>2. OwnedOK'
    BY <1>w, <2>e DEF OwnedOK
  <2> QED BY <2>1, <2>2
<1>8. ASSUME NEW p \in Proposals, AdoptRestored(p) PROVE OrphansOK' /\ OwnedOK'
  <2>e. /\ p \notin active \cup completed \cup rejected
        /\ active' = active \cup {p}
        /\ UNCHANGED <<entry, committed, releasing, completed, rejected, task, shutting,
                       v2only, saved, restarts>>
    BY <1>t, <1>8 DEF TypeOK, AdoptRestored, Offered, Unknown
  <2>1. OrphansOK'
    BY <1>n, <2>e DEF OrphansOK
  <2>2. OwnedOK'
    BY <1>w, <2>e DEF OwnedOK
  <2> QED BY <2>1, <2>2
<1>9. ASSUME NEW p \in Proposals, AbandonRestored(p) PROVE OrphansOK' /\ OwnedOK'
  <2>e. /\ p \notin active \cup completed \cup rejected
        /\ entry'[p] = "none" /\ \A q \in Proposals : q # p => entry'[q] = entry[q]
        /\ rejected' = rejected \cup {p}
        /\ UNCHANGED <<committed, releasing, active, completed, task, shutting, v2only, saved,
                       restarts>>
    BY <1>t, <1>9 DEF TypeOK, AbandonRestored, Offered, Unknown, MarkFailed
  <2>1. OrphansOK'
    BY <1>n, <2>e DEF OrphansOK
  <2>2. OwnedOK'
    BY <1>w, <2>e DEF OwnedOK
  <2> QED BY <2>1, <2>2
<1>10. ASSUME NEW p \in Proposals, LeaveAlone(p) PROVE OrphansOK' /\ OwnedOK'
  <2>e. /\ p \notin active \cup completed \cup rejected
        /\ v2only
        /\ rejected' = rejected \cup {p}
        /\ UNCHANGED <<entry, committed, releasing, active, completed, task, shutting, v2only,
                       saved, restarts>>
    BY <1>t, <1>10 DEF TypeOK, LeaveAlone, Offered, Unknown
  <2>1. OrphansOK'
    BY <1>n, <2>e DEF OrphansOK
  <2>2. OwnedOK'
    BY <1>w, <2>e DEF OwnedOK
  <2> QED BY <2>1, <2>2
<1>11. ASSUME NEW p \in Proposals, AbortV1(p) PROVE OrphansOK' /\ OwnedOK'
  <2>e. /\ p \notin active \cup completed \cup rejected
        /\ entry'[p] = "none" /\ \A q \in Proposals : q # p => entry'[q] = entry[q]
        /\ rejected' = rejected \cup {p}
        /\ UNCHANGED <<committed, releasing, active, completed, task, shutting, v2only, saved,
                       restarts>>
    BY <1>t, <1>11 DEF TypeOK, AbortV1, Offered, Unknown, MarkFailed
  <2>1. OrphansOK'
    BY <1>n, <2>e DEF OrphansOK
  <2>2. OwnedOK'
    BY <1>w, <2>e DEF OwnedOK
  <2> QED BY <2>1, <2>2
<1>12. ASSUME NEW p \in Proposals, StreamSettled(p) PROVE OrphansOK' /\ OwnedOK'
  <2>e. /\ entry'[p] = "none" /\ \A q \in Proposals : q # p => entry'[q] = entry[q]
        /\ active' = active \ {p}
        /\ releasing' = releasing \cup {p}
        /\ completed' = completed \cup {p}
        /\ UNCHANGED <<committed, rejected, task, shutting, v2only, saved, restarts>>
    BY <1>t, <1>12 DEF TypeOK, StreamSettled, MarkSettled, Forget, ReleaseCommitment
  <2>1. OrphansOK'
    BY <1>n, <2>e DEF OrphansOK
  <2>2. OwnedOK'
    BY <1>w, <2>e DEF OwnedOK
  <2> QED BY <2>1, <2>2
<1>13. ASSUME NEW p \in Proposals, StreamFailed(p) PROVE OrphansOK' /\ OwnedOK'
  <2>e. /\ entry'[p] = "none" /\ \A q \in Proposals : q # p => entry'[q] = entry[q]
        /\ active' = active \ {p}
        /\ releasing' = releasing \cup {p}
        /\ rejected' = rejected \cup {p}
        /\ UNCHANGED <<committed, completed, task, shutting, v2only, saved, restarts>>
    BY <1>t, <1>13 DEF TypeOK, StreamFailed, MarkFailed, Forget, ReleaseCommitment
  <2>1. OrphansOK'
    BY <1>n, <2>e DEF OrphansOK
  <2>2. OwnedOK'
    BY <1>w, <2>e DEF OwnedOK
  <2> QED BY <2>1, <2>2
<1>14. ASSUME NEW p \in Proposals, SpawnSettlementTask(p) PROVE OrphansOK' /\ OwnedOK'
  <2>e. /\ p \in active /\ task[p] = Idle
        /\ task'[p].pc = "status"
        /\ \A q \in Proposals : q # p => task'[q] = task[q]
        /\ UNCHANGED <<entry, committed, releasing, active, completed, rejected, shutting,
                       v2only, saved, restarts>>
    BY <1>t, <1>14 DEF TypeOK, SpawnSettlementTask, Idle
  <2>1. OrphansOK'
    BY <1>n, <2>e DEF OrphansOK
  <2>2. OwnedOK'
    BY <1>w, <2>e DEF OwnedOK
  <2> QED BY <2>1, <2>2
<1>15. ASSUME NEW p \in Proposals, ReadStatus(p) PROVE OrphansOK' /\ OwnedOK'
  <2>m. /\ task[p].pc = "status" /\ Others(p)
        /\ (task'[p].pc = "check" /\ task'[p].act \in Asked(p))
           \/ (task'[p].pc = "done" /\ task'[p].result = "error")
    BY <1>t, <1>15, TaskSteps
  <2>e. /\ UNCHANGED <<entry, committed, releasing, active, completed, rejected, shutting,
                       v2only, saved, restarts>>
    BY <1>t, <1>15 DEF TypeOK, ReadStatus
  <2>1. OrphansOK'
    BY <1>n, <2>m, <2>e DEF OrphansOK, Idle, Others
  <2>2. OwnedOK'
    <3>1. task[p] # Idle /\ task'[p] # Idle
      BY <2>m DEF Idle
    <3>2. \A q \in Proposals : q # p => task'[q] = task[q]
      BY <2>m DEF Others
    <3> QED BY <1>w, <2>m, <2>e, <3>1, <3>2 DEF OwnedOK
  <2> QED BY <2>1, <2>2
<1>16. ASSUME NEW p \in Proposals, CheckAction(p) PROVE OrphansOK' /\ OwnedOK'
  <2>m. /\ task[p].pc = "check" /\ Others(p)
        /\ (task'[p].pc \in {"act", "reserve"} /\ task'[p].act = task[p].act)
           \/ (task'[p].pc = "done" /\ task'[p].result = "permanent")
    BY <1>t, <1>16, TaskSteps
  <2>e. /\ UNCHANGED <<entry, committed, releasing, active, completed, rejected, shutting,
                       v2only, saved, restarts>>
    BY <1>t, <1>16 DEF TypeOK, CheckAction
  <2>1. OrphansOK'
    BY <1>n, <2>m, <2>e DEF OrphansOK, Idle, Others
  <2>2. OwnedOK'
    <3>1. task[p] # Idle /\ task'[p] # Idle
      BY <2>m DEF Idle
    <3>2. \A q \in Proposals : q # p => task'[q] = task[q]
      BY <2>m DEF Others
    <3> QED BY <1>w, <2>m, <2>e, <3>1, <3>2 DEF OwnedOK
  <2> QED BY <2>1, <2>2
<1>17. ASSUME NEW p \in Proposals, CommitLiquidity(p) PROVE OrphansOK' /\ OwnedOK'
  <2>m. /\ task[p].pc = "reserve" /\ Others(p)
        /\ (task'[p].pc = "latch" /\ task'[p].act = task[p].act)
           \/ (task'[p].pc = "done" /\ task'[p].result = "error")
    BY <1>t, <1>17, TaskSteps
  <2>e. /\ committed' \subseteq committed \cup {p}
        /\ UNCHANGED <<entry, releasing, active, completed, rejected, shutting, v2only, saved,
                       restarts>>
    BY <1>t, <1>17 DEF TypeOK, CommitLiquidity
  <2>1. OrphansOK'
    BY <1>n, <2>m, <2>e DEF OrphansOK, Idle, Others
  <2>2. OwnedOK'
    <3>1. task[p] # Idle /\ task'[p] # Idle
      BY <2>m DEF Idle
    <3>2. \A q \in Proposals : q # p => task'[q] = task[q]
      BY <2>m DEF Others
    <3> QED BY <1>w, <2>m, <2>e, <3>1, <3>2 DEF OwnedOK
  <2> QED BY <2>1, <2>2
<1>18. ASSUME NEW p \in Proposals, LatchOrder(p) PROVE OrphansOK' /\ OwnedOK'
  <2>m. /\ task[p].pc = "latch" /\ Others(p)
        /\ (task'[p].pc = "act" /\ task'[p].act = task[p].act)
           \/ (task'[p].pc = "done" /\ task'[p].result = "error")
    BY <1>t, <1>18, TaskSteps
  <2>e. /\ entry[p] = "none" => entry'[p] = "none"
        /\ \A q \in Proposals : q # p => entry'[q] = entry[q]
        /\ UNCHANGED <<committed, releasing, active, completed, rejected, shutting, v2only,
                       saved, restarts>>
    BY <1>t, <1>18 DEF TypeOK, LatchOrder, TryReservePending
  <2>1. OrphansOK'
    BY <1>n, <2>m, <2>e DEF OrphansOK, Idle, Others
  <2>2. OwnedOK'
    <3>1. task[p] # Idle /\ task'[p] # Idle
      BY <2>m DEF Idle
    <3>2. \A q \in Proposals : q # p => task'[q] = task[q]
      BY <2>m DEF Others
    <3> QED BY <1>w, <2>m, <2>e, <3>1, <3>2 DEF OwnedOK
  <2> QED BY <2>1, <2>2
<1>19. ASSUME NEW p \in Proposals, Preconfirm(p) PROVE OrphansOK' /\ OwnedOK'
  <2>m. /\ task[p].pc = "act" /\ Others(p)
        /\ task'[p].pc = "status"
           \/ (task'[p].pc = "done" /\ task'[p].result \in {"error", "preconfirmed"})
    BY <1>t, <1>19, TaskSteps
  <2>e. /\ UNCHANGED <<entry, committed, releasing, active, completed, rejected, shutting,
                       v2only, saved, restarts>>
    BY <1>t, <1>19 DEF TypeOK, Preconfirm
  <2>1. OrphansOK'
    BY <1>n, <2>m, <2>e DEF OrphansOK, Idle, Others
  <2>2. OwnedOK'
    <3>1. task[p] # Idle /\ task'[p] # Idle
      BY <2>m DEF Idle
    <3>2. \A q \in Proposals : q # p => task'[q] = task[q]
      BY <2>m DEF Others
    <3> QED BY <1>w, <2>m, <2>e, <3>1, <3>2 DEF OwnedOK
  <2> QED BY <2>1, <2>2
<1>20. ASSUME NEW p \in Proposals, RefuseAtShutdown(p) PROVE OrphansOK' /\ OwnedOK'
  <2>m. /\ task[p].pc = "act" /\ task[p].act = "Preconfirm" /\ Others(p)
        /\ task'[p].pc = "done" /\ task'[p].result = "rejected"
    BY <1>t, <1>20, TaskSteps
  <2>e. /\ entry'[p] = "none" /\ \A q \in Proposals : q # p => entry'[q] = entry[q]
        /\ UNCHANGED <<committed, releasing, active, completed, rejected, shutting, v2only,
                       saved, restarts>>
    BY <1>t, <1>20 DEF TypeOK, RefuseAtShutdown, MarkFailed
  <2>1. OrphansOK'
    BY <1>n, <2>m, <2>e DEF OrphansOK, Idle, Others
  <2>2. OwnedOK'
    <3>1. task[p] # Idle /\ task'[p] # Idle
      BY <2>m DEF Idle
    <3>2. \A q \in Proposals : q # p => task'[q] = task[q]
      BY <2>m DEF Others
    <3> QED BY <1>w, <2>m, <2>e, <3>1, <3>2 DEF OwnedOK
  <2> QED BY <2>1, <2>2
<1>21. ASSUME NEW p \in Proposals, Progress(p) PROVE OrphansOK' /\ OwnedOK'
  <2>m. /\ task[p].pc = "act" /\ Others(p)
        /\ (task'[p].pc = "status" \/ (task'[p].pc = "done" /\ task'[p].result = "stepped"))
                    \/ (task[p].act \in {"CreateDvp", "AcceptDvp"} /\ task'[p].pc = "done"
                         /\ task'[p].result \in Errors)
    BY <1>t, <1>21, TaskSteps
  <2>e. /\ UNCHANGED <<entry, committed, releasing, active, completed, rejected, shutting,
                       v2only, saved, restarts>>
    BY <1>t, <1>21 DEF TypeOK, Progress, Errors
  <2>1. OrphansOK'
    BY <1>n, <2>m, <2>e DEF OrphansOK, Idle, Others, Errors
  <2>2. OwnedOK'
    <3>1. task[p] # Idle /\ task'[p] # Idle
      BY <2>m DEF Idle
    <3>2. \A q \in Proposals : q # p => task'[q] = task[q]
      BY <2>m DEF Others
    <3> QED BY <1>w, <2>m, <2>e, <3>1, <3>2 DEF OwnedOK
  <2> QED BY <2>1, <2>2
<1>22. ASSUME NEW p \in Proposals, Allocate(p) PROVE OrphansOK' /\ OwnedOK'
  <2>m. /\ task[p].pc = "act" /\ task[p].act = "Allocate" /\ Others(p)
        /\ task'[p].pc = "allocating"
           \/ (task'[p].pc = "done" /\ task'[p].result \in {"wait", "transient"})
    BY <1>t, <1>22, TaskSteps
  <2>e. /\ UNCHANGED <<entry, committed, releasing, active, completed, rejected, shutting,
                       v2only, saved, restarts>>
    BY <1>t, <1>22 DEF TypeOK, Allocate
  <2>1. OrphansOK'
    BY <1>n, <2>m, <2>e DEF OrphansOK, Idle, Others
  <2>2. OwnedOK'
    <3>1. task[p] # Idle /\ task'[p] # Idle
      BY <2>m DEF Idle
    <3>2. \A q \in Proposals : q # p => task'[q] = task[q]
      BY <2>m DEF Others
    <3> QED BY <1>w, <2>m, <2>e, <3>1, <3>2 DEF OwnedOK
  <2> QED BY <2>1, <2>2
<1>23. ASSUME NEW p \in Proposals, AllocateReturns(p) PROVE OrphansOK' /\ OwnedOK'
  <2>m. /\ task[p].pc = "allocating" /\ Others(p)
        /\ task'[p].pc = "done" /\ task'[p].result \in Errors \cup {"stepped"}
    BY <1>t, <1>23, TaskSteps
  <2>e. /\ UNCHANGED <<entry, committed, releasing, active, completed, rejected, shutting,
                       v2only, saved, restarts>>
    BY <1>t, <1>23 DEF TypeOK, AllocateReturns, Errors
  <2>1. OrphansOK'
    BY <1>n, <2>m, <2>e DEF OrphansOK, Idle, Others, Errors
  <2>2. OwnedOK'
    <3>1. task[p] # Idle /\ task'[p] # Idle
      BY <2>m DEF Idle
    <3>2. \A q \in Proposals : q # p => task'[q] = task[q]
      BY <2>m DEF Others
    <3> QED BY <1>w, <2>m, <2>e, <3>1, <3>2 DEF OwnedOK
  <2> QED BY <2>1, <2>2
<1>24. ASSUME NEW p \in Proposals, Waits(p) PROVE OrphansOK' /\ OwnedOK'
  <2>m. /\ task[p].pc = "act" /\ Others(p)
        /\ task'[p].pc = "done" /\ task'[p].result = "wait"
    BY <1>t, <1>24, TaskSteps
  <2>e. /\ UNCHANGED <<entry, committed, releasing, active, completed, rejected, shutting,
                       v2only, saved, restarts>>
    BY <1>t, <1>24 DEF TypeOK, Waits
  <2>1. OrphansOK'
    BY <1>n, <2>m, <2>e DEF OrphansOK, Idle, Others
  <2>2. OwnedOK'
    <3>1. task[p] # Idle /\ task'[p] # Idle
      BY <2>m DEF Idle
    <3>2. \A q \in Proposals : q # p => task'[q] = task[q]
      BY <2>m DEF Others
    <3> QED BY <1>w, <2>m, <2>e, <3>1, <3>2 DEF OwnedOK
  <2> QED BY <2>1, <2>2
<1>25. ASSUME NEW p \in Proposals, SeesTerminal(p) PROVE OrphansOK' /\ OwnedOK'
  <2>m. /\ task[p].pc = "act" /\ task[p].act \in Over /\ Others(p)
        /\ task'[p].pc = "done" /\ task'[p].result = "terminal"
    BY <1>t, <1>25, TaskSteps
  <2>e. /\ entry'[p] = "none" /\ \A q \in Proposals : q # p => entry'[q] = entry[q]
        /\ UNCHANGED <<committed, releasing, active, completed, rejected, shutting, v2only,
                       saved, restarts>>
    BY <1>t, <1>25 DEF TypeOK, SeesTerminal, MarkSettled, MarkFailed
  <2>1. OrphansOK'
    BY <1>n, <2>m, <2>e DEF OrphansOK, Idle, Others
  <2>2. OwnedOK'
    <3>1. task[p] # Idle /\ task'[p] # Idle
      BY <2>m DEF Idle
    <3>2. \A q \in Proposals : q # p => task'[q] = task[q]
      BY <2>m DEF Others
    <3> QED BY <1>w, <2>m, <2>e, <3>1, <3>2 DEF OwnedOK
  <2> QED BY <2>1, <2>2
<1>26. ASSUME NEW p \in Proposals, CollectResult(p) PROVE OrphansOK' /\ OwnedOK'
  <2>0. /\ task[p].pc = "done" /\ task'[p] = Idle
        /\ \A q \in Proposals : q # p => task'[q] = task[q]
        /\ UNCHANGED <<committed, shutting, v2only, saved, restarts>>
    BY <1>t, <1>26 DEF CollectResult, TypeOK, sessionVars
  <2>a. \/ /\ p \in active
           /\ UNCHANGED <<entry, releasing, active, completed, rejected>>
        \/ /\ entry'[p] = "none" /\ \A q \in Proposals : q # p => entry'[q] = entry[q]
           /\ active' = active \ {p} /\ releasing' = releasing \cup {p}
           /\ rejected' \subseteq rejected \cup {p}
    <3>0. MarkFailed(p) => entry'[p] = "none"
            /\ \A q \in Proposals : q # p => entry'[q] = entry[q]
      BY <1>t DEF MarkFailed, TypeOK
    <3>1. CASE CollectGoesOn(p)
      BY <3>0, <3>1 DEF CollectGoesOn, KeepReservations, Orphaned, ReleaseOrphan,
         ReleaseCommitment, trackerVars
    <3>2. CASE CollectError(p)
      BY <3>0, <3>2 DEF CollectError, KeepReservations, Orphaned, ReleaseOrphan,
         ReleaseCommitment, trackerVars
    <3>3. CASE CollectRejected(p)
      BY <1>n, <2>0, <3>0, <3>3 DEF CollectRejected, OrphansOK, Forget, Orphaned,
         ReleaseCommitment, trackerVars
    <3>4. CASE CollectTerminal(p)
      BY <1>n, <2>0, <3>0, <3>4 DEF CollectTerminal, OrphansOK, Forget, Orphaned,
         ReleaseCommitment, trackerVars
    <3>5. CASE CollectAbandoned(p)
      BY <3>0, <3>5 DEF CollectAbandoned, Forget, ReleaseCommitment
    <3> QED BY <1>26, <3>1, <3>2, <3>3, <3>4, <3>5 DEF CollectResult
  <2>1. OrphansOK'
    BY <1>n, <2>0, <2>a DEF OrphansOK, Idle
  <2>2. OwnedOK'
    BY <1>w, <1>o, <2>0, <2>a DEF OwnedOK, TasksHaveOwners
  <2> QED BY <2>1, <2>2
<1>27. ASSUME NEW p \in Proposals, RunRelease(p) PROVE OrphansOK' /\ OwnedOK'
  <2>e. /\ releasing' = releasing \ {p}
        /\ committed' = committed \ {p}
        /\ UNCHANGED <<entry, active, completed, rejected, task, shutting, v2only, saved,
                       restarts>>
    BY <1>t, <1>27 DEF TypeOK, RunRelease
  <2>1. OrphansOK'
    BY <1>n, <2>e DEF OrphansOK
  <2>2. OwnedOK'
    BY <1>w, <2>e DEF OwnedOK
  <2> QED BY <2>1, <2>2
<1>28. ASSUME NEW p \in Proposals, AbortTask(p) PROVE OrphansOK' /\ OwnedOK'
  <2>e. /\ shutting /\ task'[p] = Idle
        /\ \A q \in Proposals : q # p => task'[q] = task[q]
        /\ UNCHANGED <<entry, committed, releasing, active, completed, rejected, shutting,
                       v2only, saved, restarts>>
    BY <1>t, <1>28 DEF TypeOK, AbortTask
  <2>1. OrphansOK'
    BY <1>n, <2>e DEF OrphansOK, Idle
  <2>2. OwnedOK'
    BY <1>w, <2>e DEF OwnedOK
  <2> QED BY <2>1, <2>2
<1>29. CASE Reconcile
  <2>e. /\ committed' = committed \cap active
        /\ UNCHANGED <<entry, releasing, active, completed, rejected, task, shutting, v2only,
                       saved, restarts>>
    BY <1>t, <1>29 DEF TypeOK, Reconcile
  <2>1. OrphansOK'
    BY <1>n, <2>e DEF OrphansOK
  <2>2. OwnedOK'
    BY <1>w, <2>e DEF OwnedOK
  <2> QED BY <2>1, <2>2
<1>30. CASE Shutdown
  <2>e. /\ shutting' = TRUE
        /\ UNCHANGED <<entry, committed, releasing, active, completed, rejected, task, v2only,
                       saved, restarts>>
    BY <1>t, <1>30 DEF TypeOK, Shutdown
  <2>1. OrphansOK'
    BY <1>n, <2>e DEF OrphansOK
  <2>2. OwnedOK'
    BY <1>w, <2>e DEF OwnedOK
  <2> QED BY <2>1, <2>2
<1>31. CASE SaveAndRestart
  <2>e. /\ entry' = entry /\ saved'.entry = entry
        /\ saved'.rejected = rejected /\ rejected' = rejected
        /\ committed' = {} /\ active' = {} /\ v2only' \in Modes
        /\ \A q \in Proposals : task'[q] = Idle
        /\ restarts' = restarts + 1
    BY <1>t, <1>31 DEF TypeOK, SaveAndRestart, Restart
  <2>1. OrphansOK'
    BY <1>n, <2>e DEF OrphansOK, Idle
  <2>2. OwnedOK'
    <3>1. restarts \in Nat /\ restarts' > 0
      BY <1>t, <2>e, BoundsAssumption DEF TypeOK, BoundsAssumption
    <3>2. TRUE \notin Modes => v2only' = FALSE
      BY <2>e, SwitchesAssumption DEF SwitchesAssumption
    <3>3. \A q \in Proposals : q \in active => q \notin rejected
      BY <1>o DEF TasksHaveOwners
    <3> QED BY <1>w, <2>e, <3>1, <3>2, <3>3 DEF OwnedOK
  <2> QED BY <2>1, <2>2
<1>32. CASE Crash
  <2>e. /\ entry' = saved.entry /\ saved' = saved /\ rejected' = saved.rejected
        /\ committed' = {} /\ active' = {} /\ v2only' \in Modes
        /\ \A q \in Proposals : task'[q] = Idle
        /\ restarts' = restarts + 1
    BY <1>t, <1>32 DEF TypeOK, Crash, Restart
  <2>1. OrphansOK'
    BY <1>n, <2>e DEF OrphansOK, Idle
  <2>2. OwnedOK'
    <3>1. restarts \in Nat /\ restarts' > 0
      BY <1>t, <2>e, BoundsAssumption DEF TypeOK, BoundsAssumption
    <3>2. TRUE \notin Modes => v2only' = FALSE
      BY <2>e, SwitchesAssumption DEF SwitchesAssumption
    <3>3. \A q \in Proposals : q \in active => q \notin rejected
      BY <1>o DEF TasksHaveOwners
    <3> QED BY <1>w, <2>e, <3>1, <3>2, <3>3 DEF OwnedOK
  <2> QED BY <2>1, <2>2
<1>33. CASE UNCHANGED vars
  BY <1>n, <1>w, <1>33
  DEF vars, OrphansOK, OwnedOK
<1> QED
  BY <1>1, <1>2, <1>3, <1>4, <1>5, <1>6, <1>7, <1>8, <1>9, <1>10, <1>11, <1>12, <1>13,
     <1>14, <1>15, <1>16, <1>17, <1>18, <1>19, <1>20, <1>21, <1>22, <1>23, <1>24, <1>25,
     <1>26, <1>27, <1>28, <1>29, <1>30, <1>31, <1>32, <1>33
  DEF Next, HandleProposal, TaskStep

\* Where allocations are acknowledged, outages short, status answers prompt and no
\* process dies, a reservation is only given up when its allocation cannot settle.
LEMMA AnswersStep ==
  ASSUME Acknowledged, OutagesShort, StatusPrompt, ~ MayCrash,
         IInv, OrphansOK, AnswersOK, [Next]_vars
  PROVE  AnswersOK' /\ SettledStep
<1> USE DEF serverVars, trackerVars, liquidityVars, setVars, sessionVars
<1>t. TypeOK BY DEF IInv
<1>v. ReservedToAct BY DEF IInv
<1>n. OrphansOK OBVIOUS
<1>a. AnswersOK OBVIOUS
<1>s. Orders \subseteq Proposals BY OrdersAssumption DEF OrdersAssumption
<1>1. ASSUME NEW p \in Proposals, Create(p) PROVE AnswersOK' /\ SettledStep
  <2>e. /\ status[p] = "unborn" /\ status'[p] = "pending"
           /\ \A q \in Proposals : q # p => status'[q] = status[q]
        /\ UNCHANGED <<age, allocated, entry, settledQty, task>>
    BY <1>t, <1>1 DEF TypeOK, Create
  <2>1. AnswersOK'
    BY <1>a, <2>e DEF AnswersOK, Live
  <2>2. SettledStep
    BY <1>s, <2>e DEF SettledStep, Unbacked, Live
  <2> QED BY <2>1, <2>2
<1>2. ASSUME NEW p \in Proposals, WindowCloses(p) PROVE AnswersOK' /\ SettledStep
  <2>e. /\ task[p].pc # "check" /\ age[p] # "expired"
           /\ \A q \in Proposals : q # p => age'[q] = age[q]
        /\ UNCHANGED <<status, allocated, entry, settledQty, task>>
    BY <1>t, <1>2 DEF TypeOK, WindowCloses
  <2>1. AnswersOK'
    BY <1>a, <2>e DEF AnswersOK, Live
  <2>2. SettledStep
    BY <1>s, <2>e DEF SettledStep, Unbacked, Live
  <2> QED BY <2>1, <2>2
<1>3. ASSUME NEW p \in Proposals, OperatorSettles(p) PROVE AnswersOK' /\ SettledStep
  <2>e. /\ p \in allocated /\ age[p] # "expired"
        /\ status[p] = "pending" /\ status'[p] = "settled"
           /\ \A q \in Proposals : q # p => status'[q] = status[q]
        /\ UNCHANGED <<age, allocated, entry, settledQty, task>>
    BY <1>t, <1>3 DEF TypeOK, OperatorSettles
  <2>1. AnswersOK'
    BY <1>a, <2>e DEF AnswersOK, Live
  <2>2. SettledStep
    BY <1>s, <2>e DEF SettledStep, Unbacked, Live
  <2> QED BY <2>1, <2>2
<1>4. ASSUME NEW p \in Proposals, ServerCancels(p) PROVE AnswersOK' /\ SettledStep
  <2>e. /\ status[p] = "pending" /\ status'[p] = "failed"
           /\ \A q \in Proposals : q # p => status'[q] = status[q]
        /\ allocated' = allocated \ {p}
        /\ UNCHANGED <<age, entry, settledQty, task>>
    BY <1>t, <1>4 DEF TypeOK, ServerCancels
  <2>1. AnswersOK'
    BY <1>a, <2>e DEF AnswersOK, Live
  <2>2. SettledStep
    BY <1>s, <2>e DEF SettledStep, Unbacked, Live
  <2> QED BY <2>1, <2>2
<1>5. ASSUME NEW p \in Proposals, AlreadySettled(p) PROVE AnswersOK' /\ SettledStep
  <2>e. /\ UNCHANGED <<status, age, allocated, entry, settledQty, task>>
    BY <1>t, <1>5 DEF TypeOK, AlreadySettled
  <2>1. AnswersOK'
    BY <1>a, <2>e DEF AnswersOK, Live
  <2>2. SettledStep
    BY <1>s, <2>e DEF SettledStep, Unbacked, Live
  <2> QED BY <2>1, <2>2
<1>6. ASSUME NEW p \in Proposals, Refuse(p) PROVE AnswersOK' /\ SettledStep
  <2>e. /\ (UNCHANGED <<status,
                        allocated>>)
                          \/ (status[p] = "pending" /\ status'[p] = "failed" /\ allocated' = allocated \ {p}
              /\ \A q \in Proposals : q # p => status'[q] = status[q])
        /\ UNCHANGED <<age, entry, settledQty, task>>
    BY <1>t, <1>6 DEF TypeOK, Refuse, RejectProposal
  <2>1. AnswersOK'
    BY <1>a, <1>t, <2>e DEF AnswersOK, Live, Deciding, Over, TypeOK
  <2>2. SettledStep
    BY <1>s, <1>a, <2>e DEF SettledStep, Unbacked, Live, AnswersOK
  <2> QED BY <2>1, <2>2
<1>7. ASSUME NEW p \in Proposals, Adopt(p) PROVE AnswersOK' /\ SettledStep
  <2>e. /\ (entry' = entry)
           \/ (entry[p] = "none" /\ \A q \in Proposals : q # p => entry'[q] = entry[q])
        /\ UNCHANGED <<status, age, allocated, settledQty, task>>
    BY <1>t, <1>7 DEF TypeOK, Adopt, RecordSettlementOrder
  <2>1. AnswersOK'
    BY <1>a, <2>e DEF AnswersOK, Live
  <2>2. SettledStep
    BY <1>s, <2>e DEF SettledStep, Unbacked, Live
  <2> QED BY <2>1, <2>2
<1>8. ASSUME NEW p \in Proposals, AdoptRestored(p) PROVE AnswersOK' /\ SettledStep
  <2>e. /\ UNCHANGED <<status, age, allocated, entry, settledQty, task>>
    BY <1>t, <1>8 DEF TypeOK, AdoptRestored
  <2>1. AnswersOK'
    BY <1>a, <2>e DEF AnswersOK, Live
  <2>2. SettledStep
    BY <1>s, <2>e DEF SettledStep, Unbacked, Live
  <2> QED BY <2>1, <2>2
<1>9. ASSUME NEW p \in Proposals, AbandonRestored(p) PROVE AnswersOK' /\ SettledStep
  <2>e. /\ entry'[p] = "none" /\ \A q \in Proposals : q # p => entry'[q] = entry[q]
        /\ ~ Live(p)
        /\ UNCHANGED <<status, age, allocated, settledQty, task>>
    BY <1>t, <1>9 DEF TypeOK, AbandonRestored, MarkFailed, Live
  <2>1. AnswersOK'
    BY <1>a, <2>e DEF AnswersOK, Live
  <2>2. SettledStep
    BY <1>s, <2>e DEF SettledStep, Unbacked, Live
  <2> QED BY <2>1, <2>2
<1>10. ASSUME NEW p \in Proposals, LeaveAlone(p) PROVE AnswersOK' /\ SettledStep
  <2>e. /\ UNCHANGED <<status, age, allocated, entry, settledQty, task>>
    BY <1>t, <1>10 DEF TypeOK, LeaveAlone
  <2>1. AnswersOK'
    BY <1>a, <2>e DEF AnswersOK, Live
  <2>2. SettledStep
    BY <1>s, <2>e DEF SettledStep, Unbacked, Live
  <2> QED BY <2>1, <2>2
<1>11. ASSUME NEW p \in Proposals, AbortV1(p) PROVE AnswersOK' /\ SettledStep
  <2>e. /\ entry'[p] = "none" /\ \A q \in Proposals : q # p => entry'[q] = entry[q]
        /\ status[p] = "pending" /\ status'[p] = "failed"
           /\ \A q \in Proposals : q # p => status'[q] = status[q]
        /\ allocated' = allocated \ {p}
        /\ UNCHANGED <<age, settledQty, task>>
    BY <1>t, <1>11 DEF TypeOK, AbortV1, MarkFailed
  <2>1. AnswersOK'
    BY <1>a, <2>e DEF AnswersOK, Live
  <2>2. SettledStep
    BY <1>s, <2>e DEF SettledStep, Unbacked, Live
  <2> QED BY <2>1, <2>2
<1>12. ASSUME NEW p \in Proposals, StreamSettled(p) PROVE AnswersOK' /\ SettledStep
  <2>e. /\ entry'[p] = "none" /\ \A q \in Proposals : q # p => entry'[q] = entry[q]
        /\ status[p] = "settled"
        /\ settledQty' = (IF entry[p] = "reserved" THEN settledQty + Lot(p) ELSE settledQty)
        /\ UNCHANGED <<status, age, allocated, task>>
    BY <1>t, <1>12 DEF TypeOK, StreamSettled, MarkSettled
  <2>1. AnswersOK'
    BY <1>a, <2>e DEF AnswersOK, Live
  <2>2. SettledStep
    <3>1. \A q \in Proposals : q # p => (Unbacked(q)' <=> Unbacked(q))
      BY <2>e DEF Unbacked, Live
    <3>2. CASE p \in Orders /\ entry[p] = "reserved"
      <4>1. settledQty' = settledQty + 1
        BY <2>e, <3>2 DEF Lot
      <4> QED BY <1>s, <3>1, <3>2, <4>1 DEF SettledStep
    <3>3. CASE p \notin Orders
      <4>1. settledQty' = settledQty
        BY <1>t, <2>e, <3>3 DEF Lot, TypeOK
      <4> QED BY <1>s, <3>1, <3>3, <4>1 DEF SettledStep
    <3>4. CASE entry[p] # "reserved"
      <4>1. settledQty' = settledQty /\ (Unbacked(p)' => Unbacked(p))
        BY <2>e, <3>4 DEF Unbacked, Live
      <4> QED BY <1>s, <3>1, <4>1 DEF SettledStep
    <3> QED BY <3>2, <3>3, <3>4
  <2> QED BY <2>1, <2>2
<1>13. ASSUME NEW p \in Proposals, StreamFailed(p) PROVE AnswersOK' /\ SettledStep
  <2>e. /\ entry'[p] = "none" /\ \A q \in Proposals : q # p => entry'[q] = entry[q]
        /\ status[p] = "failed"
        /\ UNCHANGED <<status, age, allocated, settledQty, task>>
    BY <1>t, <1>13 DEF TypeOK, StreamFailed, MarkFailed
  <2>1. AnswersOK'
    BY <1>a, <2>e DEF AnswersOK, Live
  <2>2. SettledStep
    <3>1. ~ Live(p)
      BY <1>a, <2>e DEF AnswersOK, Live
    <3> QED BY <1>s, <2>e, <3>1 DEF SettledStep, Unbacked, Live
  <2> QED BY <2>1, <2>2
<1>14. ASSUME NEW p \in Proposals, SpawnSettlementTask(p) PROVE AnswersOK' /\ SettledStep
  <2>e. /\ task'[p].pc = "status" /\ \A q \in Proposals : q # p => task'[q] = task[q]
        /\ UNCHANGED <<status, age, allocated, entry, settledQty>>
    BY <1>t, <1>14 DEF TypeOK, SpawnSettlementTask, Idle
  <2>1. AnswersOK'
    BY <1>a, <2>e DEF AnswersOK, Live, Deciding, Idle
  <2>2. SettledStep
    BY <1>s, <2>e DEF SettledStep, Unbacked, Live
  <2> QED BY <2>1, <2>2
<1>15. ASSUME NEW p \in Proposals, ReadStatus(p) PROVE AnswersOK' /\ SettledStep
  <2>m. /\ task[p].pc = "status" /\ Others(p)
        /\ (task'[p].pc = "check" /\ task'[p].act \in Asked(p))
           \/ (task'[p].pc = "done" /\ task'[p].result = "error")
    BY <1>t, <1>15, TaskSteps
  <2>e. /\ UNCHANGED <<status, age, allocated, entry, settledQty>>
    BY <1>t, <1>15 DEF TypeOK, ReadStatus
  <2>1. AnswersOK'
    <3>1. \A a \in Asked(p) :
            /\ a \notin Over \cup {"Wait"} => p \notin allocated
            /\ a = "NoneFailed" => status[p] = "failed"
            /\ a = "NoneSettled" <=> status[p] = "settled"
      BY <1>a, ActionsAssumption DEF Asked, Over, ServerActions, ProgressActions, AnswersOK
    <3>2. task'[p].pc = "done" => task'[p].result = "error"
      BY <2>m
    <3>3. task'[p].pc \in {"check", "done"} /\ (task'[p].pc = "check" => task'[p].act \in Asked(p))
      BY <2>m
    <3> QED BY <1>a, <2>m, <2>e, <3>1, <3>2, <3>3 DEF AnswersOK, Live, Deciding, Over, Others
  <2>2. SettledStep
    BY <1>s, <2>m, <2>e DEF SettledStep, Unbacked, Live
  <2> QED BY <2>1, <2>2
<1>16. ASSUME NEW p \in Proposals, CheckAction(p) PROVE AnswersOK' /\ SettledStep
  <2>m. /\ task[p].pc = "check" /\ Others(p)
        /\ (task'[p].pc \in {"act", "reserve"} /\ task'[p].act = task[p].act)
           \/ (task'[p].pc = "done" /\ task'[p].result = "permanent")
    BY <1>t, <1>16, TaskSteps
  <2>e. /\ task'[p].pc = "done" => DeadlineExpiry(p) \/ task[p].act \in LegChecked
        /\ UNCHANGED <<status, age, allocated, entry, settledQty>>
    <3>1. DeadlineExpiry(p) \/ task[p].act \in LegChecked
          \/ Goto(p, "act") \/ Goto(p, "reserve")
      BY <1>16 DEF CheckAction
    <3>2. Goto(p, "act") \/ Goto(p, "reserve") => task'[p].pc # "done"
      <4>1. Goto(p, "act") => task'[p].pc = "act"
        BY <1>t, GotoMoves
      <4>2. Goto(p, "reserve") => task'[p].pc = "reserve"
        BY <1>t, GotoMoves
      <4> QED BY <4>1, <4>2
    <3> QED BY <1>16, <3>1, <3>2 DEF CheckAction
  <2>1. AnswersOK'
    <3>1. ASSUME task'[p].pc = "done" PROVE ~ Live(p)
      <4>1. CASE task[p].act \in LegChecked
        BY <1>a, <2>m, <4>1 DEF AnswersOK, Deciding, Over, LegChecked, Live
      <4>2. CASE DeadlineExpiry(p) /\ age[p] = "expired"
        BY <1>a, <2>m, <4>2 DEF AnswersOK, Deciding, Over, DeadlineExpiry, Live
      <4>3. CASE DeadlineExpiry(p) /\ age[p] # "expired"
        <5>1. p \notin allocated
          BY <1>a, <2>m, <4>3 DEF AnswersOK, Deciding, Over, DeadlineExpiry
        <5> QED BY <1>a, <2>m, <4>3, <5>1 DEF AnswersOK, Live
      <4> QED BY <2>e, <3>1, <4>1, <4>2, <4>3
    <3> QED BY <1>a, <2>m, <2>e, <3>1 DEF AnswersOK, Live, Deciding, Others
  <2>2. SettledStep
    BY <1>s, <2>m, <2>e DEF SettledStep, Unbacked, Live
  <2> QED BY <2>1, <2>2
<1>17. ASSUME NEW p \in Proposals, CommitLiquidity(p) PROVE AnswersOK' /\ SettledStep
  <2>m. /\ task[p].pc = "reserve" /\ Others(p)
        /\ (task'[p].pc = "latch" /\ task'[p].act = task[p].act)
           \/ (task'[p].pc = "done" /\ task'[p].result = "error")
    BY <1>t, <1>17, TaskSteps
  <2>e. /\ UNCHANGED <<status, age, allocated, entry, settledQty>>
    BY <1>t, <1>17 DEF TypeOK, CommitLiquidity
  <2>1. AnswersOK'
    BY <1>a, <2>m, <2>e DEF AnswersOK, Live, Deciding, Others
  <2>2. SettledStep
    BY <1>s, <2>m, <2>e DEF SettledStep, Unbacked, Live
  <2> QED BY <2>1, <2>2
<1>18. ASSUME NEW p \in Proposals, LatchOrder(p) PROVE AnswersOK' /\ SettledStep
  <2>m. /\ task[p].pc = "latch" /\ Others(p)
        /\ (task'[p].pc = "act" /\ task'[p].act = task[p].act)
           \/ (task'[p].pc = "done" /\ task'[p].result = "error")
    BY <1>t, <1>18, TaskSteps
  <2>e. /\ entry[p] = "reserved" => entry'[p] = "reserved"
        /\ \A q \in Proposals : q # p => entry'[q] = entry[q]
        /\ UNCHANGED <<status, age, allocated, settledQty>>
    BY <1>t, <1>18 DEF TypeOK, LatchOrder, TryReservePending
  <2>1. AnswersOK'
    BY <1>a, <2>m, <2>e DEF AnswersOK, Live, Deciding, Others
  <2>2. SettledStep
    BY <1>s, <2>m, <2>e DEF SettledStep, Unbacked, Live
  <2> QED BY <2>1, <2>2
<1>19. ASSUME NEW p \in Proposals, Preconfirm(p) PROVE AnswersOK' /\ SettledStep
  <2>m. /\ task[p].pc = "act" /\ Others(p)
        /\ task'[p].pc = "status"
           \/ (task'[p].pc = "done" /\ task'[p].result \in {"error", "preconfirmed"})
    BY <1>t, <1>19, TaskSteps
  <2>e. /\ UNCHANGED <<status, age, allocated, entry, settledQty>>
    BY <1>t, <1>19 DEF TypeOK, Preconfirm
  <2>1. AnswersOK'
    BY <1>a, <2>m, <2>e DEF AnswersOK, Live, Deciding, Others
  <2>2. SettledStep
    BY <1>s, <2>m, <2>e DEF SettledStep, Unbacked, Live
  <2> QED BY <2>1, <2>2
<1>20. ASSUME NEW p \in Proposals, RefuseAtShutdown(p) PROVE AnswersOK' /\ SettledStep
  <2>m. /\ task[p].pc = "act" /\ task[p].act = "Preconfirm" /\ Others(p)
        /\ task'[p].pc = "done" /\ task'[p].result = "rejected"
    BY <1>t, <1>20, TaskSteps
  <2>e. /\ entry'[p] = "none" /\ \A q \in Proposals : q # p => entry'[q] = entry[q]
        /\ status'[p] \in {status[p], "failed"}
           /\ \A q \in Proposals : q # p => status'[q] = status[q]
        /\ UNCHANGED <<age, allocated, settledQty>>
    BY <1>t, <1>20 DEF TypeOK, RefuseAtShutdown, MarkFailed
  <2>1. AnswersOK'
    <3>1. p \notin allocated
      BY <1>a, <2>m DEF AnswersOK, Deciding, Over
    <3> QED BY <1>a, <2>m, <2>e, <3>1 DEF AnswersOK, Live, Deciding, Others
  <2>2. SettledStep
    <3>1. p \notin allocated
      BY <1>a, <2>m DEF AnswersOK, Deciding, Over
    <3> QED BY <1>s, <2>m, <2>e, <3>1 DEF SettledStep, Unbacked, Live
  <2> QED BY <2>1, <2>2
<1>21. ASSUME NEW p \in Proposals, Progress(p) PROVE AnswersOK' /\ SettledStep
  <2>m. /\ task[p].pc = "act" /\ Others(p)
        /\ (task'[p].pc = "status" \/ (task'[p].pc = "done" /\ task'[p].result = "stepped"))
                    \/ (task[p].act \in {"CreateDvp", "AcceptDvp"} /\ task'[p].pc = "done"
                         /\ task'[p].result \in Errors)
    BY <1>t, <1>21, TaskSteps
  <2>e. /\ UNCHANGED <<status, age, allocated, entry, settledQty>>
    BY <1>t, <1>21 DEF TypeOK, Progress
  <2>1. AnswersOK'
    BY <1>a, <2>m, <2>e DEF AnswersOK, Live, Deciding, Over, Others, Errors
  <2>2. SettledStep
    BY <1>s, <2>m, <2>e DEF SettledStep, Unbacked, Live
  <2> QED BY <2>1, <2>2
<1>22. ASSUME NEW p \in Proposals, Allocate(p) PROVE AnswersOK' /\ SettledStep
  <2>m. /\ task[p].pc = "act" /\ task[p].act = "Allocate" /\ Others(p)
        /\ task'[p].pc = "allocating"
           \/ (task'[p].pc = "done" /\ task'[p].result \in {"wait", "transient"})
    BY <1>t, <1>22, TaskSteps
  <2>e. /\ UNCHANGED <<status, age, allocated, entry, settledQty>>
    BY <1>t, <1>22 DEF TypeOK, Allocate
  <2>1. AnswersOK'
    BY <1>a, <2>m, <2>e DEF AnswersOK, Live, Deciding, Over, Others, Errors
  <2>2. SettledStep
    BY <1>s, <2>m, <2>e DEF SettledStep, Unbacked, Live
  <2> QED BY <2>1, <2>2
<1>23. ASSUME NEW p \in Proposals, AllocateReturns(p) PROVE AnswersOK' /\ SettledStep
  <2>m. /\ task[p].pc = "allocating" /\ Others(p)
        /\ task'[p].pc = "done" /\ task'[p].result \in Errors \cup {"stepped"}
    BY <1>t, <1>23, TaskSteps
  <2>e. /\ allocated' = allocated \/ (allocated' = allocated \cup {p} /\ status[p] = "pending")
        /\ UNCHANGED <<status, age, entry, settledQty>>
    BY <1>t, <1>23 DEF TypeOK, AllocateReturns, CanAllocate
  <2>1. AnswersOK'
    <3>1. task'[p].result = "permanent" => allocated' = allocated
      <4>1. allocated' # allocated =>
              task' = [task EXCEPT ![p].pc = "done", ![p].stage = "Allocated", ![p].result = "stepped"]
        BY <1>23 DEF AllocateReturns
      <4> QED BY <1>t, <4>1 DEF TypeOK, TaskRecords
    <3>2. p \notin allocated
      BY <1>a, <2>m DEF AnswersOK
    <3> QED BY <1>a, <2>m, <2>e, <3>1, <3>2 DEF AnswersOK, Live, Deciding, Others
  <2>2. SettledStep
    <3>1. allocated' # allocated => entry[p] = "reserved"
      BY <1>v, <2>m, <2>e DEF ReservedToAct
    <3> QED BY <1>s, <2>m, <2>e, <3>1 DEF SettledStep, Unbacked, Live
  <2> QED BY <2>1, <2>2
<1>24. ASSUME NEW p \in Proposals, Waits(p) PROVE AnswersOK' /\ SettledStep
  <2>m. /\ task[p].pc = "act" /\ Others(p)
        /\ task'[p].pc = "done" /\ task'[p].result = "wait"
    BY <1>t, <1>24, TaskSteps
  <2>e. /\ UNCHANGED <<status, age, allocated, entry, settledQty>>
    BY <1>t, <1>24 DEF TypeOK, Waits
  <2>1. AnswersOK'
    BY <1>a, <2>m, <2>e DEF AnswersOK, Live, Deciding, Others
  <2>2. SettledStep
    BY <1>s, <2>m, <2>e DEF SettledStep, Unbacked, Live
  <2> QED BY <2>1, <2>2
<1>25. ASSUME NEW p \in Proposals, SeesTerminal(p) PROVE AnswersOK' /\ SettledStep
  <2>m. /\ task[p].pc = "act" /\ task[p].act \in Over /\ Others(p)
        /\ task'[p].pc = "done" /\ task'[p].result = "terminal"
    BY <1>t, <1>25, TaskSteps
  <2>e. /\ entry'[p] = "none" /\ \A q \in Proposals : q # p => entry'[q] = entry[q]
        /\ (task[p].act = "NoneSettled" /\ settledQty' = (IF entry[p] = "reserved" THEN settledQty + Lot(p) ELSE settledQty))
           \/ (task[p].act # "NoneSettled" /\ settledQty' = settledQty)
        /\ UNCHANGED <<status, age, allocated>>
    BY <1>t, <1>25 DEF TypeOK, SeesTerminal, MarkSettled, MarkFailed
  <2>1. AnswersOK'
    BY <1>a, <2>m, <2>e DEF AnswersOK, Live, Deciding, Others
  <2>2. SettledStep
    <3>0. CASE task[p].act # "NoneSettled"
      <4>1. ~ Live(p)
        BY <1>a, <2>m, <3>0 DEF AnswersOK, Deciding, Over, Live
      <4> QED BY <1>s, <2>m, <2>e, <3>0, <4>1 DEF SettledStep, Unbacked, Live
    <3>1. CASE task[p].act = "NoneSettled"
      <4>1. \A q \in Proposals : q # p => (Unbacked(q)' <=> Unbacked(q))
        BY <2>m, <2>e, <3>1 DEF Unbacked, Live
      <4>2. CASE p \in Orders /\ entry[p] = "reserved"
        <5>1. settledQty' = settledQty + 1
          BY <2>m, <2>e, <3>1, <4>2 DEF Lot
        <5> QED BY <1>s, <4>1, <4>2, <5>1 DEF SettledStep
      <4>3. CASE p \notin Orders
        <5>1. settledQty' = settledQty
          BY <1>t, <2>m, <2>e, <3>1, <4>3 DEF Lot, TypeOK
        <5> QED BY <1>s, <4>1, <4>3, <5>1 DEF SettledStep
      <4>4. CASE entry[p] # "reserved"
        <5>1. settledQty' = settledQty /\ (Unbacked(p)' => Unbacked(p))
          BY <2>m, <2>e, <3>1, <4>4 DEF Unbacked, Live
        <5> QED BY <1>s, <4>1, <5>1 DEF SettledStep
      <4> QED BY <4>2, <4>3, <4>4
    <3> QED BY <3>0, <3>1
  <2> QED BY <2>1, <2>2
<1>26. ASSUME NEW p \in Proposals, CollectResult(p) PROVE AnswersOK' /\ SettledStep
  <2>0. /\ task[p].pc = "done" /\ task'[p] = Idle
        /\ \A q \in Proposals : q # p => task'[q] = task[q]
        /\ UNCHANGED <<status, age, allocated>>
    BY <1>t, <1>26 DEF CollectResult, TypeOK
  <2>a. /\ settledQty' = settledQty
        /\ entry' = entry \/ MarkFailed(p)
    BY <1>26 DEF CollectResult, CollectGoesOn, CollectError, CollectRejected,
       CollectTerminal, CollectAbandoned,
            KeepReservations, ReleaseOrphan, MarkFailed
  <2>b. entry' = entry \/ entry[p] = "none" \/ ~ Live(p)
    <3>1. p \notin active => entry[p] = "none"
      BY <1>n, <2>0 DEF OrphansOK, Idle
    <3>2. CASE CollectGoesOn(p) \/ CollectError(p) \/ CollectRejected(p) \/ CollectTerminal(p)
      BY <3>1, <3>2 DEF CollectGoesOn, CollectError, CollectRejected, CollectTerminal,
         KeepReservations, Orphaned
    <3>3. CASE CollectAbandoned(p)
      BY <1>a, <2>0, <3>3 DEF CollectAbandoned, Exhausted, AnswersOK, Live
    <3> QED BY <1>26, <3>2, <3>3 DEF CollectResult
  <2>c. MarkFailed(p) => entry'[p] = "none"
          /\ \A q \in Proposals : q # p => entry'[q] = entry[q]
    BY <1>t DEF MarkFailed, TypeOK
  <2>1. AnswersOK'
    BY <1>a, <2>0 DEF AnswersOK, Live, Idle, Deciding
  <2>2. SettledStep
    BY <1>s, <2>0, <2>a, <2>b, <2>c DEF SettledStep, Unbacked, Live
  <2> QED BY <2>1, <2>2
<1>27. ASSUME NEW p \in Proposals, RunRelease(p) PROVE AnswersOK' /\ SettledStep
  <2>e. /\ UNCHANGED <<status, age, allocated, entry, settledQty, task>>
    BY <1>t, <1>27 DEF TypeOK, RunRelease
  <2>1. AnswersOK'
    BY <1>a, <2>e DEF AnswersOK, Live
  <2>2. SettledStep
    BY <1>s, <2>e DEF SettledStep, Unbacked, Live
  <2> QED BY <2>1, <2>2
<1>28. ASSUME NEW p \in Proposals, AbortTask(p) PROVE AnswersOK' /\ SettledStep
  <2>e. /\ task'[p] = Idle /\ \A q \in Proposals : q # p => task'[q] = task[q]
        /\ UNCHANGED <<status, age, allocated, entry, settledQty>>
    BY <1>t, <1>28 DEF AbortTask, LateAllocations, TypeOK
  <2>1. AnswersOK'
    BY <1>a, <2>e DEF AnswersOK, Live, Idle, Deciding
  <2>2. SettledStep
    BY <2>e DEF SettledStep, Unbacked, Live
  <2> QED BY <2>1, <2>2
<1>29. CASE Reconcile
  <2>e. /\ UNCHANGED <<status, age, allocated, entry, settledQty, task>>
    BY <1>t, <1>29 DEF TypeOK, Reconcile
  <2>1. AnswersOK'
    BY <1>a, <2>e DEF AnswersOK, Live
  <2>2. SettledStep
    BY <1>s, <2>e DEF SettledStep, Unbacked, Live
  <2> QED BY <2>1, <2>2
<1>30. CASE Shutdown
  <2>e. /\ UNCHANGED <<status, age, allocated, entry, settledQty, task>>
    BY <1>t, <1>30 DEF TypeOK, Shutdown
  <2>1. AnswersOK'
    BY <1>a, <2>e DEF AnswersOK, Live
  <2>2. SettledStep
    BY <1>s, <2>e DEF SettledStep, Unbacked, Live
  <2> QED BY <2>1, <2>2
<1>31. CASE SaveAndRestart
  <2>e. /\ \A q \in Proposals : task'[q] = Idle
        /\ UNCHANGED <<status, age, allocated, entry, settledQty>>
    BY <1>t, <1>31 DEF TypeOK, SaveAndRestart, Restart
  <2>1. AnswersOK'
    BY <1>a, <2>e DEF AnswersOK, Live, Deciding, Idle
  <2>2. SettledStep
    BY <1>s, <2>e DEF SettledStep, Unbacked, Live
  <2> QED BY <2>1, <2>2
<1>32. CASE Crash
  BY <1>32 DEF Crash
<1>33. CASE UNCHANGED vars
  BY <1>a, <1>33
  DEF vars, AnswersOK, Live, SettledStep, Unbacked
<1> QED
  BY <1>1, <1>2, <1>3, <1>4, <1>5, <1>6, <1>7, <1>8, <1>9, <1>10, <1>11, <1>12, <1>13,
     <1>14, <1>15, <1>16, <1>17, <1>18, <1>19, <1>20, <1>21, <1>22, <1>23, <1>24, <1>25,
     <1>26, <1>27, <1>28, <1>29, <1>30, <1>31, <1>32, <1>33
  DEF Next, HandleProposal, TaskStep

\* At the start nothing was told, reserved or committed.
LEMMA InitOwned == Init => AnswersOK /\ OrphansOK /\ OwnedOK /\ CountedOK
<1> SUFFICES ASSUME Init PROVE AnswersOK /\ OrphansOK /\ OwnedOK /\ CountedOK
  OBVIOUS
<1>1. \A p \in Proposals : task[p] = Idle /\ status[p] = "unborn" /\ entry[p] = "none"
  BY DEF Init, EmptyFile
<1>2. AnswersOK
  BY <1>1 DEF Init, AnswersOK, Deciding, Idle, Live
<1>3. OrphansOK
  BY <1>1 DEF OrphansOK, Idle
<1>4. OwnedOK
  <2>1. TRUE \notin Modes => ~ v2only
    BY SwitchesAssumption DEF SwitchesAssumption, Init
  <2> QED
    BY <1>1, <2>1 DEF Init, OwnedOK, EmptyFile
<1>5. CountedOK
  <2>1. {p \in Orders : Unbacked(p)} = {}
    BY DEF Init, Unbacked, Live
  <2> QED
    BY <2>1, FS_EmptySet DEF Init, CountedOK
<1> QED
  BY <1>2, <1>3, <1>4, <1>5

\* The lots that live without a reservation grow with the settled quantity only.
LEMMA CountedStep ==
  ASSUME TypeOK, CountedOK, SettledStep
  PROVE  CountedOK'
<1> DEFINE U == {p \in Orders : Unbacked(p)}
<1>1. /\ IsFiniteSet(U) /\ Cardinality(U) \in Nat
      /\ Cardinality(U) <= settledQty /\ settledQty \in Nat
  <2>1. U \subseteq Proposals
    BY OrdersAssumption DEF OrdersAssumption
  <2> QED
    BY <2>1, ProposalsAssumption, FS_Subset, FS_CardinalityType
    DEF ProposalsAssumption, CountedOK, TypeOK
<1>2. CASE settledQty' = settledQty /\ \A q \in Orders : Unbacked(q)' => Unbacked(q)
  <2>1. U' \subseteq U
    BY <1>2
  <2>2. IsFiniteSet(U') /\ Cardinality(U') \in Nat /\ Cardinality(U') <= Cardinality(U)
    BY <1>1, <2>1, FS_Subset, FS_CardinalityType
  <2> HIDE DEF U
  <2>3. Cardinality(U') <= settledQty'
    BY <1>1, <1>2, <2>2
  <2> QED
    BY <2>3 DEF U, CountedOK
<1>3. ASSUME NEW p \in Orders, settledQty' = settledQty + 1,
             \A q \in Orders \ {p} : Unbacked(q)' => Unbacked(q)
      PROVE  CountedOK'
  <2>1. U' \subseteq U \cup {p}
    BY <1>3
  <2>2. /\ IsFiniteSet(U \cup {p}) /\ Cardinality(U \cup {p}) \in Nat
        /\ Cardinality(U \cup {p}) <= Cardinality(U) + 1
    <3> HIDE DEF U
    <3>1. IsFiniteSet(U \cup {p})
          /\ Cardinality(U \cup {p}) = IF p \in U THEN Cardinality(U) ELSE Cardinality(U) + 1
      BY <1>1, FS_AddElement
    <3> QED
      BY <1>1, <3>1
  <2>3. IsFiniteSet(U') /\ Cardinality(U') \in Nat /\ Cardinality(U') <= Cardinality(U \cup {p})
    BY <2>1, <2>2, FS_Subset, FS_CardinalityType
  <2> HIDE DEF U
  <2>4. Cardinality(U') <= settledQty'
    BY <1>1, <1>3, <2>2, <2>3
  <2> QED
    BY <2>4 DEF U, CountedOK
<1> QED
  BY <1>2, <1>3 DEF SettledStep

\* What lives is unreserved, hence counted as settled, or reserved: together the two
\* account for no more than the order.
LEMMA CountedCovers ==
  ASSUME TypeOK, AccountsAddUp, CountedOK
  PROVE  OrderNotOverfilled
<1> DEFINE L == {p \in Orders : Live(p)}
           U == {p \in Orders : Unbacked(p)}
           R == ReservedIn(entry)
<1>1. /\ IsFiniteSet(R) /\ Cardinality(R) \in Nat /\ pendingQty = Cardinality(R)
      /\ pendingQty + settledQty <= Quantity /\ Quantity \in Nat /\ settledQty \in Nat
  BY ReservedIsFinite, FS_CardinalityType, BoundsAssumption
  DEF BoundsAssumption, AccountsAddUp, PendingAddsUp, NotOversold, ReservedIn, TypeOK
<1>2. IsFiniteSet(U) /\ Cardinality(U) \in Nat /\ Cardinality(U) <= settledQty
  <2>1. U \subseteq Proposals
    BY OrdersAssumption DEF OrdersAssumption
  <2> QED
    BY <2>1, ProposalsAssumption, FS_Subset, FS_CardinalityType
    DEF ProposalsAssumption, CountedOK
<1>3. L \subseteq U \cup R
  BY DEF Unbacked, ReservedIn
<1>4. Cardinality(L) \in Nat /\ Cardinality(L) <= Cardinality(U) + Cardinality(R)
  <2> HIDE DEF L, U, R
  <2>1. /\ IsFiniteSet(U \cup R) /\ Cardinality(U \cup R) \in Nat
        /\ Cardinality(U \cup R) = Cardinality(U) + Cardinality(R) - Cardinality(U \cap R)
    BY <1>1, <1>2, FS_Union, FS_CardinalityType
  <2>2. Cardinality(U \cap R) \in Nat
    BY <1>1, <1>2, FS_Intersection, FS_CardinalityType
  <2>3. IsFiniteSet(L) /\ Cardinality(L) \in Nat /\ Cardinality(L) <= Cardinality(U \cup R)
    BY <1>3, <2>1, FS_Subset, FS_CardinalityType
  <2> QED
    BY <1>1, <1>2, <2>1, <2>2, <2>3
<1> HIDE DEF L, U, R
<1>5. Cardinality(L) <= Quantity
  BY <1>1, <1>2, <1>4
<1> QED
  BY <1>5 DEF L, OrderNotOverfilled

\* No reservation and no commitment is left without an owner, through results that
\* come after the settlement ended, aborted tasks, restarts and crashes: what
\* collect_results, mark_settled and mark_failed release is all there is to release.
THEOREM NothingLeft == Spec => []NothingLeaks
<1>1. Init => IInv /\ OrphansOK /\ OwnedOK
  BY InitInv, InitOwned
<1>2. IInv /\ OrphansOK /\ OwnedOK /\ [Next]_vars => (IInv /\ OrphansOK /\ OwnedOK)'
  <2>1. IInv /\ [Next]_vars => IInv'
    BY TypeStep, AccountsStep, FundsStep, OwnersStep, ReservedStep DEF IInv
  <2> QED
    BY <2>1, OwnedStep
<1>3. OwnedOK => NothingLeaks
  BY DEF OwnedOK, NothingLeaks, Unknown
<1> QED
  BY <1>1, <1>2, <1>3, PTL DEF Spec

\* The order never settles for more than its quantity: the server's answers come in
\* time, the ledger's answer to an allocation comes before the deadline, and the
\* agent stops in order.
THEOREM NeverOverfilled ==
  ASSUME Acknowledged, OutagesShort, StatusPrompt, ~ MayCrash
  PROVE  Spec => []OrderNotOverfilled
<1> DEFINE SInv == IInv /\ OrphansOK /\ OwnedOK /\ AnswersOK /\ CountedOK
<1>1. Init => SInv
  BY InitInv, InitOwned
<1>2. SInv /\ [Next]_vars => SInv'
  <2> SUFFICES ASSUME SInv, [Next]_vars PROVE SInv'
    OBVIOUS
  <2>1. IInv' /\ TypeOK
    BY TypeStep, AccountsStep, FundsStep, OwnersStep, ReservedStep DEF IInv
  <2>2. OrphansOK' /\ OwnedOK'
    BY OwnedStep
  <2>3. AnswersOK' /\ SettledStep
    BY AnswersStep
  <2>4. CountedOK'
    BY <2>1, <2>3, CountedStep
  <2> QED
    BY <2>1, <2>2, <2>3, <2>4
<1>3. SInv => OrderNotOverfilled
  BY CountedCovers DEF IInv
<1> QED
  BY <1>1, <1>2, <1>3, PTL DEF Spec
=============================================================================
