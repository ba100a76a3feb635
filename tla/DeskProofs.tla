----------------------------- MODULE DeskProofs -----------------------------
(***************************************************************************)
(* Proofs about AtomicSubmit for every number of attempts (the types, the  *)
(* double-fill guard, and that the call implements SubmitContract with at  *)
(* most one commit), and about AgentLife for every set of state and slow   *)
(* arms: an agent that stopped has withdrawn its book and kept its state.  *)
(***************************************************************************)
EXTENDS AtomicSubmit, AgentLife, TLAPS

-----------------------------------------------------------------------------
(* The inductive invariant.                                                *)

Unsettled(c) == fate[c] \in {"inflight", "committed"}

\* Commands of later attempts do not exist, the current one exists once it was
\* executed, and a verdict in hand has been carried out.
FatesFollowCall ==
    /\ \A c \in Attempts : c > attempt => fate[c] = "none"
    /\ pc \in {"prepare", "execute", "retry"} => fate[attempt] = "none"
    /\ pc = "answered" => answer \in Answers
    /\ pc = "answered" /\ answer.label = "ok" => fate[attempt] = "committed"
    /\ pc = "answered" /\ answer.label \in {"inactive", "backpressure"}
          => fate[attempt] = "lost"
    /\ pc = "answered" /\ answer.label = "other" /\ answer.definite
          => fate[attempt] = "lost"

\* What has been returned is true of the ledger, now and later.
ReportIsTrue ==
    /\ pc # "done" <=> result = "none"
    /\ result = "ok" => fate[attempt] = "committed"
    /\ result \notin {"none", "ok", "ATOMIC_EXECUTE_AMBIGUOUS"} => ~Unsettled(attempt)

IInv ==
    /\ TypeOK
    /\ OnlyOneLiveCommand
    /\ FatesFollowCall
    /\ ReportIsTrue

-----------------------------------------------------------------------------
(* Types.                                                                  *)

LEMMA InitType == Init => TypeOK
<1> SUFFICES ASSUME Init PROVE TypeOK
  OBVIOUS
<1> USE DEF Init
<1>1. attempt \in Attempts
  BY MaxRetriesAssumption DEF MaxRetriesAssumption, Attempts
<1>2. fate \in [Attempts -> Fates]
  BY DEF Fates
<1>3. /\ op \in [dryRun : BOOLEAN, force : BOOLEAN, deadline : BOOLEAN]
      /\ pc \in {"prepare", "execute", "answered", "retry", "done"}
      /\ closed \in BOOLEAN /\ paused \in BOOLEAN
      /\ answer \in Answers \cup {NoAnswer}
      /\ result \in Results
      /\ failures \in Nat /\ successes \in Nat
  BY DEF Results
<1> QED
  BY <1>1, <1>2, <1>3 DEF TypeOK

LEMMA StepType == TypeOK /\ [Next]_vars => TypeOK'
<1> SUFFICES ASSUME TypeOK, [Next]_vars PROVE TypeOK'
  OBVIOUS
<1> USE MaxRetriesAssumption DEF MaxRetriesAssumption, TypeOK, Attempts
<1>r. \A r \in {"ok", "dryRun", "other", "ATOMIC_EXECUTE_AMBIGUOUS",
                "QUOTE_WINDOW_CLOSED", "INACTIVE_CONTRACTS"} : r \in Results
  BY DEF Results, Errors
<1>1. CASE LoopHead
  BY <1>1, <1>r DEF LoopHead, Return
<1>2. CASE PrepareFails
  BY <1>2, <1>r DEF PrepareFails, Return, RecordFailure
<1>3. CASE VerifyFails
  BY <1>3, <1>r DEF VerifyFails, Return
<1>4. CASE DryRun
  BY <1>4, <1>r DEF DryRun, Return
<1>5. CASE Sign
  BY <1>5 DEF Sign
<1>6. CASE Execute
  BY <1>6 DEF Execute, FatesOf, Answers, Labels, Fates
<1>7. CASE Succeeded
  BY <1>7, <1>r DEF Succeeded, Return, RecordSuccess
<1>8. CASE Ambiguous
  BY <1>8, <1>r DEF Ambiguous, Return, RecordFailure, PauseOnBackpressure
<1>9. CASE Duplicate
  BY <1>9, <1>r DEF Duplicate, Return, RecordSuccess
<1>10. CASE Refused
  <2>1. CASE Retry
    BY <1>10, <2>1 DEF Refused, Retry, RetryAllowed, PauseOnBackpressure
  <2>2. ASSUME NEW r \in {"INACTIVE_CONTRACTS", "other"}, Return(r),
               NEW u \in BOOLEAN, RecordFailure(u)
        PROVE  TypeOK'
    BY <1>10, <1>r, <2>2 DEF Refused, Return, RecordFailure, PauseOnBackpressure
  <2> QED
    BY <1>10, <2>1, <2>2 DEF Refused
<1>11. CASE RefusedTooLate
  BY <1>11, <1>r DEF RefusedTooLate, Return, PauseOnBackpressure
<1>12. CASE ClockPassesDeadline
  BY <1>12 DEF ClockPassesDeadline
<1>13. ASSUME NEW c \in Attempts, LedgerDecides(c) PROVE TypeOK'
  BY <1>13 DEF LedgerDecides, Fates
<1>14. CASE UNCHANGED vars
  BY <1>14 DEF vars
<1> QED
  BY <1>1, <1>2, <1>3, <1>4, <1>5, <1>6, <1>7, <1>8, <1>9, <1>10, <1>11, <1>12,
     <1>13, <1>14
  DEF Next, ClientStep

-----------------------------------------------------------------------------
(* The inductive invariant is one.                                         *)

LEMMA InitIInv == Init => IInv
<1> SUFFICES ASSUME Init PROVE IInv
  OBVIOUS
<1>1. TypeOK
  BY InitType
<1> QED
  BY <1>1
  DEF IInv, Init, TypeOK, OnlyOneLiveCommand, FatesFollowCall, ReportIsTrue, Unsettled,
      Attempts

\* One case per action of Next.
LEMMA StepIInv == IInv /\ [Next]_vars => IInv'
<1> SUFFICES ASSUME IInv, [Next]_vars PROVE IInv'
  OBVIOUS
<1>t. TypeOK'
  BY StepType DEF IInv
<1> USE DEF IInv, OnlyOneLiveCommand, FatesFollowCall, ReportIsTrue, TypeOK, Attempts,
        Unsettled
<1>1. CASE LoopHead
  BY <1>1, <1>t DEF LoopHead, Return
<1>2. CASE PrepareFails
  BY <1>2, <1>t DEF PrepareFails, Return
<1>3. CASE VerifyFails
  BY <1>3, <1>t DEF VerifyFails, Return
<1>4. CASE DryRun
  BY <1>4, <1>t DEF DryRun, Return
<1>5. CASE Sign
  BY <1>5, <1>t DEF Sign
<1>6. CASE Execute
  <2>1. PICK f \in FatesOf(answer') : fate' = [fate EXCEPT ![attempt] = f]
    BY <1>6 DEF Execute
  <2>2. /\ pc = "execute" /\ pc' = "answered" /\ answer' \in Answers
        /\ UNCHANGED <<attempt, result>>
    BY <1>6 DEF Execute
  <2>3. /\ answer'.label = "ok" => f = "committed"
        /\ answer'.label \in {"inactive", "backpressure"} => f = "lost"
        /\ answer'.label = "other" /\ answer'.definite => f = "lost"
    BY <2>1, <2>2 DEF FatesOf
  <2>4. FatesFollowCall' /\ OnlyOneLiveCommand'
    BY <2>1, <2>2, <2>3
  <2> QED
    BY <1>t, <2>2, <2>4
<1>7. CASE Succeeded
  BY <1>7, <1>t DEF Succeeded, Return
<1>8. CASE Ambiguous
  BY <1>8, <1>t DEF Ambiguous, Return
<1>9. CASE Duplicate
  BY <1>9, <1>t DEF Duplicate, Return
<1>10. CASE Refused
  <2>1. pc = "answered" /\ fate[attempt] = "lost" /\ UNCHANGED fate
    BY <1>10 DEF Refused, NoVerdict, Answers
  <2>2. CASE Retry
    BY <1>t, <2>1, <2>2 DEF Retry, RetryAllowed
  <2>3. ASSUME NEW r \in {"INACTIVE_CONTRACTS", "other"}, Return(r) PROVE IInv'
    BY <1>t, <2>1, <2>3 DEF Return
  <2> QED
    BY <1>10, <2>2, <2>3 DEF Refused
<1>11. CASE RefusedTooLate
  <2>1. pc = "answered" /\ fate[attempt] = "lost" /\ UNCHANGED fate
    BY <1>11 DEF RefusedTooLate, NoVerdict, Answers
  <2> QED
    BY <1>11, <1>t, <2>1 DEF RefusedTooLate, Return
<1>12. CASE ClockPassesDeadline
  BY <1>12, <1>t DEF ClockPassesDeadline
<1>13. ASSUME NEW c \in Attempts, LedgerDecides(c) PROVE IInv'
  BY <1>13, <1>t DEF LedgerDecides
<1>14. CASE UNCHANGED vars
  BY <1>14, <1>t DEF vars
<1> QED
  BY <1>1, <1>2, <1>3, <1>4, <1>5, <1>6, <1>7, <1>8, <1>9, <1>10, <1>11, <1>12,
     <1>13, <1>14
  DEF Next, ClientStep

-----------------------------------------------------------------------------
(* The theorems.                                                           *)

\* Every state of a call satisfies the inductive invariant.
THEOREM Invariance == Spec => []IInv
  BY InitIInv, StepIInv, PTL DEF Spec

\* The types are right; in particular the attempt counter never passes
\* MAX_RETRIES.
THEOREM TypeCorrect == Spec => []TypeOK
  BY Invariance, PTL DEF IInv

\* The double-fill guard of submit_atomic_with_retries: a retry starts only
\* when every earlier command of the call is known to be lost.
THEOREM DoubleFillGuard == Spec => []OnlyOneLiveCommand
  BY Invariance, PTL DEF IInv

-----------------------------------------------------------------------------
(* Implementing the contract.                                              *)

LEMMA InitContract == Init => Contract!Init
<1> SUFFICES ASSUME Init PROVE Contract!Init
  OBVIOUS
<1>1. Committed = {}
  BY DEF Init, Committed, Attempts
<1>2. Reported = "pending"
  BY DEF Init, Reported
<1> QED
  BY <1>1, <1>2 DEF Contract!Init

\* No other command is on the ledger while one changes its fate.
LEMMA OnlyCurrentCommits ==
  ASSUME IInv PROVE \A c \in Committed : c = attempt
  BY DEF IInv, TypeOK, OnlyOneLiveCommand, FatesFollowCall, Committed, Attempts

\* A command that changes its fate commits, or the contract does not notice.
LEMMA FateIsCommit ==
  ASSUME IInv, UNCHANGED result, NEW f \in Fates,
         fate' = [fate EXCEPT ![attempt] = f], fate[attempt] # "committed",
         Reported # "failed"
  PROVE  Contract!Next \/ UNCHANGED Contract!vars
<1>1. UNCHANGED Reported
  BY DEF Reported
<1>2. Committed = {} /\ attempt \in Attempts
  BY OnlyCurrentCommits DEF IInv, TypeOK, Committed
<1>3. CASE f = "committed"
  <2>1. Committed' = Committed \cup {attempt} /\ attempt \notin Committed
    BY <1>2, <1>3 DEF Committed, IInv, TypeOK
  <2> QED
    BY <1>1, <1>2, <2>1 DEF Contract!Next, Contract!Commit
<1>4. CASE f # "committed"
  <2>1. UNCHANGED Committed
    BY <1>4 DEF Committed, IInv, TypeOK
  <2> QED
    BY <1>1, <2>1 DEF Contract!vars
<1> QED
  BY <1>3, <1>4

\* Returning is one Report of the contract.
LEMMA ReturnIsReport ==
  ASSUME IInv, IInv', pc # "done", pc' = "done", UNCHANGED <<fate, attempt>>
  PROVE  Contract!Next
<1>1. Reported = "pending" /\ UNCHANGED Committed
  BY DEF Reported, IInv, ReportIsTrue, Committed
<1>2. CASE result' = "ok"
  <2>1. Reported' = "ok" /\ attempt \in Committed
    BY <1>2 DEF Reported, IInv, TypeOK, ReportIsTrue, Committed
  <2> QED
    BY <1>1, <2>1 DEF Contract!Next, Contract!Report, Contract!Reports
<1>3. CASE result' = "ATOMIC_EXECUTE_AMBIGUOUS"
  <2>1. Reported' = "unknown"
    BY <1>3 DEF Reported
  <2> QED
    BY <1>1, <2>1 DEF Contract!Next, Contract!Report, Contract!Reports
<1>4. CASE result' \notin {"ok", "ATOMIC_EXECUTE_AMBIGUOUS"}
  <2>1. result' # "none" /\ fate[attempt] # "committed"
    BY <1>4 DEF IInv, ReportIsTrue, Unsettled
  <2>2. Reported' = "failed"
    BY <1>4, <2>1 DEF Reported
  <2>3. Committed = {}
    BY <2>1, OnlyCurrentCommits DEF Committed
  <2> QED
    BY <1>1, <2>2, <2>3 DEF Contract!Next, Contract!Report, Contract!Reports
<1> QED
  BY <1>2, <1>3, <1>4

\* Every step is a step of the contract or leaves it alone.
LEMMA StepContract == IInv /\ IInv' /\ [Next]_vars => [Contract!Next]_(Contract!vars)
<1> SUFFICES ASSUME IInv, IInv', [Next]_vars
             PROVE  Contract!Next \/ UNCHANGED Contract!vars
  OBVIOUS
<1>1. CASE UNCHANGED <<result, fate>>
  BY <1>1 DEF Contract!vars, Reported, Committed
<1>2. CASE pc # "done" /\ pc' = "done" /\ UNCHANGED <<fate, attempt>>
  BY <1>2, ReturnIsReport
<1>3. CASE Execute
  <2>1. PICK f \in FatesOf(answer') : fate' = [fate EXCEPT ![attempt] = f]
    BY <1>3 DEF Execute
  <2>2. f \in Fates
    BY <1>3, <2>1 DEF Execute, Answers, Labels, FatesOf, Fates
  <2>3. fate[attempt] # "committed" /\ UNCHANGED result
    BY <1>3 DEF Execute, IInv, FatesFollowCall
  <2>4. Reported # "failed"
    BY <1>3 DEF Execute, IInv, ReportIsTrue, Reported
  <2> QED
    BY <2>1, <2>2, <2>3, <2>4, FateIsCommit
<1>4. ASSUME NEW c \in Attempts, LedgerDecides(c)
      PROVE  Contract!Next \/ UNCHANGED Contract!vars
  <2>1. PICK f \in Fates : fate' = [fate EXCEPT ![c] = f]
    BY <1>4 DEF LedgerDecides, Fates
  <2>2. fate[c] = "inflight" /\ UNCHANGED result
    BY <1>4 DEF LedgerDecides
  <2>3. c = attempt
    BY <2>2 DEF IInv, TypeOK, OnlyOneLiveCommand, FatesFollowCall, Attempts
  <2>4. Reported # "failed"
    BY <2>2, <2>3 DEF IInv, ReportIsTrue, Unsettled, Reported
  <2> QED
    BY <2>1, <2>2, <2>3, <2>4, FateIsCommit
<1>5. ASSUME ClientStep, ~Execute
      PROVE  \/ UNCHANGED <<result, fate>>
             \/ pc # "done" /\ pc' = "done" /\ UNCHANGED <<fate, attempt>>
  BY <1>5
  DEF ClientStep, LoopHead, PrepareFails, VerifyFails, DryRun, Sign, Succeeded,
      Ambiguous, Duplicate, Refused, RefusedTooLate, Retry, Return
<1> QED
  BY <1>1, <1>2, <1>3, <1>4, <1>5 DEF Next, ClockPassesDeadline, vars

\* submit_atomic_transaction implements the submit contract with at most one
\* commit: any error but ATOMIC_EXECUTE_AMBIGUOUS means nothing has committed or
\* ever will, so that a caller who re-quotes cannot fill twice.
THEOREM ImplementsContract == Spec => KeepsContract
  BY Invariance, InitContract, StepContract, PTL DEF Spec, KeepsContract, Contract!Spec
-----------------------------------------------------------------------------
(* The agent's life: its grid, its book and its state file                  *)

LifeTypes ==
    /\ proc \in {"down", "starting", "looping", "stopping", "writing", "exited"}
    /\ grid \in {"none", "running", "ended", "joined"}
    /\ sweep \in {"none", "running", "done", "failed"}
    /\ withdrawn \in {"no", "empty", "gaveup"}

\* A grid, and the sweep after its end, belong to one process; a sweep means that
\* the grid is gone.
GridOK ==
    /\ proc \in {"down", "starting", "exited"} => grid = "none" /\ sweep = "none"
    /\ sweep # "none" => grid = "none"

\* The book is withdrawn after the grid has gone, and once per process; what a sweep
\* has emptied stays empty.
BookOK ==
    /\ proc \in {"starting", "looping"} => withdrawn = "no"
    /\ proc \in {"stopping", "writing"} /\ withdrawn # "no" => grid \notin {"running", "ended"}
    /\ proc = "writing" => GridFinished
    /\ sweep = "done" \/ withdrawn = "empty" => booked = FALSE

\* What a save promised is in the file until a start has taken it over.
FileOK ==
    /\ proc \in {"down", "exited"} => owed \subseteq file
    /\ proc = "starting" => owed \subseteq file \cap mem
    /\ proc \in {"looping", "stopping", "writing"} => owed = {}

LifeInv == LifeTypes /\ GridOK /\ BookOK /\ FileOK

USE DEF GridFinished, Looping, bootVars, armVars, netVars, feedVars, bookVars, stopVars, endVars, fileVars

LEMMA LifeInitInv == LifeInit => LifeInv
<1> USE DEF LifeInit
<1>1. LifeInit => LifeTypes BY DEF LifeTypes
<1>2. LifeInit => GridOK BY DEF GridOK
<1>3. LifeInit => BookOK BY DEF BookOK
<1>4. LifeInit => FileOK BY DEF FileOK
<1> QED BY <1>1, <1>2, <1>3, <1>4 DEF LifeInv

\* Every step keeps the invariant.
LEMMA LifeStep == LifeInv /\ [LifeNext]_lifeVars => LifeInv'
<1> SUFFICES ASSUME LifeInv, [LifeNext]_lifeVars PROVE LifeInv'
  OBVIOUS
<1>t. LifeTypes BY DEF LifeInv
<1>g. GridOK BY DEF LifeInv
<1>b. BookOK BY DEF LifeInv
<1>f. FileOK BY DEF LifeInv
<1>1. ASSUME NEW v2 \in BOOLEAN, StartUp(v2) PROVE LifeInv'
  <2>1. LifeTypes'
    BY <1>t, <1>1
    DEF LifeTypes, StartUp, Boot, Restored
  <2>2. GridOK'
    BY <1>g, <1>1
    DEF GridOK, StartUp, Boot, Restored
  <2>3. BookOK'
    BY <1>b, <1>g, <1>1
    DEF BookOK, GridOK, StartUp, Boot, Restored
  <2>4. FileOK'
    BY <1>f, <1>1
    DEF FileOK, StartUp, Boot, Restored
  <2> QED BY <2>1, <2>2, <2>3, <2>4 DEF LifeInv
<1>2. CASE StartFresh
  <2>1. LifeTypes'
    BY <1>t, <1>2
    DEF LifeTypes, StartFresh, Boot
  <2>2. GridOK'
    BY <1>g, <1>2
    DEF GridOK, StartFresh, Boot
  <2>3. BookOK'
    BY <1>b, <1>g, <1>2
    DEF BookOK, GridOK, StartFresh, Boot
  <2>4. FileOK'
    BY <1>f, <1>2
    DEF FileOK, StartFresh, Boot
  <2> QED BY <2>1, <2>2, <2>3, <2>4 DEF LifeInv
<1>3. CASE StartFails
  <2>1. LifeTypes'
    BY <1>t, <1>3
    DEF LifeTypes, StartFails, Gone
  <2>2. GridOK'
    BY <1>g, <1>3
    DEF GridOK, StartFails, Gone
  <2>3. BookOK'
    BY <1>b, <1>g, <1>3
    DEF BookOK, GridOK, StartFails, Gone
  <2>4. FileOK'
    BY <1>f, <1>3
    DEF FileOK, StartFails, Gone
  <2> QED BY <2>1, <2>2, <2>3, <2>4 DEF LifeInv
<1>4. ASSUME NEW withGrid \in BOOLEAN, Started(withGrid) PROVE LifeInv'
  <2>1. LifeTypes'
    BY <1>t, <1>4
    DEF LifeTypes, Started
  <2>2. GridOK'
    BY <1>g, <1>4
    DEF GridOK, Started
  <2>3. BookOK'
    BY <1>b, <1>g, <1>4
    DEF BookOK, GridOK, Started
  <2>4. FileOK'
    BY <1>f, <1>4
    DEF FileOK, Started
  <2> QED BY <2>1, <2>2, <2>3, <2>4 DEF LifeInv
<1>5. ASSUME NEW t \in Timers, BeginTimer(t) PROVE LifeInv'
  <2>1. LifeTypes'
    BY <1>t, <1>5
    DEF LifeTypes, BeginTimer, Enter
  <2>2. GridOK'
    BY <1>g, <1>5
    DEF GridOK, BeginTimer, Enter
  <2>3. BookOK'
    BY <1>b, <1>g, <1>5
    DEF BookOK, GridOK, BeginTimer, Enter
  <2>4. FileOK'
    BY <1>f, <1>5
    DEF FileOK, BeginTimer, Enter
  <2> QED BY <2>1, <2>2, <2>3, <2>4 DEF LifeInv
<1>6. CASE BeginStream
  <2>1. LifeTypes'
    BY <1>t, <1>6
    DEF LifeTypes, BeginStream, Enter
  <2>2. GridOK'
    BY <1>g, <1>6
    DEF GridOK, BeginStream, Enter
  <2>3. BookOK'
    BY <1>b, <1>g, <1>6
    DEF BookOK, GridOK, BeginStream, Enter
  <2>4. FileOK'
    BY <1>f, <1>6
    DEF FileOK, BeginStream, Enter
  <2> QED BY <2>1, <2>2, <2>3, <2>4 DEF LifeInv
<1>7. CASE EndHeartbeat
  <2>1. LifeTypes'
    BY <1>t, <1>7
    DEF LifeTypes, EndHeartbeat
  <2>2. GridOK'
    BY <1>g, <1>7
    DEF GridOK, EndHeartbeat
  <2>3. BookOK'
    BY <1>b, <1>g, <1>7
    DEF BookOK, GridOK, EndHeartbeat
  <2>4. FileOK'
    BY <1>f, <1>7
    DEF FileOK, EndHeartbeat
  <2> QED BY <2>1, <2>2, <2>3, <2>4 DEF LifeInv
<1>8. CASE EndPoll
  <2>1. LifeTypes'
    BY <1>t, <1>8
    DEF LifeTypes, EndPoll
  <2>2. GridOK'
    BY <1>g, <1>8
    DEF GridOK, EndPoll
  <2>3. BookOK'
    BY <1>b, <1>g, <1>8
    DEF BookOK, GridOK, EndPoll
  <2>4. FileOK'
    BY <1>f, <1>8
    DEF FileOK, EndPoll
  <2> QED BY <2>1, <2>2, <2>3, <2>4 DEF LifeInv
<1>9. CASE EndCollect
  <2>1. LifeTypes'
    BY <1>t, <1>9
    DEF LifeTypes, EndCollect
  <2>2. GridOK'
    BY <1>g, <1>9
    DEF GridOK, EndCollect
  <2>3. BookOK'
    BY <1>b, <1>g, <1>9
    DEF BookOK, GridOK, EndCollect
  <2>4. FileOK'
    BY <1>f, <1>9
    DEF FileOK, EndCollect
  <2> QED BY <2>1, <2>2, <2>3, <2>4 DEF LifeInv
<1>10. CASE EndStream
  <2>1. LifeTypes'
    BY <1>t, <1>10
    DEF LifeTypes, EndStream
  <2>2. GridOK'
    BY <1>g, <1>10
    DEF GridOK, EndStream
  <2>3. BookOK'
    BY <1>b, <1>g, <1>10
    DEF BookOK, GridOK, EndStream
  <2>4. FileOK'
    BY <1>f, <1>10
    DEF FileOK, EndStream
  <2> QED BY <2>1, <2>2, <2>3, <2>4 DEF LifeInv
<1>11. CASE GridExit
  <2>1. LifeTypes'
    BY <1>t, <1>11
    DEF LifeTypes, GridExit, Waiting
  <2>2. GridOK'
    BY <1>g, <1>11
    DEF GridOK, GridExit, Waiting
  <2>3. BookOK'
    BY <1>b, <1>g, <1>11
    DEF BookOK, GridOK, GridExit, Waiting
  <2>4. FileOK'
    BY <1>f, <1>11
    DEF FileOK, GridExit, Waiting
  <2> QED BY <2>1, <2>2, <2>3, <2>4 DEF LifeInv
<1>12. CASE ObserveStop
  <2>1. LifeTypes'
    BY <1>t, <1>12
    DEF LifeTypes, ObserveStop, Waiting
  <2>2. GridOK'
    BY <1>g, <1>12
    DEF GridOK, ObserveStop, Waiting
  <2>3. BookOK'
    BY <1>b, <1>g, <1>12
    DEF BookOK, GridOK, ObserveStop, Waiting
  <2>4. FileOK'
    BY <1>f, <1>12
    DEF FileOK, ObserveStop, Waiting
  <2> QED BY <2>1, <2>2, <2>3, <2>4 DEF LifeInv
<1>13. CASE DrainTasks
  <2>1. LifeTypes'
    BY <1>t, <1>13
    DEF LifeTypes, DrainTasks
  <2>2. GridOK'
    BY <1>g, <1>13
    DEF GridOK, DrainTasks
  <2>3. BookOK'
    BY <1>b, <1>g, <1>13
    DEF BookOK, GridOK, DrainTasks
  <2>4. FileOK'
    BY <1>f, <1>13
    DEF FileOK, DrainTasks
  <2> QED BY <2>1, <2>2, <2>3, <2>4 DEF LifeInv
<1>14. CASE JoinGrid
  <2>1. LifeTypes'
    BY <1>t, <1>14
    DEF LifeTypes, JoinGrid
  <2>2. GridOK'
    BY <1>g, <1>14
    DEF GridOK, JoinGrid
  <2>3. BookOK'
    BY <1>b, <1>g, <1>14
    DEF BookOK, GridOK, JoinGrid
  <2>4. FileOK'
    BY <1>f, <1>14
    DEF FileOK, JoinGrid
  <2> QED BY <2>1, <2>2, <2>3, <2>4 DEF LifeInv
<1>15. CASE StopGrid
  <2>1. LifeTypes'
    BY <1>t, <1>15
    DEF LifeTypes, StopGrid, Withdraw
  <2>2. GridOK'
    BY <1>g, <1>15
    DEF GridOK, StopGrid, Withdraw
  <2>3. BookOK'
    BY <1>b, <1>g, <1>15
    DEF BookOK, GridOK, StopGrid, Withdraw
  <2>4. FileOK'
    BY <1>f, <1>15
    DEF FileOK, StopGrid, Withdraw
  <2> QED BY <2>1, <2>2, <2>3, <2>4 DEF LifeInv
<1>16. CASE FinishSweep
  <2>1. LifeTypes'
    BY <1>t, <1>16
    DEF LifeTypes, FinishSweep, Withdraw
  <2>2. GridOK'
    BY <1>g, <1>16
    DEF GridOK, FinishSweep, Withdraw
  <2>3. BookOK'
    BY <1>b, <1>g, <1>16
    DEF BookOK, GridOK, FinishSweep, Withdraw
  <2>4. FileOK'
    BY <1>f, <1>16
    DEF FileOK, FinishSweep, Withdraw
  <2> QED BY <2>1, <2>2, <2>3, <2>4 DEF LifeInv
<1>17. ASSUME NEW held \in SUBSET Parts, TakeSnapshot(held) PROVE LifeInv'
  <2>1. LifeTypes'
    BY <1>t, <1>17
    DEF LifeTypes, TakeSnapshot
  <2>2. GridOK'
    BY <1>g, <1>17
    DEF GridOK, TakeSnapshot
  <2>3. BookOK'
    BY <1>b, <1>g, <1>17
    DEF BookOK, GridOK, TakeSnapshot
  <2>4. FileOK'
    BY <1>f, <1>17
    DEF FileOK, TakeSnapshot
  <2> QED BY <2>1, <2>2, <2>3, <2>4 DEF LifeInv
<1>18. ASSUME NEW written \in BOOLEAN, NEW reported \in BOOLEAN, WriteState(written, reported) PROVE LifeInv'
  <2>1. LifeTypes'
    BY <1>t, <1>18
    DEF LifeTypes, WriteState
  <2>2. GridOK'
    BY <1>g, <1>18
    DEF GridOK, WriteState
  <2>3. BookOK'
    BY <1>b, <1>g, <1>18
    DEF BookOK, GridOK, WriteState
  <2>4. FileOK'
    BY <1>f, <1>18
    DEF FileOK, WriteState
  <2> QED BY <2>1, <2>2, <2>3, <2>4 DEF LifeInv
<1>19. ASSUME NEW t \in Timers, TimerFires(t) PROVE LifeInv'
  <2>1. LifeTypes'
    BY <1>t, <1>19
    DEF LifeTypes, TimerFires
  <2>2. GridOK'
    BY <1>g, <1>19
    DEF GridOK, TimerFires
  <2>3. BookOK'
    BY <1>b, <1>g, <1>19
    DEF BookOK, GridOK, TimerFires
  <2>4. FileOK'
    BY <1>f, <1>19
    DEF FileOK, TimerFires
  <2> QED BY <2>1, <2>2, <2>3, <2>4 DEF LifeInv
<1>20. CASE StopSignal
  <2>1. LifeTypes'
    BY <1>t, <1>20
    DEF LifeTypes, StopSignal
  <2>2. GridOK'
    BY <1>g, <1>20
    DEF GridOK, StopSignal
  <2>3. BookOK'
    BY <1>b, <1>g, <1>20
    DEF BookOK, GridOK, StopSignal
  <2>4. FileOK'
    BY <1>f, <1>20
    DEF FileOK, StopSignal
  <2> QED BY <2>1, <2>2, <2>3, <2>4 DEF LifeInv
<1>21. CASE ForceExit
  <2>1. LifeTypes'
    BY <1>t, <1>21
    DEF LifeTypes, ForceExit, Gone
  <2>2. GridOK'
    BY <1>g, <1>21
    DEF GridOK, ForceExit, Gone
  <2>3. BookOK'
    BY <1>b, <1>g, <1>21
    DEF BookOK, GridOK, ForceExit, Gone
  <2>4. FileOK'
    BY <1>f, <1>21
    DEF FileOK, ForceExit, Gone
  <2> QED BY <2>1, <2>2, <2>3, <2>4 DEF LifeInv
<1>22. CASE Crash
  <2>1. LifeTypes'
    BY <1>t, <1>22
    DEF LifeTypes, Crash, Gone
  <2>2. GridOK'
    BY <1>g, <1>22
    DEF GridOK, Crash, Gone
  <2>3. BookOK'
    BY <1>b, <1>g, <1>22
    DEF BookOK, GridOK, Crash, Gone
  <2>4. FileOK'
    BY <1>f, <1>22
    DEF FileOK, Crash, Gone
  <2> QED BY <2>1, <2>2, <2>3, <2>4 DEF LifeInv
<1>23. CASE UpdateArrives
  <2>1. LifeTypes'
    BY <1>t, <1>23
    DEF LifeTypes, UpdateArrives
  <2>2. GridOK'
    BY <1>g, <1>23
    DEF GridOK, UpdateArrives
  <2>3. BookOK'
    BY <1>b, <1>g, <1>23
    DEF BookOK, GridOK, UpdateArrives
  <2>4. FileOK'
    BY <1>f, <1>23
    DEF FileOK, UpdateArrives
  <2> QED BY <2>1, <2>2, <2>3, <2>4 DEF LifeInv
<1>24. CASE SettlementFails
  <2>1. LifeTypes'
    BY <1>t, <1>24
    DEF LifeTypes, SettlementFails
  <2>2. GridOK'
    BY <1>g, <1>24
    DEF GridOK, SettlementFails
  <2>3. BookOK'
    BY <1>b, <1>g, <1>24
    DEF BookOK, GridOK, SettlementFails
  <2>4. FileOK'
    BY <1>f, <1>24
    DEF FileOK, SettlementFails
  <2> QED BY <2>1, <2>2, <2>3, <2>4 DEF LifeInv
<1>25. CASE BackoffElapses
  <2>1. LifeTypes'
    BY <1>t, <1>25
    DEF LifeTypes, BackoffElapses
  <2>2. GridOK'
    BY <1>g, <1>25
    DEF GridOK, BackoffElapses
  <2>3. BookOK'
    BY <1>b, <1>g, <1>25
    DEF BookOK, GridOK, BackoffElapses
  <2>4. FileOK'
    BY <1>f, <1>25
    DEF FileOK, BackoffElapses
  <2> QED BY <2>1, <2>2, <2>3, <2>4 DEF LifeInv
<1>26. CASE ServerLost
  <2>1. LifeTypes'
    BY <1>t, <1>26
    DEF LifeTypes, ServerLost
  <2>2. GridOK'
    BY <1>g, <1>26
    DEF GridOK, ServerLost
  <2>3. BookOK'
    BY <1>b, <1>g, <1>26
    DEF BookOK, GridOK, ServerLost
  <2>4. FileOK'
    BY <1>f, <1>26
    DEF FileOK, ServerLost
  <2> QED BY <2>1, <2>2, <2>3, <2>4 DEF LifeInv
<1>27. CASE ServerBack
  <2>1. LifeTypes'
    BY <1>t, <1>27
    DEF LifeTypes, ServerBack
  <2>2. GridOK'
    BY <1>g, <1>27
    DEF GridOK, ServerBack
  <2>3. BookOK'
    BY <1>b, <1>g, <1>27
    DEF BookOK, GridOK, ServerBack
  <2>4. FileOK'
    BY <1>f, <1>27
    DEF FileOK, ServerBack
  <2> QED BY <2>1, <2>2, <2>3, <2>4 DEF LifeInv
<1>28. CASE GridEnds
  <2>1. LifeTypes'
    BY <1>t, <1>28
    DEF LifeTypes, GridEnds
  <2>2. GridOK'
    BY <1>g, <1>28
    DEF GridOK, GridEnds
  <2>3. BookOK'
    BY <1>b, <1>g, <1>28
    DEF BookOK, GridOK, GridEnds
  <2>4. FileOK'
    BY <1>f, <1>28
    DEF FileOK, GridEnds
  <2> QED BY <2>1, <2>2, <2>3, <2>4 DEF LifeInv
<1>29. CASE GridSweepEnds
  <2>1. LifeTypes'
    BY <1>t, <1>29
    DEF LifeTypes, GridSweepEnds
  <2>2. GridOK'
    BY <1>g, <1>29
    DEF GridOK, GridSweepEnds
  <2>3. BookOK'
    BY <1>b, <1>g, <1>29
    DEF BookOK, GridOK, GridSweepEnds
  <2>4. FileOK'
    BY <1>f, <1>29
    DEF FileOK, GridSweepEnds
  <2> QED BY <2>1, <2>2, <2>3, <2>4 DEF LifeInv
<1>30. CASE UNCHANGED lifeVars
  BY <1>t, <1>g, <1>b, <1>f, <1>30
  DEF lifeVars, LifeInv, LifeTypes, GridOK, BookOK, FileOK
<1> QED
  BY <1>1, <1>2, <1>3, <1>4, <1>5, <1>6, <1>7, <1>8, <1>9, <1>10, <1>11, <1>12, <1>13, <1>14, <1>15, <1>16, <1>17, <1>18, <1>19, <1>20, <1>21, <1>22, <1>23, <1>24, <1>25, <1>26, <1>27, <1>28, <1>29, <1>30
  DEF LifeNext, LoopStep, StopStep

\* The grid, the book and the file stay in step in every reachable state.
THEOREM LifeInvariance == LifeSpec => []LifeInv
<1>1. LifeInit => LifeInv BY LifeInitInv
<1>2. LifeInv /\ [LifeNext]_lifeVars => LifeInv' BY LifeStep
<1> QED BY <1>1, <1>2, PTL DEF LifeSpec

\* An agent that comes to write its state has stopped its grid and swept the book,
\* and a part it reported saved is in the file until a start has restored it,
\* whatever crashes, forced exits and failed starts come between.
THEOREM StopsInOrder == LifeSpec => []StopIsOrderly
<1>1. LifeInv => StopIsOrderly
  BY DEF LifeInv, LifeTypes, BookOK, FileOK, StopIsOrderly
<1> QED BY <1>1, LifeInvariance, PTL
=============================================================================
