----------------------------- MODULE GridProofs -----------------------------
(***************************************************************************)
(* Proofs about SubmitTransaction for every number of attempts (the types, *)
(* that no retry forgets a command which may still commit, that the        *)
(* breaker hears of a call once, and that the call implements              *)
(* SubmitContract), and about OrderGrid for every set of orders and        *)
(* prices: no match of an own order is rejected that a listing could have  *)
(* explained, and a sweep that reports an empty book left one.             *)
(***************************************************************************)
EXTENDS SubmitTransaction, OrderGrid, TLAPS

-----------------------------------------------------------------------------
(* The inductive invariant.                                                *)

\* What the ledger did with the commands so far agrees with how far the call
\* has come: commands of later attempts do not exist, the current one exists
\* once it was executed, and a verdict in hand has been carried out.
FatesFollowCall ==
    /\ \A c \in Attempts : c > attempt => fate[c] = "none"
    /\ pc \in {"start", "prepare", "execute"} => fate[attempt] = "none"
    /\ pc \in {"answered", "scan"} => answer \in Answers
    /\ pc = "answered" /\ answer.label = "ok" => fate[attempt] = "committed"
    /\ pc = "answered" /\ answer.label \in {"inactive", "locked", "backpressure"}
          => fate[attempt] = "lost"
    /\ pc = "answered" /\ answer.label = "other" /\ answer.definite
          => fate[attempt] = "lost"

\* A dry run never gets past its first prepare.
DryRunStopsEarly ==
    op.dryRun => pc \in {"start", "prepare", "done"} /\ attempt = 1
                 /\ fate[attempt] = "none"

\* The breaker has not been told of a call that is still going on.
BreakerWaits ==
    /\ pc # "done" => result = NoResult /\ failures + successes = 0
    /\ pc = "done" => result.kind # "none"

\* What has been returned is true of the ledger, now and later.
ReportIsTrue ==
    /\ result.kind = "ok" => \E c \in Attempts : fate[c] = "committed"
    /\ result.kind = "dryRun" => \A c \in Attempts : ~Unsettled(c)
    /\ result.kind = "err" /\ ~OutcomeUnknown(result)
          => \A c \in Attempts : ~Unsettled(c)

IInv ==
    /\ TypeOK
    /\ NoForgottenExecute
    /\ BreakerHearsOnce
    /\ FatesFollowCall
    /\ DryRunStopsEarly
    /\ BreakerWaits
    /\ ReportIsTrue

-----------------------------------------------------------------------------
(* The error a call returns.                                               *)

\* mark_uncertain keeps the error's own text and adds the marker when an
\* earlier execute is uncertain.
LEMMA ErrIsMarked ==
  ASSUME NEW m \in Markers, NEW u \in 0..MaxRetries
  PROVE  /\ Err(m, u) \in [kind : {"none", "ok", "dryRun", "err"},
                           markers : SUBSET Markers]
         /\ Err(m, u).kind = "err"
         /\ u # 0 => OutcomeUnknown(Err(m, u))
         /\ m \in {"outcomeUnknown", "DUPLICATE_COMMAND"} => OutcomeUnknown(Err(m, u))
<1>1. Err(m, u).markers \in SUBSET Markers /\ m \in Err(m, u).markers
  BY DEF Err, Markers
<1>2. u # 0 => "outcomeUnknown" \in Err(m, u).markers
  BY DEF Err
<1>3. ASSUME NEW x \in {"outcomeUnknown", "DUPLICATE_COMMAND"}, x \in Err(m, u).markers
      PROVE  OutcomeUnknown(Err(m, u))
  BY <1>3 DEF OutcomeUnknown
<1>4. Err(m, u).kind = "err"
  BY DEF Err
<1>5. Err(m, u) = [kind |-> "err", markers |-> Err(m, u).markers]
  BY DEF Err
<1> QED
  BY <1>1, <1>2, <1>3, <1>4, <1>5

-----------------------------------------------------------------------------
(* Types.                                                                  *)

LEMMA InitType == Init => TypeOK
<1> SUFFICES ASSUME Init PROVE TypeOK
  OBVIOUS
<1> USE DEF Init
<1>1. attempt \in Attempts /\ uncertain \in 0..MaxRetries
  BY MaxRetriesAssumption DEF MaxRetriesAssumption, Attempts
<1>2. result \in [kind : {"none", "ok", "dryRun", "err"}, markers : SUBSET Markers]
  BY DEF NoResult
<1>3. fate \in [Attempts -> Fates]
  BY DEF Fates
<1>4. /\ op \in [background : BOOLEAN, dryRun : BOOLEAN, force : BOOLEAN]
      /\ pc \in {"start", "prepare", "execute", "answered", "scan", "done"}
      /\ recoverable \in BOOLEAN /\ paused \in BOOLEAN
      /\ answer \in Answers \cup {NoAnswer}
      /\ failures \in Nat /\ successes \in Nat
  OBVIOUS
<1> QED
  BY <1>1, <1>2, <1>3, <1>4 DEF TypeOK

LEMMA StepType == TypeOK /\ [Next]_vars => TypeOK'
<1> SUFFICES ASSUME TypeOK, [Next]_vars PROVE TypeOK'
  OBVIOUS
<1> USE MaxRetriesAssumption DEF TypeOK, Attempts
<1>1. CASE RecordOffset
  BY <1>1 DEF RecordOffset
<1>2. CASE PrepareFails
  BY <1>2, ErrIsMarked DEF PrepareFails, Return, RecordFailure, Markers
<1>3. CASE VerifyFails
  BY <1>3, ErrIsMarked DEF VerifyFails, Return, Markers
<1>4. CASE DryRun
  BY <1>4 DEF DryRun, Return
<1>5. CASE Sign
  BY <1>5 DEF Sign
<1>6. CASE Execute
  BY <1>6 DEF Execute, FatesOf, Answers, Labels, Fates
<1>7. CASE Succeeded
  BY <1>7 DEF Succeeded, Return, RecordSuccess
<1>8. CASE Duplicate
  BY <1>8, ErrIsMarked DEF Duplicate, Return, RecordSuccess, Markers
<1>9. CASE Inactive
  BY <1>9, ErrIsMarked DEF Inactive, Retry, RetryAllowed, Return, Markers
<1>10. CASE BackgroundGivesUp
  BY <1>10, ErrIsMarked DEF BackgroundGivesUp, Return, Markers
<1>11. CASE Refused
  BY <1>11, ErrIsMarked DEF Refused, RetryOrFail, Retry, RetryAllowed, Return, RecordFailure,
     Markers
<1>12. CASE StartRecovery
  BY <1>12 DEF StartRecovery
<1>13. CASE RecoveryIsOff
  BY <1>13, ErrIsMarked DEF RecoveryIsOff, NowUncertain, RetryOrFail, Retry, RetryAllowed, Return,
     RecordFailure, Markers
<1>14. CASE ScanFound
  BY <1>14 DEF ScanFound, Return, RecordSuccess
<1>15. CASE ScanNotFound
  BY <1>15, ErrIsMarked DEF ScanNotFound, NowUncertain, RetryOrFail, Retry, RetryAllowed, Return,
     RecordFailure, Markers
<1>16. CASE ScanUnknown
  BY <1>16, ErrIsMarked DEF ScanUnknown, Return, RecordFailure, Markers
<1>17. ASSUME NEW c \in Attempts, LedgerDecides(c) PROVE TypeOK'
  BY <1>17 DEF LedgerDecides, Fates
<1>18. CASE UNCHANGED vars
  BY <1>18 DEF vars
<1> QED
  BY <1>1, <1>2, <1>3, <1>4, <1>5, <1>6, <1>7, <1>8, <1>9, <1>10, <1>11, <1>12, <1>13, <1>14, <1>15, <1>16, <1>17, <1>18 DEF Next, ClientStep

-----------------------------------------------------------------------------
(* The inductive invariant is one.                                         *)

LEMMA InitIInv == Init => IInv
<1> SUFFICES ASSUME Init PROVE IInv
  OBVIOUS
<1>1. TypeOK
  BY InitType
<1> QED
  BY <1>1
  DEF IInv, Init, TypeOK, NoForgottenExecute, BreakerHearsOnce, FatesFollowCall,
      DryRunStopsEarly, BreakerWaits, ReportIsTrue, NoResult, Unsettled, Attempts

\* A retry is safe when the attempt left behind cannot commit or is
\* remembered as uncertain.
LEMMA RetryIsSafe ==
  ASSUME IInv, TypeOK', Retry, UNCHANGED <<op, fate>>,
         pc = "answered" \/ pc = "scan",
         uncertain # 0 => uncertain' # 0,
         Unsettled(attempt) => uncertain' # 0
  PROVE  IInv'
<1> USE DEF IInv, TypeOK, Attempts
<1>1. attempt' = attempt + 1 /\ pc' = "prepare" /\ attempt' \in 1..MaxRetries
  BY DEF Retry
<1>2. NoForgottenExecute'
  BY <1>1 DEF NoForgottenExecute, Unsettled
<1>3. FatesFollowCall' /\ DryRunStopsEarly'
  BY <1>1 DEF FatesFollowCall, DryRunStopsEarly
<1>4. BreakerHearsOnce' /\ BreakerWaits'
  BY <1>1 DEF BreakerHearsOnce, BreakerWaits, Retry
<1>5. ReportIsTrue'
  BY <1>4, <1>1 DEF ReportIsTrue, BreakerWaits, NoResult
<1> QED
  BY <1>2, <1>3, <1>4, <1>5

\* Giving up with an error is safe when an attempt that may still commit is
\* remembered as uncertain or the error itself says so.
LEMMA FailIsSafe ==
  ASSUME IInv, TypeOK', UNCHANGED <<op, fate>>,
         pc # "done",
         NEW m \in Markers, Return(Err(m, uncertain')),
         uncertain # 0 => uncertain' # 0,
         op.dryRun => pc = "prepare",
         failures' + successes' <= 1,
         Unsettled(attempt) => uncertain' # 0 \/ OutcomeUnknown(Err(m, uncertain'))
  PROVE  IInv'
<1> USE DEF IInv, TypeOK, Attempts
<1>1. pc' = "done" /\ attempt' = attempt /\ result' = Err(m, uncertain')
  BY DEF Return
<1>2. result'.kind = "err" /\ (uncertain' # 0 => OutcomeUnknown(result'))
  BY <1>1, ErrIsMarked
<1>3. NoForgottenExecute'
  BY <1>1 DEF NoForgottenExecute, Unsettled
<1>4. FatesFollowCall' /\ DryRunStopsEarly'
  BY <1>1 DEF FatesFollowCall, DryRunStopsEarly
<1>5. BreakerHearsOnce' /\ BreakerWaits'
  BY <1>1, <1>2 DEF BreakerHearsOnce, BreakerWaits
<1>6. ASSUME ~OutcomeUnknown(result') PROVE \A c \in Attempts : ~Unsettled(c)
  BY <1>6, <1>1, <1>2 DEF NoForgottenExecute, FatesFollowCall, Unsettled
<1>7. ReportIsTrue'
  BY <1>2, <1>6 DEF ReportIsTrue, Unsettled
<1> QED
  BY <1>3, <1>4, <1>5, <1>7

\* One case per action of Next.
LEMMA StepIInv == IInv /\ [Next]_vars => IInv'
<1> SUFFICES ASSUME IInv, [Next]_vars PROVE IInv'
  OBVIOUS
<1>t. TypeOK'
  BY StepType DEF IInv
<1>m. \A m \in {"other", "outcomeUnknown", "DUPLICATE_COMMAND", "INACTIVE_CONTRACTS"} :
        /\ m \in Markers
        /\ m \in {"outcomeUnknown", "DUPLICATE_COMMAND"}
              => \A u \in 0..MaxRetries : OutcomeUnknown(Err(m, u))
  BY ErrIsMarked DEF Markers
<1>b. pc # "done" => failures = 0 /\ successes = 0
  BY DEF IInv, BreakerWaits, TypeOK
<1>f. ASSUME pc # "done", NEW unreachable \in BOOLEAN, RecordFailure(unreachable)
      PROVE  failures' + successes' <= 1
  BY <1>f, <1>b DEF RecordFailure
<1> USE DEF IInv, NoForgottenExecute, BreakerHearsOnce, FatesFollowCall,
        DryRunStopsEarly, BreakerWaits, ReportIsTrue, TypeOK, Attempts, Unsettled
<1>1. CASE RecordOffset
  BY <1>1, <1>t DEF RecordOffset
<1>2. CASE PrepareFails
  <2>1. Return(Err("other", uncertain')) /\ pc = "prepare" /\ UNCHANGED <<op, fate, uncertain>>
    BY <1>2 DEF PrepareFails
  <2>2. failures' + successes' <= 1
    BY <1>2, <1>f DEF PrepareFails
  <2> QED
    BY <1>t, <1>m, <2>1, <2>2, FailIsSafe
<1>3. CASE VerifyFails
  <2>1. Return(Err("other", uncertain')) /\ pc = "prepare" /\ UNCHANGED <<op, fate, uncertain>>
    BY <1>3 DEF VerifyFails
  <2>2. failures' + successes' <= 1
    BY <1>3, <1>b DEF VerifyFails
  <2> QED
    BY <1>t, <1>m, <2>1, <2>2, FailIsSafe
<1>4. CASE DryRun
  BY <1>4, <1>t DEF DryRun, Return
<1>5. CASE Sign
  BY <1>5, <1>t DEF Sign
<1>6. CASE Execute
  <2>1. PICK f \in FatesOf(answer') : fate' = [fate EXCEPT ![attempt] = f]
    BY <1>6 DEF Execute
  <2>2. /\ pc = "execute" /\ pc' = "answered" /\ answer' \in Answers
        /\ UNCHANGED <<op, attempt, uncertain, result, failures, successes>>
    BY <1>6 DEF Execute
  <2>3. /\ answer'.label = "ok" => f = "committed"
        /\ answer'.label \in {"inactive", "locked", "backpressure"} => f = "lost"
        /\ answer'.label = "other" /\ answer'.definite => f = "lost"
    BY <2>1, <2>2 DEF FatesOf
  <2>4. FatesFollowCall' /\ NoForgottenExecute'
    BY <2>1, <2>2, <2>3
  <2>5. DryRunStopsEarly' /\ BreakerHearsOnce' /\ BreakerWaits'
    BY <2>2
  <2>6. ReportIsTrue'
    BY <2>2 DEF NoResult
  <2> QED
    BY <1>t, <2>4, <2>5, <2>6
<1>7. CASE Succeeded
  BY <1>7, <1>t DEF Succeeded, Return, RecordSuccess
<1>8. CASE Duplicate
  <2>1. pc = "answered" /\ UNCHANGED <<op, fate, uncertain>> /\ failures' + successes' <= 1
    BY <1>8, <1>b DEF Duplicate, RecordSuccess
  <2>2. CASE Return(Err("DUPLICATE_COMMAND", uncertain))
    <3>1. Return(Err("DUPLICATE_COMMAND", uncertain'))
      BY <2>1, <2>2
    <3> QED
      BY <1>t, <1>m, <2>1, <3>1, FailIsSafe
  <2>3. CASE fate[attempt] = "committed" /\ Return([kind |-> "ok", markers |-> {}])
    BY <1>8, <1>t, <2>3 DEF Duplicate, Return, RecordSuccess
  <2> QED
    BY <1>8, <2>2, <2>3 DEF Duplicate
<1>9. CASE Inactive
  <2>1. pc = "answered" /\ UNCHANGED <<op, fate, uncertain>> /\ ~Unsettled(attempt)
    BY <1>9 DEF Inactive
  <2>2. CASE Retry
    BY <1>t, <2>1, <2>2, RetryIsSafe
  <2>3. CASE Return(Err("INACTIVE_CONTRACTS", uncertain)) /\ UNCHANGED <<failures, successes>>
    <3>1. Return(Err("INACTIVE_CONTRACTS", uncertain')) /\ failures' + successes' <= 1
      BY <2>1, <2>3, <1>b
    <3> QED
      BY <1>t, <1>m, <2>1, <3>1, FailIsSafe
  <2> QED
    BY <1>9, <2>2, <2>3 DEF Inactive
<1>10. CASE BackgroundGivesUp
  <2>1. /\ pc = "answered" /\ UNCHANGED <<op, fate, uncertain>> /\ ~Unsettled(attempt)
        /\ Return(Err("other", uncertain')) /\ failures' + successes' <= 1
    BY <1>10, <1>b DEF BackgroundGivesUp
  <2> QED
    BY <1>t, <1>m, <2>1, FailIsSafe
<1>11. CASE Refused
  <2>1. pc = "answered" /\ UNCHANGED <<op, fate, uncertain>> /\ ~Unsettled(attempt)
    BY <1>11 DEF Refused
  <2>2. CASE Retry
    BY <1>t, <2>1, <2>2, RetryIsSafe
  <2>3. ASSUME NEW unreachable \in BOOLEAN, RecordFailure(unreachable),
               Return(Err("other", uncertain))
        PROVE  IInv'
    <3>1. Return(Err("other", uncertain')) /\ failures' + successes' <= 1
      BY <2>1, <2>3, <1>f
    <3> QED
      BY <1>t, <1>m, <2>1, <3>1, FailIsSafe
  <2> QED
    BY <1>11, <2>2, <2>3 DEF Refused, RetryOrFail
<1>12. CASE StartRecovery
  BY <1>12, <1>t DEF StartRecovery, LooksAtLedger
<1>n. NowUncertain # 0
  BY DEF NowUncertain
<1>13. CASE RecoveryIsOff \/ ScanNotFound
  <2>1. /\ pc = "answered" \/ pc = "scan"
        /\ UNCHANGED <<op, fate>> /\ uncertain' = NowUncertain
        /\ RetryOrFail("other", uncertain')
    BY <1>13 DEF RecoveryIsOff, ScanNotFound
  <2>2. CASE Retry
    BY <1>n, <1>t, <2>1, <2>2, RetryIsSafe
  <2>3. ASSUME NEW unreachable \in BOOLEAN, RecordFailure(unreachable),
               Return(Err("other", uncertain'))
        PROVE  IInv'
    <3>1. failures' + successes' <= 1
      BY <2>1, <2>3, <1>f
    <3> QED
      BY <1>n, <1>t, <1>m, <2>1, <2>3, <3>1, FailIsSafe
  <2> QED
    BY <2>1, <2>2, <2>3 DEF RetryOrFail
<1>14. CASE ScanFound
  BY <1>14, <1>t DEF ScanFound, Return, RecordSuccess
<1>15. CASE ScanUnknown
  <2>1. /\ pc = "scan" /\ UNCHANGED <<op, fate, uncertain>>
        /\ Return(Err("outcomeUnknown", uncertain'))
    BY <1>15 DEF ScanUnknown
  <2>2. failures' + successes' <= 1
    BY <1>15, <1>f DEF ScanUnknown
  <2> QED
    BY <1>t, <1>m, <2>1, <2>2, FailIsSafe
<1>16. ASSUME NEW c \in Attempts, LedgerDecides(c) PROVE IInv'
  BY <1>16, <1>t DEF LedgerDecides
<1>17. CASE UNCHANGED vars
  BY <1>17, <1>t DEF vars
<1> QED
  BY <1>1, <1>2, <1>3, <1>4, <1>5, <1>6, <1>7, <1>8, <1>9, <1>10, <1>11, <1>12,
     <1>13, <1>14, <1>15, <1>16, <1>17
  DEF Next, ClientStep

-----------------------------------------------------------------------------
(* The theorems.                                                           *)

\* Every state of a call satisfies the inductive invariant.
THEOREM Invariance == Spec => []IInv
  BY InitIInv, StepIInv, PTL DEF Spec

\* The types are right; in particular the attempt counter of submit_attempts
\* never passes MAX_RETRIES.
THEOREM TypeCorrect == Spec => []TypeOK
  BY Invariance, PTL DEF IInv

\* No retry of submit_attempts forgets a command that may still commit.
THEOREM NothingForgotten == Spec => []NoForgottenExecute
  BY Invariance, PTL DEF IInv

\* The ledger-health breaker hears of one submit_transaction call at most once.
THEOREM BreakerOnce == Spec => []BreakerHearsOnce
  BY Invariance, PTL DEF IInv

\* The refinement mapping takes initial states to initial states.
LEMMA InitContract == Init => Contract!Init
<1> SUFFICES ASSUME Init PROVE Contract!Init
  OBVIOUS
<1>1. Committed = {}
  BY DEF Init, Committed, Attempts
<1>2. Reported = "pending"
  BY DEF Init, NoResult, Reported
<1> QED
  BY <1>1, <1>2 DEF Contract!Init

\* What the callers of submit_transaction see of its result.
LEMMA ReportedValue ==
  ASSUME TypeOK
  PROVE  /\ result.kind = "none" => Reported = "pending"
         /\ result.kind = "ok" => Reported = "ok"
         /\ result.kind = "dryRun" => Reported = "failed"
         /\ result.kind = "err" /\ OutcomeUnknown(result) => Reported = "unknown"
         /\ result.kind = "err" /\ ~OutcomeUnknown(result) => Reported = "failed"
  BY DEF Reported, TypeOK

\* Returning is one Report of the contract.
LEMMA ReturnIsReport ==
  ASSUME IInv, IInv', pc # "done", pc' = "done", UNCHANGED fate
  PROVE  Contract!Next
<1>1. Reported = "pending"
  BY ReportedValue DEF IInv, BreakerWaits, NoResult
<1>2. result'.kind \in {"ok", "dryRun", "err"}
  BY DEF IInv, TypeOK, BreakerWaits
<1>3. UNCHANGED Committed
  BY DEF Committed
<1>4. /\ result'.kind = "ok" => Reported' = "ok"
      /\ result'.kind = "dryRun" => Reported' = "failed"
      /\ result'.kind = "err" /\ OutcomeUnknown(result') => Reported' = "unknown"
      /\ result'.kind = "err" /\ ~OutcomeUnknown(result') => Reported' = "failed"
  BY DEF Reported, IInv, TypeOK
<1>5. Reported' = "ok" => Committed # {}
  BY <1>2, <1>3, <1>4 DEF IInv, ReportIsTrue, Committed
<1>6. Reported' = "failed" => Committed = {}
  BY <1>2, <1>3, <1>4 DEF IInv, ReportIsTrue, Committed, Unsettled
<1>7. Reported' \in {"ok", "failed", "unknown"}
  BY <1>2, <1>4
<1> QED
  BY <1>1, <1>3, <1>5, <1>6, <1>7 DEF Contract!Next, Contract!Report, Contract!Reports

\* A command that changes its fate commits, or the contract does not notice.
LEMMA FateIsCommit ==
  ASSUME IInv, UNCHANGED result, NEW c \in Attempts, NEW f \in Fates,
         fate' = [fate EXCEPT ![c] = f], fate[c] # "committed",
         Reported # "failed"
  PROVE  Contract!Next \/ UNCHANGED Contract!vars
<1>1. UNCHANGED Reported
  BY DEF Reported, OutcomeUnknown
<1>2. CASE f = "committed"
  <2>1. Committed' = Committed \cup {c} /\ c \notin Committed
    BY <1>2 DEF Committed, IInv, TypeOK
  <2> QED
    BY <1>1, <2>1 DEF Contract!Next, Contract!Commit
<1>3. CASE f # "committed"
  <2>1. UNCHANGED Committed
    BY <1>3 DEF Committed, IInv, TypeOK
  <2> QED
    BY <1>1, <2>1 DEF Contract!vars
<1> QED
  BY <1>2, <1>3

\* Every step is a step of the contract or leaves it alone.
LEMMA StepContract == IInv /\ IInv' /\ [Next]_vars => [Contract!Next]_(Contract!vars)
<1> SUFFICES ASSUME IInv, IInv', [Next]_vars
             PROVE  Contract!Next \/ UNCHANGED Contract!vars
  OBVIOUS
<1>1. CASE UNCHANGED <<result, fate>>
  BY <1>1 DEF Contract!vars, Reported, Committed, OutcomeUnknown
<1>2. CASE pc # "done" /\ pc' = "done" /\ UNCHANGED fate
  BY <1>2, ReturnIsReport
<1>3. CASE Execute
  <2>1. PICK f \in FatesOf(answer') : fate' = [fate EXCEPT ![attempt] = f]
    BY <1>3 DEF Execute
  <2>2. f \in Fates
    BY <1>3, <2>1 DEF Execute, Answers, Labels, FatesOf, Fates
  <2>3. attempt \in Attempts /\ fate[attempt] # "committed" /\ UNCHANGED result
    BY <1>3 DEF Execute, IInv, TypeOK, FatesFollowCall
  <2>4. Reported # "failed"
    BY <1>3, ReportedValue DEF Execute, IInv, BreakerWaits, NoResult
  <2> QED
    BY <2>1, <2>2, <2>3, <2>4, FateIsCommit
<1>4. ASSUME NEW c \in Attempts, LedgerDecides(c)
      PROVE  Contract!Next \/ UNCHANGED Contract!vars
  <2>1. PICK f \in Fates : fate' = [fate EXCEPT ![c] = f]
    BY <1>4 DEF LedgerDecides, Fates
  <2>2. Unsettled(c) /\ fate[c] # "committed" /\ UNCHANGED result
    BY <1>4 DEF LedgerDecides, Unsettled
  <2>3. Reported # "failed"
    BY <2>2, ReportedValue DEF IInv, ReportIsTrue, TypeOK
  <2> QED
    BY <2>1, <2>2, <2>3, FateIsCommit
<1>5. ASSUME ClientStep, ~Execute
      PROVE  \/ UNCHANGED <<result, fate>>
             \/ pc # "done" /\ pc' = "done" /\ UNCHANGED fate
  BY <1>5
  DEF ClientStep, RecordOffset, PrepareFails, VerifyFails, DryRun, Sign, Succeeded,
      Duplicate, Inactive, BackgroundGivesUp, Refused, StartRecovery, RecoveryIsOff,
      ScanFound, ScanNotFound, ScanUnknown, RetryOrFail, Retry, Return
<1> QED
  BY <1>1, <1>2, <1>3, <1>4, <1>5 DEF Next, vars

\* submit_transaction implements the submit contract, whatever the participant
\* does with a command and however late: an error without one of the markers of
\* accept_settle::outcome_unknown means nothing has committed or ever will.
THEOREM ImplementsContract == Spec => KeepsContract
  BY Invariance, InitContract, StepContract, PTL DEF Spec, KeepsContract, Contract!Spec

-----------------------------------------------------------------------------
(* The order grid: what becomes of an order that was submitted              *)

GridTypes ==
    /\ inFlight \subseteq Orders /\ live \subseteq Orders /\ matched \subseteq Orders
    /\ tracked \subseteq Orders /\ kept \subseteq Orders /\ rejected \subseteq Orders
    /\ looking \in Orders \cup {NoOrder} /\ current \in Orders \cup {NoOrder}
    /\ outcome \in [Orders -> {"none", "unknown", "shown", "aborted"}]
    /\ mid \in [Orders -> Prices \cup OldPrices \cup {NoPrice}]

\* A mid is at hand wherever an order may be placed.
SeenOK == stage \in {"list", "retry", "ops", "submitting"} => seen \in Prices

\* The order being submitted has a guard, and no fate yet.
CurrentOK ==
    /\ current # NoOrder <=> stage = "submitting"
    /\ current # NoOrder =>
          /\ placing = TRUE /\ current \notin Old /\ outcome[current] = "none" /\ looking # current
          /\ mid[current] # NoPrice /\ current \notin tracked \cup kept \cup rejected

\* What was not submitted is nowhere.
FreshOK ==
    /\ \A o \in Old : mid[o] # NoPrice
    /\ \A o \in Orders : mid[o] = NoPrice =>
          /\ o \notin inFlight \cup live \cup matched \cup tracked \cup kept \cup rejected
          /\ outcome[o] = "none" /\ o # looking /\ o # current

\* An order on its way is not on the book yet; one that arrived or may arrive is
\* being submitted, tracked, or of a submit without a verdict.
ArrivedOK ==
    /\ inFlight \cap (live \cup matched) = {}
    /\ \A o \in (inFlight \cup live \cup matched) \ Old :
          o = current \/ o \in tracked \/ outcome[o] \in {"unknown", "aborted"}
    /\ \A o \in Orders : outcome[o] = "unknown" => o \in kept \cup tracked

\* Only matches of such submits are looked up, and rejected when they are not listed,
\* which is for good, or when the task died while submitting them.
LookupOK ==
    /\ looking # NoOrder => looking \in matched \ Old /\ outcome[looking] \in {"unknown", "aborted"}
    /\ \A o \in rejected :
          /\ o \in matched \ Old
          /\ outcome[o] = "aborted" \/ (outcome[o] = "unknown" /\ o \notin live \cup inFlight)

\* The sweep has the book for itself, and its second empty look is the last word.
SweepOK ==
    /\ sweep # "off" => stage = "ended"
    /\ sweep = "withdrawn" /\ LandsPromptly => live = {} /\ inFlight = {}

GridInv == GridTypes /\ SeenOK /\ CurrentOK /\ FreshOK /\ ArrivedOK /\ LookupOK /\ SweepOK

USE DEF serverVars, trackerVars, priceVars, bookVars, visitVars, sweepVars, Visiting

LEMMA GridInitInv == GridInit => GridInv
<1> SUFFICES ASSUME GridInit PROVE GridInv
  OBVIOUS
<1> USE OrdersAssumption DEF GridInit
<1>1. GridTypes BY DEF GridTypes
<1>2. SeenOK BY DEF SeenOK
<1>3. CurrentOK BY DEF CurrentOK
<1>4. FreshOK BY DEF FreshOK
<1>5. ArrivedOK BY DEF ArrivedOK
<1>6. LookupOK BY DEF LookupOK
<1>7. SweepOK BY DEF SweepOK
<1> QED BY <1>1, <1>2, <1>3, <1>4, <1>5, <1>6, <1>7 DEF GridInv

\* Every step keeps the invariant.
LEMMA GridInvStep == GridInv /\ [GridNext]_gridVars => GridInv'
<1> SUFFICES ASSUME GridInv, [GridNext]_gridVars PROVE GridInv'
  OBVIOUS
<1> USE OrdersAssumption
<1>t. GridTypes BY DEF GridInv
<1>s. SeenOK BY DEF GridInv
<1>c. CurrentOK BY DEF GridInv
<1>f. FreshOK BY DEF GridInv
<1>a. ArrivedOK BY DEF GridInv
<1>l. LookupOK BY DEF GridInv
<1>w. SweepOK BY DEF GridInv
<1>1. CASE HoldEnds
  <2>1. GridTypes'
    BY <1>t, <1>1
    DEF GridTypes, HoldEnds
  <2>2. SeenOK'
    BY <1>s, <1>t, <1>1
    DEF SeenOK, GridTypes, HoldEnds
  <2>3. CurrentOK'
    BY <1>c, <1>t, <1>f, <1>1
    DEF CurrentOK, GridTypes, FreshOK, HoldEnds
  <2>4. FreshOK'
    BY <1>f, <1>t, <1>s, <1>c, <1>1
    DEF FreshOK, GridTypes, SeenOK, CurrentOK, HoldEnds
  <2>5. ArrivedOK'
    BY <1>a, <1>t, <1>c, <1>f, <1>1
    DEF ArrivedOK, GridTypes, CurrentOK, FreshOK, HoldEnds
  <2>6. LookupOK'
    BY <1>l, <1>t, <1>c, <1>f, <1>a, <1>1
    DEF LookupOK, GridTypes, CurrentOK, FreshOK, ArrivedOK, HoldEnds
  <2>7. SweepOK'
    BY <1>w, <1>1
    DEF SweepOK, HoldEnds
  <2> QED BY <2>1, <2>2, <2>3, <2>4, <2>5, <2>6, <2>7 DEF GridInv
<1>2. CASE VerifyUserOrder
  <2>1. GridTypes'
    BY <1>t, <1>2
    DEF GridTypes, VerifyUserOrder, AdoptListed
  <2>2. SeenOK'
    BY <1>s, <1>t, <1>2
    DEF SeenOK, GridTypes, VerifyUserOrder, AdoptListed
  <2>3. CurrentOK'
    BY <1>c, <1>t, <1>f, <1>2
    DEF CurrentOK, GridTypes, FreshOK, VerifyUserOrder, AdoptListed
  <2>4. FreshOK'
    BY <1>f, <1>t, <1>s, <1>c, <1>2
    DEF FreshOK, GridTypes, SeenOK, CurrentOK, VerifyUserOrder, AdoptListed
  <2>5. ArrivedOK'
    BY <1>a, <1>t, <1>c, <1>f, <1>2
    DEF ArrivedOK, GridTypes, CurrentOK, FreshOK, VerifyUserOrder, AdoptListed
  <2>6. LookupOK'
    BY <1>l, <1>t, <1>c, <1>f, <1>a, <1>2
    DEF LookupOK, GridTypes, CurrentOK, FreshOK, ArrivedOK, VerifyUserOrder, AdoptListed
  <2>7. SweepOK'
    BY <1>w, <1>2
    DEF SweepOK, VerifyUserOrder, AdoptListed
  <2> QED BY <2>1, <2>2, <2>3, <2>4, <2>5, <2>6, <2>7 DEF GridInv
<1>3. CASE ProbeAges
  <2>1. GridTypes'
    BY <1>t, <1>3
    DEF GridTypes, ProbeAges
  <2>2. SeenOK'
    BY <1>s, <1>t, <1>3
    DEF SeenOK, GridTypes, ProbeAges
  <2>3. CurrentOK'
    BY <1>c, <1>t, <1>f, <1>3
    DEF CurrentOK, GridTypes, FreshOK, ProbeAges
  <2>4. FreshOK'
    BY <1>f, <1>t, <1>s, <1>c, <1>3
    DEF FreshOK, GridTypes, SeenOK, CurrentOK, ProbeAges
  <2>5. ArrivedOK'
    BY <1>a, <1>t, <1>c, <1>f, <1>3
    DEF ArrivedOK, GridTypes, CurrentOK, FreshOK, ProbeAges
  <2>6. LookupOK'
    BY <1>l, <1>t, <1>c, <1>f, <1>a, <1>3
    DEF LookupOK, GridTypes, CurrentOK, FreshOK, ArrivedOK, ProbeAges
  <2>7. SweepOK'
    BY <1>w, <1>3
    DEF SweepOK, ProbeAges
  <2> QED BY <2>1, <2>2, <2>3, <2>4, <2>5, <2>6, <2>7 DEF GridInv
<1>4. ASSUME NEW o \in Orders, Book(o) PROVE GridInv'
  <2>1. GridTypes'
    BY <1>t, <1>4
    DEF GridTypes, Book
  <2>2. SeenOK'
    BY <1>s, <1>t, <1>4
    DEF SeenOK, GridTypes, Book
  <2>3. CurrentOK'
    BY <1>c, <1>t, <1>f, <1>4
    DEF CurrentOK, GridTypes, FreshOK, Book
  <2>4. FreshOK'
    BY <1>f, <1>t, <1>s, <1>c, <1>4
    DEF FreshOK, GridTypes, SeenOK, CurrentOK, Book
  <2>5. ArrivedOK'
    BY <1>a, <1>t, <1>c, <1>f, <1>4
    DEF ArrivedOK, GridTypes, CurrentOK, FreshOK, Book
  <2>6. LookupOK'
    BY <1>l, <1>t, <1>c, <1>f, <1>a, <1>4
    DEF LookupOK, GridTypes, CurrentOK, FreshOK, ArrivedOK, Book
  <2>7. SweepOK'
    BY <1>w, <1>4
    DEF SweepOK, Book
  <2> QED BY <2>1, <2>2, <2>3, <2>4, <2>5, <2>6, <2>7 DEF GridInv
<1>5. ASSUME NEW o \in Orders, LoseSubmit(o) PROVE GridInv'
  <2>1. GridTypes'
    BY <1>t, <1>5
    DEF GridTypes, LoseSubmit
  <2>2. SeenOK'
    BY <1>s, <1>t, <1>5
    DEF SeenOK, GridTypes, LoseSubmit
  <2>3. CurrentOK'
    BY <1>c, <1>t, <1>f, <1>5
    DEF CurrentOK, GridTypes, FreshOK, LoseSubmit
  <2>4. FreshOK'
    BY <1>f, <1>t, <1>s, <1>c, <1>5
    DEF FreshOK, GridTypes, SeenOK, CurrentOK, LoseSubmit
  <2>5. ArrivedOK'
    BY <1>a, <1>t, <1>c, <1>f, <1>5
    DEF ArrivedOK, GridTypes, CurrentOK, FreshOK, LoseSubmit
  <2>6. LookupOK'
    BY <1>l, <1>t, <1>c, <1>f, <1>a, <1>5
    DEF LookupOK, GridTypes, CurrentOK, FreshOK, ArrivedOK, LoseSubmit
  <2>7. SweepOK'
    BY <1>w, <1>5
    DEF SweepOK, LoseSubmit
  <2> QED BY <2>1, <2>2, <2>3, <2>4, <2>5, <2>6, <2>7 DEF GridInv
<1>6. ASSUME NEW o \in Orders, Match(o) PROVE GridInv'
  <2>1. GridTypes'
    BY <1>t, <1>6
    DEF GridTypes, Match
  <2>2. SeenOK'
    BY <1>s, <1>t, <1>6
    DEF SeenOK, GridTypes, Match
  <2>3. CurrentOK'
    BY <1>c, <1>t, <1>f, <1>6
    DEF CurrentOK, GridTypes, FreshOK, Match
  <2>4. FreshOK'
    BY <1>f, <1>t, <1>s, <1>c, <1>6
    DEF FreshOK, GridTypes, SeenOK, CurrentOK, Match
  <2>5. ArrivedOK'
    BY <1>a, <1>t, <1>c, <1>f, <1>6
    DEF ArrivedOK, GridTypes, CurrentOK, FreshOK, Match
  <2>6. LookupOK'
    BY <1>l, <1>t, <1>c, <1>f, <1>a, <1>6
    DEF LookupOK, GridTypes, CurrentOK, FreshOK, ArrivedOK, Match
  <2>7. SweepOK'
    BY <1>w, <1>6
    DEF SweepOK, Match
  <2> QED BY <2>1, <2>2, <2>3, <2>4, <2>5, <2>6, <2>7 DEF GridInv
<1>7. ASSUME NEW o \in Orders, NeedServerLookup(o) PROVE GridInv'
  <2>1. GridTypes'
    BY <1>t, <1>7
    DEF GridTypes, NeedServerLookup
  <2>2. SeenOK'
    BY <1>s, <1>t, <1>7
    DEF SeenOK, GridTypes, NeedServerLookup
  <2>3. CurrentOK'
    BY <1>c, <1>t, <1>f, <1>7
    DEF CurrentOK, GridTypes, FreshOK, NeedServerLookup
  <2>4. FreshOK'
    BY <1>f, <1>t, <1>s, <1>c, <1>7
    DEF FreshOK, GridTypes, SeenOK, CurrentOK, NeedServerLookup
  <2>5. ArrivedOK'
    BY <1>a, <1>t, <1>c, <1>f, <1>7
    DEF ArrivedOK, GridTypes, CurrentOK, FreshOK, NeedServerLookup
  <2>6. LookupOK'
    BY <1>l, <1>t, <1>c, <1>f, <1>a, <1>7
    DEF LookupOK, GridTypes, CurrentOK, FreshOK, ArrivedOK, NeedServerLookup
  <2>7. SweepOK'
    BY <1>w, <1>7
    DEF SweepOK, NeedServerLookup
  <2> QED BY <2>1, <2>2, <2>3, <2>4, <2>5, <2>6, <2>7 DEF GridInv
<1>8. CASE VisitUnquoted
  <2>1. GridTypes'
    BY <1>t, <1>8
    DEF GridTypes, VisitUnquoted
  <2>2. SeenOK'
    BY <1>s, <1>t, <1>8
    DEF SeenOK, GridTypes, VisitUnquoted
  <2>3. CurrentOK'
    BY <1>c, <1>t, <1>f, <1>8
    DEF CurrentOK, GridTypes, FreshOK, VisitUnquoted
  <2>4. FreshOK'
    BY <1>f, <1>t, <1>s, <1>c, <1>8
    DEF FreshOK, GridTypes, SeenOK, CurrentOK, VisitUnquoted
  <2>5. ArrivedOK'
    BY <1>a, <1>t, <1>c, <1>f, <1>8
    DEF ArrivedOK, GridTypes, CurrentOK, FreshOK, VisitUnquoted
  <2>6. LookupOK'
    BY <1>l, <1>t, <1>c, <1>f, <1>a, <1>8
    DEF LookupOK, GridTypes, CurrentOK, FreshOK, ArrivedOK, VisitUnquoted
  <2>7. SweepOK'
    BY <1>w, <1>8
    DEF SweepOK, VisitUnquoted
  <2> QED BY <2>1, <2>2, <2>3, <2>4, <2>5, <2>6, <2>7 DEF GridInv
<1>9. CASE ListUnquoted
  <2>1. GridTypes'
    BY <1>t, <1>9
    DEF GridTypes, ListUnquoted, AdoptListed
  <2>2. SeenOK'
    BY <1>s, <1>t, <1>9
    DEF SeenOK, GridTypes, ListUnquoted, AdoptListed
  <2>3. CurrentOK'
    BY <1>c, <1>t, <1>f, <1>9
    DEF CurrentOK, GridTypes, FreshOK, ListUnquoted, AdoptListed
  <2>4. FreshOK'
    BY <1>f, <1>t, <1>s, <1>c, <1>9
    DEF FreshOK, GridTypes, SeenOK, CurrentOK, ListUnquoted, AdoptListed
  <2>5. ArrivedOK'
    BY <1>a, <1>t, <1>c, <1>f, <1>9
    DEF ArrivedOK, GridTypes, CurrentOK, FreshOK, ListUnquoted, AdoptListed
  <2>6. LookupOK'
    BY <1>l, <1>t, <1>c, <1>f, <1>a, <1>9
    DEF LookupOK, GridTypes, CurrentOK, FreshOK, ArrivedOK, ListUnquoted, AdoptListed
  <2>7. SweepOK'
    BY <1>w, <1>9
    DEF SweepOK, ListUnquoted, AdoptListed
  <2> QED BY <2>1, <2>2, <2>3, <2>4, <2>5, <2>6, <2>7 DEF GridInv
<1>10. CASE WithdrawEnds
  <2>1. GridTypes'
    BY <1>t, <1>10
    DEF GridTypes, WithdrawEnds, EndVisit
  <2>2. SeenOK'
    BY <1>s, <1>t, <1>10
    DEF SeenOK, GridTypes, WithdrawEnds, EndVisit
  <2>3. CurrentOK'
    BY <1>c, <1>t, <1>f, <1>10
    DEF CurrentOK, GridTypes, FreshOK, WithdrawEnds, EndVisit
  <2>4. FreshOK'
    BY <1>f, <1>t, <1>s, <1>c, <1>10
    DEF FreshOK, GridTypes, SeenOK, CurrentOK, WithdrawEnds, EndVisit
  <2>5. ArrivedOK'
    BY <1>a, <1>t, <1>c, <1>f, <1>10
    DEF ArrivedOK, GridTypes, CurrentOK, FreshOK, WithdrawEnds, EndVisit
  <2>6. LookupOK'
    BY <1>l, <1>t, <1>c, <1>f, <1>a, <1>10
    DEF LookupOK, GridTypes, CurrentOK, FreshOK, ArrivedOK, WithdrawEnds, EndVisit
  <2>7. SweepOK'
    BY <1>w, <1>10
    DEF SweepOK, WithdrawEnds, EndVisit
  <2> QED BY <2>1, <2>2, <2>3, <2>4, <2>5, <2>6, <2>7 DEF GridInv
<1>11. CASE StartCycle
  <2>1. GridTypes'
    BY <1>t, <1>11
    DEF GridTypes, StartCycle
  <2>2. SeenOK'
    BY <1>s, <1>t, <1>11
    DEF SeenOK, GridTypes, StartCycle
  <2>3. CurrentOK'
    BY <1>c, <1>t, <1>f, <1>11
    DEF CurrentOK, GridTypes, FreshOK, StartCycle
  <2>4. FreshOK'
    BY <1>f, <1>t, <1>s, <1>c, <1>11
    DEF FreshOK, GridTypes, SeenOK, CurrentOK, StartCycle
  <2>5. ArrivedOK'
    BY <1>a, <1>t, <1>c, <1>f, <1>11
    DEF ArrivedOK, GridTypes, CurrentOK, FreshOK, StartCycle
  <2>6. LookupOK'
    BY <1>l, <1>t, <1>c, <1>f, <1>a, <1>11
    DEF LookupOK, GridTypes, CurrentOK, FreshOK, ArrivedOK, StartCycle
  <2>7. SweepOK'
    BY <1>w, <1>11
    DEF SweepOK, StartCycle
  <2> QED BY <2>1, <2>2, <2>3, <2>4, <2>5, <2>6, <2>7 DEF GridInv
<1>12. CASE PriceFails
  <2>1. GridTypes'
    BY <1>t, <1>12
    DEF GridTypes, PriceFails, EndVisit
  <2>2. SeenOK'
    BY <1>s, <1>t, <1>12
    DEF SeenOK, GridTypes, PriceFails, EndVisit
  <2>3. CurrentOK'
    BY <1>c, <1>t, <1>f, <1>12
    DEF CurrentOK, GridTypes, FreshOK, PriceFails, EndVisit
  <2>4. FreshOK'
    BY <1>f, <1>t, <1>s, <1>c, <1>12
    DEF FreshOK, GridTypes, SeenOK, CurrentOK, PriceFails, EndVisit
  <2>5. ArrivedOK'
    BY <1>a, <1>t, <1>c, <1>f, <1>12
    DEF ArrivedOK, GridTypes, CurrentOK, FreshOK, PriceFails, EndVisit
  <2>6. LookupOK'
    BY <1>l, <1>t, <1>c, <1>f, <1>a, <1>12
    DEF LookupOK, GridTypes, CurrentOK, FreshOK, ArrivedOK, PriceFails, EndVisit
  <2>7. SweepOK'
    BY <1>w, <1>12
    DEF SweepOK, PriceFails, EndVisit
  <2> QED BY <2>1, <2>2, <2>3, <2>4, <2>5, <2>6, <2>7 DEF GridInv
<1>13. ASSUME NEW p \in Prices, PriceArrives(p) PROVE GridInv'
  <2>1. GridTypes'
    BY <1>t, <1>13
    DEF GridTypes, PriceArrives, EndVisit
  <2>2. SeenOK'
    BY <1>s, <1>t, <1>13
    DEF SeenOK, GridTypes, PriceArrives, EndVisit
  <2>3. CurrentOK'
    BY <1>c, <1>t, <1>f, <1>13
    DEF CurrentOK, GridTypes, FreshOK, PriceArrives, EndVisit
  <2>4. FreshOK'
    BY <1>f, <1>t, <1>s, <1>c, <1>13
    DEF FreshOK, GridTypes, SeenOK, CurrentOK, PriceArrives, EndVisit
  <2>5. ArrivedOK'
    BY <1>a, <1>t, <1>c, <1>f, <1>13
    DEF ArrivedOK, GridTypes, CurrentOK, FreshOK, PriceArrives, EndVisit
  <2>6. LookupOK'
    BY <1>l, <1>t, <1>c, <1>f, <1>a, <1>13
    DEF LookupOK, GridTypes, CurrentOK, FreshOK, ArrivedOK, PriceArrives, EndVisit
  <2>7. SweepOK'
    BY <1>w, <1>13
    DEF SweepOK, PriceArrives, EndVisit
  <2> QED BY <2>1, <2>2, <2>3, <2>4, <2>5, <2>6, <2>7 DEF GridInv
<1>14. CASE ListFails
  <2>1. GridTypes'
    BY <1>t, <1>14
    DEF GridTypes, ListFails, EndVisit
  <2>2. SeenOK'
    BY <1>s, <1>t, <1>14
    DEF SeenOK, GridTypes, ListFails, EndVisit
  <2>3. CurrentOK'
    BY <1>c, <1>t, <1>f, <1>14
    DEF CurrentOK, GridTypes, FreshOK, ListFails, EndVisit
  <2>4. FreshOK'
    BY <1>f, <1>t, <1>s, <1>c, <1>14
    DEF FreshOK, GridTypes, SeenOK, CurrentOK, ListFails, EndVisit
  <2>5. ArrivedOK'
    BY <1>a, <1>t, <1>c, <1>f, <1>14
    DEF ArrivedOK, GridTypes, CurrentOK, FreshOK, ListFails, EndVisit
  <2>6. LookupOK'
    BY <1>l, <1>t, <1>c, <1>f, <1>a, <1>14
    DEF LookupOK, GridTypes, CurrentOK, FreshOK, ArrivedOK, ListFails, EndVisit
  <2>7. SweepOK'
    BY <1>w, <1>14
    DEF SweepOK, ListFails, EndVisit
  <2> QED BY <2>1, <2>2, <2>3, <2>4, <2>5, <2>6, <2>7 DEF GridInv
<1>15. CASE ListForTeardown
  <2>1. GridTypes'
    BY <1>t, <1>15
    DEF GridTypes, ListForTeardown, AdoptListed
  <2>2. SeenOK'
    BY <1>s, <1>t, <1>15
    DEF SeenOK, GridTypes, ListForTeardown, AdoptListed
  <2>3. CurrentOK'
    BY <1>c, <1>t, <1>f, <1>15
    DEF CurrentOK, GridTypes, FreshOK, ListForTeardown, AdoptListed
  <2>4. FreshOK'
    BY <1>f, <1>t, <1>s, <1>c, <1>15
    DEF FreshOK, GridTypes, SeenOK, CurrentOK, ListForTeardown, AdoptListed
  <2>5. ArrivedOK'
    BY <1>a, <1>t, <1>c, <1>f, <1>15
    DEF ArrivedOK, GridTypes, CurrentOK, FreshOK, ListForTeardown, AdoptListed
  <2>6. LookupOK'
    BY <1>l, <1>t, <1>c, <1>f, <1>a, <1>15
    DEF LookupOK, GridTypes, CurrentOK, FreshOK, ArrivedOK, ListForTeardown, AdoptListed
  <2>7. SweepOK'
    BY <1>w, <1>15
    DEF SweepOK, ListForTeardown, AdoptListed
  <2> QED BY <2>1, <2>2, <2>3, <2>4, <2>5, <2>6, <2>7 DEF GridInv
<1>16. CASE ListOrders
  <2>1. GridTypes'
    BY <1>t, <1>16
    DEF GridTypes, ListOrders, AdoptListed
  <2>2. SeenOK'
    BY <1>s, <1>t, <1>16
    DEF SeenOK, GridTypes, ListOrders, AdoptListed
  <2>3. CurrentOK'
    BY <1>c, <1>t, <1>f, <1>16
    DEF CurrentOK, GridTypes, FreshOK, ListOrders, AdoptListed
  <2>4. FreshOK'
    BY <1>f, <1>t, <1>s, <1>c, <1>16
    DEF FreshOK, GridTypes, SeenOK, CurrentOK, ListOrders, AdoptListed
  <2>5. ArrivedOK'
    BY <1>a, <1>t, <1>c, <1>f, <1>16
    DEF ArrivedOK, GridTypes, CurrentOK, FreshOK, ListOrders, AdoptListed
  <2>6. LookupOK'
    BY <1>l, <1>t, <1>c, <1>f, <1>a, <1>16
    DEF LookupOK, GridTypes, CurrentOK, FreshOK, ArrivedOK, ListOrders, AdoptListed
  <2>7. SweepOK'
    BY <1>w, <1>16
    DEF SweepOK, ListOrders, AdoptListed
  <2> QED BY <2>1, <2>2, <2>3, <2>4, <2>5, <2>6, <2>7 DEF GridInv
<1>17. CASE CancelOrder
  <2>1. GridTypes'
    BY <1>t, <1>17
    DEF GridTypes, CancelOrder, TaskCancels, CancelWorks
  <2>2. SeenOK'
    BY <1>s, <1>t, <1>17
    DEF SeenOK, GridTypes, CancelOrder, TaskCancels, CancelWorks
  <2>3. CurrentOK'
    BY <1>c, <1>t, <1>f, <1>17
    DEF CurrentOK, GridTypes, FreshOK, CancelOrder, TaskCancels, CancelWorks
  <2>4. FreshOK'
    BY <1>f, <1>t, <1>s, <1>c, <1>17
    DEF FreshOK, GridTypes, SeenOK, CurrentOK, CancelOrder, TaskCancels, CancelWorks
  <2>5. ArrivedOK'
    BY <1>a, <1>t, <1>c, <1>f, <1>17
    DEF ArrivedOK, GridTypes, CurrentOK, FreshOK, CancelOrder, TaskCancels, CancelWorks
  <2>6. LookupOK'
    BY <1>l, <1>t, <1>c, <1>f, <1>a, <1>17
    DEF LookupOK, GridTypes, CurrentOK, FreshOK, ArrivedOK, CancelOrder, TaskCancels, CancelWorks
  <2>7. SweepOK'
    BY <1>w, <1>17
    DEF SweepOK, CancelOrder, TaskCancels, CancelWorks
  <2> QED BY <2>1, <2>2, <2>3, <2>4, <2>5, <2>6, <2>7 DEF GridInv
<1>18. CASE CancelFails
  <2>1. GridTypes'
    BY <1>t, <1>18
    DEF GridTypes, CancelFails, TaskCancels
  <2>2. SeenOK'
    BY <1>s, <1>t, <1>18
    DEF SeenOK, GridTypes, CancelFails, TaskCancels
  <2>3. CurrentOK'
    BY <1>c, <1>t, <1>f, <1>18
    DEF CurrentOK, GridTypes, FreshOK, CancelFails, TaskCancels
  <2>4. FreshOK'
    BY <1>f, <1>t, <1>s, <1>c, <1>18
    DEF FreshOK, GridTypes, SeenOK, CurrentOK, CancelFails, TaskCancels
  <2>5. ArrivedOK'
    BY <1>a, <1>t, <1>c, <1>f, <1>18
    DEF ArrivedOK, GridTypes, CurrentOK, FreshOK, CancelFails, TaskCancels
  <2>6. LookupOK'
    BY <1>l, <1>t, <1>c, <1>f, <1>a, <1>18
    DEF LookupOK, GridTypes, CurrentOK, FreshOK, ArrivedOK, CancelFails, TaskCancels
  <2>7. SweepOK'
    BY <1>w, <1>18
    DEF SweepOK, CancelFails, TaskCancels
  <2> QED BY <2>1, <2>2, <2>3, <2>4, <2>5, <2>6, <2>7 DEF GridInv
<1>19. CASE TeardownEnds
  <2>1. GridTypes'
    BY <1>t, <1>19
    DEF GridTypes, TeardownEnds, EndVisit
  <2>2. SeenOK'
    BY <1>s, <1>t, <1>19
    DEF SeenOK, GridTypes, TeardownEnds, EndVisit
  <2>3. CurrentOK'
    BY <1>c, <1>t, <1>f, <1>19
    DEF CurrentOK, GridTypes, FreshOK, TeardownEnds, EndVisit
  <2>4. FreshOK'
    BY <1>f, <1>t, <1>s, <1>c, <1>19
    DEF FreshOK, GridTypes, SeenOK, CurrentOK, TeardownEnds, EndVisit
  <2>5. ArrivedOK'
    BY <1>a, <1>t, <1>c, <1>f, <1>19
    DEF ArrivedOK, GridTypes, CurrentOK, FreshOK, TeardownEnds, EndVisit
  <2>6. LookupOK'
    BY <1>l, <1>t, <1>c, <1>f, <1>a, <1>19
    DEF LookupOK, GridTypes, CurrentOK, FreshOK, ArrivedOK, TeardownEnds, EndVisit
  <2>7. SweepOK'
    BY <1>w, <1>19
    DEF SweepOK, TeardownEnds, EndVisit
  <2> QED BY <2>1, <2>2, <2>3, <2>4, <2>5, <2>6, <2>7 DEF GridInv
<1>20. CASE PlanVisit
  <2>1. GridTypes'
    BY <1>t, <1>20
    DEF GridTypes, PlanVisit, EndVisit
  <2>2. SeenOK'
    BY <1>s, <1>t, <1>20
    DEF SeenOK, GridTypes, PlanVisit, EndVisit
  <2>3. CurrentOK'
    BY <1>c, <1>t, <1>f, <1>20
    DEF CurrentOK, GridTypes, FreshOK, PlanVisit, EndVisit
  <2>4. FreshOK'
    BY <1>f, <1>t, <1>s, <1>c, <1>20
    DEF FreshOK, GridTypes, SeenOK, CurrentOK, PlanVisit, EndVisit
  <2>5. ArrivedOK'
    BY <1>a, <1>t, <1>c, <1>f, <1>20
    DEF ArrivedOK, GridTypes, CurrentOK, FreshOK, PlanVisit, EndVisit
  <2>6. LookupOK'
    BY <1>l, <1>t, <1>c, <1>f, <1>a, <1>20
    DEF LookupOK, GridTypes, CurrentOK, FreshOK, ArrivedOK, PlanVisit, EndVisit
  <2>7. SweepOK'
    BY <1>w, <1>20
    DEF SweepOK, PlanVisit, EndVisit
  <2> QED BY <2>1, <2>2, <2>3, <2>4, <2>5, <2>6, <2>7 DEF GridInv
<1>21. ASSUME NEW o \in Orders, Submit(o) PROVE GridInv'
  <2>1. GridTypes'
    BY <1>t, <1>s, <1>c, <1>f, <1>a, <1>l, <1>w, <1>21
    DEF GridTypes, SeenOK, CurrentOK, FreshOK, ArrivedOK, LookupOK, SweepOK, Submit, Fresh
  <2>2. SeenOK'
    BY <1>s, <1>t, <1>21
    DEF SeenOK, GridTypes, Submit, Fresh
  <2>3. CurrentOK'
    BY <1>c, <1>t, <1>s, <1>f, <1>a, <1>l, <1>w, <1>21
    DEF CurrentOK, GridTypes, SeenOK, FreshOK, ArrivedOK, LookupOK, SweepOK, Submit, Fresh
  <2>4. FreshOK'
    BY <1>f, <1>t, <1>s, <1>c, <1>21
    DEF FreshOK, GridTypes, SeenOK, CurrentOK, Submit, Fresh
  <2>5. ArrivedOK'
    BY <1>a, <1>t, <1>c, <1>f, <1>21
    DEF ArrivedOK, GridTypes, CurrentOK, FreshOK, Submit, Fresh
  <2>6. LookupOK'
    BY <1>l, <1>t, <1>c, <1>f, <1>a, <1>21
    DEF LookupOK, GridTypes, CurrentOK, FreshOK, ArrivedOK, Submit, Fresh
  <2>7. SweepOK'
    BY <1>w, <1>21
    DEF SweepOK, Submit, Fresh
  <2> QED BY <2>1, <2>2, <2>3, <2>4, <2>5, <2>6, <2>7 DEF GridInv
<1>22. CASE SkipPlace
  <2>1. GridTypes'
    BY <1>t, <1>22
    DEF GridTypes, SkipPlace
  <2>2. SeenOK'
    BY <1>s, <1>t, <1>22
    DEF SeenOK, GridTypes, SkipPlace
  <2>3. CurrentOK'
    BY <1>c, <1>t, <1>f, <1>22
    DEF CurrentOK, GridTypes, FreshOK, SkipPlace
  <2>4. FreshOK'
    BY <1>f, <1>t, <1>s, <1>c, <1>22
    DEF FreshOK, GridTypes, SeenOK, CurrentOK, SkipPlace
  <2>5. ArrivedOK'
    BY <1>a, <1>t, <1>c, <1>f, <1>22
    DEF ArrivedOK, GridTypes, CurrentOK, FreshOK, SkipPlace
  <2>6. LookupOK'
    BY <1>l, <1>t, <1>c, <1>f, <1>a, <1>22
    DEF LookupOK, GridTypes, CurrentOK, FreshOK, ArrivedOK, SkipPlace
  <2>7. SweepOK'
    BY <1>w, <1>22
    DEF SweepOK, SkipPlace
  <2> QED BY <2>1, <2>2, <2>3, <2>4, <2>5, <2>6, <2>7 DEF GridInv
<1>23. CASE SubmitBooked
  <2>1. GridTypes'
    BY <1>t, <1>23
    DEF GridTypes, SubmitBooked, Submitted
  <2>2. SeenOK'
    BY <1>s, <1>t, <1>23
    DEF SeenOK, GridTypes, SubmitBooked, Submitted
  <2>3. CurrentOK'
    BY <1>c, <1>t, <1>f, <1>23
    DEF CurrentOK, GridTypes, FreshOK, SubmitBooked, Submitted
  <2>4. FreshOK'
    BY <1>f, <1>t, <1>s, <1>c, <1>23
    DEF FreshOK, GridTypes, SeenOK, CurrentOK, SubmitBooked, Submitted
  <2>5. ArrivedOK'
    BY <1>a, <1>t, <1>c, <1>f, <1>23
    DEF ArrivedOK, GridTypes, CurrentOK, FreshOK, SubmitBooked, Submitted
  <2>6. LookupOK'
    BY <1>l, <1>t, <1>c, <1>f, <1>a, <1>23
    DEF LookupOK, GridTypes, CurrentOK, FreshOK, ArrivedOK, SubmitBooked, Submitted
  <2>7. SweepOK'
    BY <1>w, <1>23
    DEF SweepOK, SubmitBooked, Submitted
  <2> QED BY <2>1, <2>2, <2>3, <2>4, <2>5, <2>6, <2>7 DEF GridInv
<1>24. CASE SubmitRefused
  <2>1. GridTypes'
    BY <1>t, <1>24
    DEF GridTypes, SubmitRefused, Submitted
  <2>2. SeenOK'
    BY <1>s, <1>t, <1>24
    DEF SeenOK, GridTypes, SubmitRefused, Submitted
  <2>3. CurrentOK'
    BY <1>c, <1>t, <1>f, <1>24
    DEF CurrentOK, GridTypes, FreshOK, SubmitRefused, Submitted
  <2>4. FreshOK'
    BY <1>f, <1>t, <1>s, <1>c, <1>24
    DEF FreshOK, GridTypes, SeenOK, CurrentOK, SubmitRefused, Submitted
  <2>5. ArrivedOK'
    BY <1>a, <1>t, <1>c, <1>f, <1>24
    DEF ArrivedOK, GridTypes, CurrentOK, FreshOK, SubmitRefused, Submitted
  <2>6. LookupOK'
    BY <1>l, <1>t, <1>c, <1>f, <1>a, <1>24
    DEF LookupOK, GridTypes, CurrentOK, FreshOK, ArrivedOK, SubmitRefused, Submitted
  <2>7. SweepOK'
    BY <1>w, <1>24
    DEF SweepOK, SubmitRefused, Submitted
  <2> QED BY <2>1, <2>2, <2>3, <2>4, <2>5, <2>6, <2>7 DEF GridInv
<1>25. CASE SubmitUnknown
  <2>1. GridTypes'
    BY <1>t, <1>s, <1>c, <1>f, <1>a, <1>l, <1>w, <1>25
    DEF GridTypes, SeenOK, CurrentOK, FreshOK, ArrivedOK, LookupOK, SweepOK, SubmitUnknown, Submitted
  <2>2. SeenOK'
    BY <1>s, <1>t, <1>25
    DEF SeenOK, GridTypes, SubmitUnknown, Submitted
  <2>3. CurrentOK'
    BY <1>c, <1>t, <1>f, <1>25
    DEF CurrentOK, GridTypes, FreshOK, SubmitUnknown, Submitted
  <2>4. FreshOK'
    BY <1>f, <1>t, <1>s, <1>c, <1>25
    DEF FreshOK, GridTypes, SeenOK, CurrentOK, SubmitUnknown, Submitted
  <2>5. ArrivedOK'
    BY <1>a, <1>t, <1>c, <1>f, <1>25
    DEF ArrivedOK, GridTypes, CurrentOK, FreshOK, SubmitUnknown, Submitted
  <2>6. LookupOK'
    BY <1>l, <1>t, <1>c, <1>f, <1>a, <1>25
    DEF LookupOK, GridTypes, CurrentOK, FreshOK, ArrivedOK, SubmitUnknown, Submitted
  <2>7. SweepOK'
    BY <1>w, <1>25
    DEF SweepOK, SubmitUnknown, Submitted
  <2> QED BY <2>1, <2>2, <2>3, <2>4, <2>5, <2>6, <2>7 DEF GridInv
<1>26. CASE VisitEnds
  <2>1. GridTypes'
    BY <1>t, <1>26
    DEF GridTypes, VisitEnds, EndVisit
  <2>2. SeenOK'
    BY <1>s, <1>t, <1>26
    DEF SeenOK, GridTypes, VisitEnds, EndVisit
  <2>3. CurrentOK'
    BY <1>c, <1>t, <1>f, <1>26
    DEF CurrentOK, GridTypes, FreshOK, VisitEnds, EndVisit
  <2>4. FreshOK'
    BY <1>f, <1>t, <1>s, <1>c, <1>26
    DEF FreshOK, GridTypes, SeenOK, CurrentOK, VisitEnds, EndVisit
  <2>5. ArrivedOK'
    BY <1>a, <1>t, <1>c, <1>f, <1>26
    DEF ArrivedOK, GridTypes, CurrentOK, FreshOK, VisitEnds, EndVisit
  <2>6. LookupOK'
    BY <1>l, <1>t, <1>c, <1>f, <1>a, <1>26
    DEF LookupOK, GridTypes, CurrentOK, FreshOK, ArrivedOK, VisitEnds, EndVisit
  <2>7. SweepOK'
    BY <1>w, <1>26
    DEF SweepOK, VisitEnds, EndVisit
  <2> QED BY <2>1, <2>2, <2>3, <2>4, <2>5, <2>6, <2>7 DEF GridInv
<1>27. CASE Signal
  <2>1. GridTypes'
    BY <1>t, <1>27
    DEF GridTypes, Signal
  <2>2. SeenOK'
    BY <1>s, <1>t, <1>27
    DEF SeenOK, GridTypes, Signal
  <2>3. CurrentOK'
    BY <1>c, <1>t, <1>f, <1>27
    DEF CurrentOK, GridTypes, FreshOK, Signal
  <2>4. FreshOK'
    BY <1>f, <1>t, <1>s, <1>c, <1>27
    DEF FreshOK, GridTypes, SeenOK, CurrentOK, Signal
  <2>5. ArrivedOK'
    BY <1>a, <1>t, <1>c, <1>f, <1>27
    DEF ArrivedOK, GridTypes, CurrentOK, FreshOK, Signal
  <2>6. LookupOK'
    BY <1>l, <1>t, <1>c, <1>f, <1>a, <1>27
    DEF LookupOK, GridTypes, CurrentOK, FreshOK, ArrivedOK, Signal
  <2>7. SweepOK'
    BY <1>w, <1>27
    DEF SweepOK, Signal
  <2> QED BY <2>1, <2>2, <2>3, <2>4, <2>5, <2>6, <2>7 DEF GridInv
<1>28. CASE GridReturns
  <2>1. GridTypes'
    BY <1>t, <1>28
    DEF GridTypes, GridReturns, TaskGone
  <2>2. SeenOK'
    BY <1>s, <1>t, <1>28
    DEF SeenOK, GridTypes, GridReturns, TaskGone
  <2>3. CurrentOK'
    BY <1>c, <1>t, <1>f, <1>28
    DEF CurrentOK, GridTypes, FreshOK, GridReturns, TaskGone
  <2>4. FreshOK'
    BY <1>f, <1>t, <1>s, <1>c, <1>28
    DEF FreshOK, GridTypes, SeenOK, CurrentOK, GridReturns, TaskGone
  <2>5. ArrivedOK'
    BY <1>a, <1>t, <1>c, <1>f, <1>28
    DEF ArrivedOK, GridTypes, CurrentOK, FreshOK, GridReturns, TaskGone
  <2>6. LookupOK'
    BY <1>l, <1>t, <1>c, <1>f, <1>a, <1>28
    DEF LookupOK, GridTypes, CurrentOK, FreshOK, ArrivedOK, GridReturns, TaskGone
  <2>7. SweepOK'
    BY <1>w, <1>28
    DEF SweepOK, GridReturns, TaskGone
  <2> QED BY <2>1, <2>2, <2>3, <2>4, <2>5, <2>6, <2>7 DEF GridInv
<1>29. CASE GridDies
  <2>1. GridTypes'
    BY <1>t, <1>29
    DEF GridTypes, GridDies, TaskGone
  <2>2. SeenOK'
    BY <1>s, <1>t, <1>29
    DEF SeenOK, GridTypes, GridDies, TaskGone
  <2>3. CurrentOK'
    BY <1>c, <1>t, <1>f, <1>29
    DEF CurrentOK, GridTypes, FreshOK, GridDies, TaskGone
  <2>4. FreshOK'
    BY <1>f, <1>t, <1>s, <1>c, <1>29
    DEF FreshOK, GridTypes, SeenOK, CurrentOK, GridDies, TaskGone
  <2>5. ArrivedOK'
    BY <1>a, <1>t, <1>c, <1>f, <1>29
    DEF ArrivedOK, GridTypes, CurrentOK, FreshOK, GridDies, TaskGone
  <2>6. LookupOK'
    BY <1>l, <1>t, <1>c, <1>f, <1>a, <1>29
    DEF LookupOK, GridTypes, CurrentOK, FreshOK, ArrivedOK, GridDies, TaskGone
  <2>7. SweepOK'
    BY <1>w, <1>29
    DEF SweepOK, GridDies, TaskGone
  <2> QED BY <2>1, <2>2, <2>3, <2>4, <2>5, <2>6, <2>7 DEF GridInv
<1>30. CASE SweepFails
  <2>1. GridTypes'
    BY <1>t, <1>30
    DEF GridTypes, SweepFails
  <2>2. SeenOK'
    BY <1>s, <1>t, <1>30
    DEF SeenOK, GridTypes, SweepFails
  <2>3. CurrentOK'
    BY <1>c, <1>t, <1>f, <1>30
    DEF CurrentOK, GridTypes, FreshOK, SweepFails
  <2>4. FreshOK'
    BY <1>f, <1>t, <1>s, <1>c, <1>30
    DEF FreshOK, GridTypes, SeenOK, CurrentOK, SweepFails
  <2>5. ArrivedOK'
    BY <1>a, <1>t, <1>c, <1>f, <1>30
    DEF ArrivedOK, GridTypes, CurrentOK, FreshOK, SweepFails
  <2>6. LookupOK'
    BY <1>l, <1>t, <1>c, <1>f, <1>a, <1>30
    DEF LookupOK, GridTypes, CurrentOK, FreshOK, ArrivedOK, SweepFails
  <2>7. SweepOK'
    BY <1>w, <1>30
    DEF SweepOK, SweepFails
  <2> QED BY <2>1, <2>2, <2>3, <2>4, <2>5, <2>6, <2>7 DEF GridInv
<1>31. CASE SweepLists
  <2>1. GridTypes'
    BY <1>t, <1>31
    DEF GridTypes, SweepLists, AdoptListed
  <2>2. SeenOK'
    BY <1>s, <1>t, <1>31
    DEF SeenOK, GridTypes, SweepLists, AdoptListed
  <2>3. CurrentOK'
    BY <1>c, <1>t, <1>f, <1>31
    DEF CurrentOK, GridTypes, FreshOK, SweepLists, AdoptListed
  <2>4. FreshOK'
    BY <1>f, <1>t, <1>s, <1>c, <1>31
    DEF FreshOK, GridTypes, SeenOK, CurrentOK, SweepLists, AdoptListed
  <2>5. ArrivedOK'
    BY <1>a, <1>t, <1>c, <1>f, <1>31
    DEF ArrivedOK, GridTypes, CurrentOK, FreshOK, SweepLists, AdoptListed
  <2>6. LookupOK'
    BY <1>l, <1>t, <1>c, <1>f, <1>a, <1>31
    DEF LookupOK, GridTypes, CurrentOK, FreshOK, ArrivedOK, SweepLists, AdoptListed
  <2>7. SweepOK'
    BY <1>w, <1>31
    DEF SweepOK, SweepLists, AdoptListed
  <2> QED BY <2>1, <2>2, <2>3, <2>4, <2>5, <2>6, <2>7 DEF GridInv
<1>32. CASE SweepSeesEmpty
  <2>1. GridTypes'
    BY <1>t, <1>32
    DEF GridTypes, SweepSeesEmpty
  <2>2. SeenOK'
    BY <1>s, <1>t, <1>32
    DEF SeenOK, GridTypes, SweepSeesEmpty
  <2>3. CurrentOK'
    BY <1>c, <1>t, <1>f, <1>32
    DEF CurrentOK, GridTypes, FreshOK, SweepSeesEmpty
  <2>4. FreshOK'
    BY <1>f, <1>t, <1>s, <1>c, <1>32
    DEF FreshOK, GridTypes, SeenOK, CurrentOK, SweepSeesEmpty
  <2>5. ArrivedOK'
    BY <1>a, <1>t, <1>c, <1>f, <1>32
    DEF ArrivedOK, GridTypes, CurrentOK, FreshOK, SweepSeesEmpty
  <2>6. LookupOK'
    BY <1>l, <1>t, <1>c, <1>f, <1>a, <1>32
    DEF LookupOK, GridTypes, CurrentOK, FreshOK, ArrivedOK, SweepSeesEmpty
  <2>7. SweepOK'
    BY <1>w, <1>32
    DEF SweepOK, SweepSeesEmpty
  <2> QED BY <2>1, <2>2, <2>3, <2>4, <2>5, <2>6, <2>7 DEF GridInv
<1>33. CASE SweepCancels
  <2>1. GridTypes'
    BY <1>t, <1>33
    DEF GridTypes, SweepCancels, CancelWorks
  <2>2. SeenOK'
    BY <1>s, <1>t, <1>33
    DEF SeenOK, GridTypes, SweepCancels, CancelWorks
  <2>3. CurrentOK'
    BY <1>c, <1>t, <1>f, <1>33
    DEF CurrentOK, GridTypes, FreshOK, SweepCancels, CancelWorks
  <2>4. FreshOK'
    BY <1>f, <1>t, <1>s, <1>c, <1>33
    DEF FreshOK, GridTypes, SeenOK, CurrentOK, SweepCancels, CancelWorks
  <2>5. ArrivedOK'
    BY <1>a, <1>t, <1>c, <1>f, <1>33
    DEF ArrivedOK, GridTypes, CurrentOK, FreshOK, SweepCancels, CancelWorks
  <2>6. LookupOK'
    BY <1>l, <1>t, <1>c, <1>f, <1>a, <1>33
    DEF LookupOK, GridTypes, CurrentOK, FreshOK, ArrivedOK, SweepCancels, CancelWorks
  <2>7. SweepOK'
    BY <1>w, <1>33
    DEF SweepOK, SweepCancels, CancelWorks
  <2> QED BY <2>1, <2>2, <2>3, <2>4, <2>5, <2>6, <2>7 DEF GridInv
<1>34. CASE SweepGoesOn
  <2>1. GridTypes'
    BY <1>t, <1>34
    DEF GridTypes, SweepGoesOn
  <2>2. SeenOK'
    BY <1>s, <1>t, <1>34
    DEF SeenOK, GridTypes, SweepGoesOn
  <2>3. CurrentOK'
    BY <1>c, <1>t, <1>f, <1>34
    DEF CurrentOK, GridTypes, FreshOK, SweepGoesOn
  <2>4. FreshOK'
    BY <1>f, <1>t, <1>s, <1>c, <1>34
    DEF FreshOK, GridTypes, SeenOK, CurrentOK, SweepGoesOn
  <2>5. ArrivedOK'
    BY <1>a, <1>t, <1>c, <1>f, <1>34
    DEF ArrivedOK, GridTypes, CurrentOK, FreshOK, SweepGoesOn
  <2>6. LookupOK'
    BY <1>l, <1>t, <1>c, <1>f, <1>a, <1>34
    DEF LookupOK, GridTypes, CurrentOK, FreshOK, ArrivedOK, SweepGoesOn
  <2>7. SweepOK'
    BY <1>w, <1>34
    DEF SweepOK, SweepGoesOn
  <2> QED BY <2>1, <2>2, <2>3, <2>4, <2>5, <2>6, <2>7 DEF GridInv
<1>35. CASE SweepGivesUp
  <2>1. GridTypes'
    BY <1>t, <1>35
    DEF GridTypes, SweepGivesUp
  <2>2. SeenOK'
    BY <1>s, <1>t, <1>35
    DEF SeenOK, GridTypes, SweepGivesUp
  <2>3. CurrentOK'
    BY <1>c, <1>t, <1>f, <1>35
    DEF CurrentOK, GridTypes, FreshOK, SweepGivesUp
  <2>4. FreshOK'
    BY <1>f, <1>t, <1>s, <1>c, <1>35
    DEF FreshOK, GridTypes, SeenOK, CurrentOK, SweepGivesUp
  <2>5. ArrivedOK'
    BY <1>a, <1>t, <1>c, <1>f, <1>35
    DEF ArrivedOK, GridTypes, CurrentOK, FreshOK, SweepGivesUp
  <2>6. LookupOK'
    BY <1>l, <1>t, <1>c, <1>f, <1>a, <1>35
    DEF LookupOK, GridTypes, CurrentOK, FreshOK, ArrivedOK, SweepGivesUp
  <2>7. SweepOK'
    BY <1>w, <1>35
    DEF SweepOK, SweepGivesUp
  <2> QED BY <2>1, <2>2, <2>3, <2>4, <2>5, <2>6, <2>7 DEF GridInv
<1>36. CASE SweepAgain
  <2>1. GridTypes'
    BY <1>t, <1>36
    DEF GridTypes, SweepAgain
  <2>2. SeenOK'
    BY <1>s, <1>t, <1>36
    DEF SeenOK, GridTypes, SweepAgain
  <2>3. CurrentOK'
    BY <1>c, <1>t, <1>f, <1>36
    DEF CurrentOK, GridTypes, FreshOK, SweepAgain
  <2>4. FreshOK'
    BY <1>f, <1>t, <1>s, <1>c, <1>36
    DEF FreshOK, GridTypes, SeenOK, CurrentOK, SweepAgain
  <2>5. ArrivedOK'
    BY <1>a, <1>t, <1>c, <1>f, <1>36
    DEF ArrivedOK, GridTypes, CurrentOK, FreshOK, SweepAgain
  <2>6. LookupOK'
    BY <1>l, <1>t, <1>c, <1>f, <1>a, <1>36
    DEF LookupOK, GridTypes, CurrentOK, FreshOK, ArrivedOK, SweepAgain
  <2>7. SweepOK'
    BY <1>w, <1>36
    DEF SweepOK, SweepAgain
  <2> QED BY <2>1, <2>2, <2>3, <2>4, <2>5, <2>6, <2>7 DEF GridInv
<1>37. CASE UNCHANGED gridVars
  BY <1>t, <1>s, <1>c, <1>f, <1>a, <1>l, <1>w, <1>37
  DEF gridVars, GridInv, GridTypes, SeenOK, CurrentOK, FreshOK, ArrivedOK, LookupOK, SweepOK
<1> QED
  BY <1>1, <1>2, <1>3, <1>4, <1>5, <1>6, <1>7, <1>8, <1>9, <1>10, <1>11, <1>12, <1>13, <1>14, <1>15, <1>16, <1>17, <1>18, <1>19, <1>20, <1>21, <1>22, <1>23, <1>24, <1>25, <1>26, <1>27, <1>28, <1>29, <1>30, <1>31, <1>32, <1>33, <1>34, <1>35, <1>36, <1>37
  DEF GridNext, GridStep, Sweep

\* Every submitted order is accounted for in every reachable state.
THEOREM GridInvariance == GridSpec => []GridInv
<1>1. GridInit => GridInv BY GridInitInv
<1>2. GridInv /\ [GridNext]_gridVars => GridInv' BY GridInvStep
<1> QED BY <1>1, <1>2, PTL DEF GridSpec

\* The match of an order of this session is rejected only if its task died while it
\* was being submitted, or its submit failed without a verdict and no listing had
\* shown it (PlacementGuard, adopt_listed, verify_user_order).
THEOREM MatchesAccepted == GridSpec => []OwnMatchAccepted
<1>1. GridInv => OwnMatchAccepted
  BY DEF GridInv, LookupOK, OwnMatchAccepted
<1> QED BY <1>1, GridInvariance, PTL

\* A sweep that reports an empty book (spawn_party_sweep) leaves no order behind,
\* where a submit lands or is lost before its second empty look.
THEOREM BookIsWithdrawn ==
  ASSUME LandsPromptly
  PROVE  GridSpec => []WithdrawnIsEmpty
<1>1. GridInv => WithdrawnIsEmpty
  BY DEF GridInv, SweepOK, WithdrawnIsEmpty
<1> QED BY <1>1, GridInvariance, PTL
=============================================================================
