------------------------ MODULE MCSettlementRestart -------------------------
(* One settlement through crashes, restarts and every action the server may   *)
(* ask for: what must come about in the end.                                  *)
EXTENDS Settlement

CONSTANT p1

\* Timers fire, tasks run to their end and deadlines pass; a slot comes free now and
\* then (SF); the server owes nothing.
RestartSpec ==
  /\ Spec
  /\ \A p \in Proposals :
       /\ WF_vars(WindowCloses(p)) /\ SF_vars(SpawnSettlementTask(p))
       /\ WF_vars(TaskStep(p)) /\ WF_vars(CollectResult(p))
  /\ WF_vars(SaveAndRestart)
=============================================================================
