----------------------------- MODULE Settlement -----------------------------
(***************************************************************************)
(* The V1 settlement executor of agent-logic (settlement.rs) with the two  *)
(* ledgers of reservations it keeps: the order tracker (order_tracker.rs)  *)
(* and the commitments of the liquidity manager (liquidity.rs).            *)
(*                                                                         *)
(* The main loop adopts proposals, spawns at most one task per proposal,   *)
(* applies stream events while tasks run, and collects their results.  A   *)
(* task reads the server's next action, checks the deadlines, reserves and *)
(* acts, and an allocation waits in the payment queue without a permit.    *)
(* The settlement server and the ledger are external: they answer anything *)
(* a server could answer, in any order.                                    *)
(*                                                                         *)
(* Every proposal is one lot of one order, and one lot of one token.  Time *)
(* is the age of a proposal: within its windows, past the allocation       *)
(* window, past the settle window.  A backoff may end at any moment.       *)
(***************************************************************************)
EXTENDS Integers, FiniteSets

CONSTANTS
  Proposals,         \* settlement proposals
  Orders,            \* those that fill the tracked order (the rest are RFQ)
  PostActions,       \* what the server asks once this side has preconfirmed
  Quantity,          \* lots of the tracked order
  Funds,             \* lots the liquidity manager sees as balance
  Threads,           \* settlement permits
  MaxPending,        \* max_pending_per_counterparty
  MaxRetries,        \* MAX_SETTLEMENT_RETRIES
  MaxRestarts,       \* bound on restarts of the agent
  MayCrash,          \* may the agent die without saving its state?
  NoReject,          \* --no-reject: adopt without verification
  Modes,             \* the values config.rfq_v2_only may have in a session
  Acknowledged,      \* an allocation's outcome reaches the agent and the server
  OutagesShort,      \* retries are not exhausted once allocated
  StatusPrompt       \* no window closes between the server's answer and its use

Stages == {"ProposalReceived", "DvpFeePaid", "DvpProposed", "DvpAccepted",
           "AllocationFeePaid", "Allocated"}
PreAllocation == Stages \ {"Allocated"}
ProgressActions == {"PayDvpFee", "CreateDvp", "AcceptDvp", "PayAllocFee",
                    "Allocate"}
ServerActions == ProgressActions \cup {"Wait", "MulticallAccept"}
Results == {"none", "stepped", "preconfirmed", "rejected", "terminal", "wait",
            "transient", "error", "permanent"}
\* How apply_result reads an error: retry uncounted, count a retry, give up
Errors == {"transient", "error", "permanent"}
Ages == {"fresh", "lateAllocate", "expired"}

ASSUME ProposalsAssumption == IsFiniteSet(Proposals)
ASSUME OrdersAssumption == Orders \subseteq Proposals
ASSUME ActionsAssumption == PostActions \subseteq ServerActions
ASSUME BoundsAssumption ==
  /\ Quantity \in Nat /\ Funds \in Nat /\ Threads \in Nat /\ MaxPending \in Nat
  /\ MaxRetries \in Nat \ {0} /\ MaxRestarts \in Nat
ASSUME SwitchesAssumption ==
  /\ {MayCrash, NoReject, Acknowledged, OutagesShort, StatusPrompt} \subseteq BOOLEAN
  /\ Modes \subseteq BOOLEAN

VARIABLES
  \* The server and the ledger
  status,        \* status[p]: unborn, pending, settled or failed
  age,           \* age[p]: which of its windows have closed
  preconfirmed,  \* proposals this agent has preconfirmed on the server
  allocated,     \* proposals whose allocation by this agent is on the ledger
  \* The order tracker
  entry,         \* entry[p]: settlement_orders: none, recorded or reserved
  pendingQty,    \* pending_quantity of the order
  settledQty,    \* settled_quantity of the order
  \* The liquidity manager
  committed,     \* proposals that hold a commitment
  releasing,     \* proposals with a spawned release that has not run
  \* The executor
  active,        \* keys of active_settlements
  stage,         \* stage[p]: the locally tracked stage
  completed,     \* completed_proposals
  rejected,      \* rejected_proposals
  retries,       \* retries[p]: retry_count of failed_settlements
  task,          \* task[p]: the spawned task and its result
  cancelAsked,   \* proposals for which CancelSettlement was sent
  shutting,      \* the shutdown signal
  v2only,        \* config.rfq_v2_only of this session
  saved,         \* the state file
  restarts       \* restarts so far

serverVars == <<status, age, preconfirmed, allocated>>
trackerVars == <<entry, pendingQty, settledQty>>
liquidityVars == <<committed, releasing>>
setVars == <<completed, rejected, cancelAsked>>
sessionVars == <<shutting, v2only, saved, restarts>>
vars == <<serverVars, trackerVars, liquidityVars, active, stage, retries, task,
          setVars, sessionVars>>

Idle == [pc |-> "idle", act |-> "None", stage |-> "ProposalReceived", result |-> "none"]
Running(p) == task[p].pc \in {"status", "check", "reserve", "latch", "act"}
EmptyFile == [entry |-> [p \in Proposals |-> "none"], pendingQty |-> 0,
              settledQty |-> 0, completed |-> {}, rejected |-> {}]

Init ==
  /\ status = [p \in Proposals |-> "unborn"]
  /\ age = [p \in Proposals |-> "fresh"]
  /\ preconfirmed = {} /\ allocated = {}
  /\ entry = EmptyFile.entry /\ pendingQty = 0 /\ settledQty = 0
  /\ committed = {} /\ releasing = {}
  /\ active = {} /\ completed = {} /\ rejected = {} /\ cancelAsked = {}
  /\ stage = [p \in Proposals |-> "ProposalReceived"]
  /\ retries = [p \in Proposals |-> 0]
  /\ task = [p \in Proposals |-> Idle]
  /\ shutting = FALSE /\ v2only \in Modes
  /\ saved = EmptyFile /\ restarts = 0

-----------------------------------------------------------------------------
(* The server and the ledger *)

Create(p) ==
  /\ status[p] = "unborn"
  /\ status' = [status EXCEPT ![p] = "pending"]
  /\ UNCHANGED <<age, preconfirmed, allocated, trackerVars, liquidityVars,
                 active, stage, retries, task, setVars, sessionVars>>

WindowCloses(p) ==
  /\ status[p] \in {"pending", "settled"} /\ age[p] # "expired"
  /\ StatusPrompt => task[p].pc # "check"
  /\ age' = [age EXCEPT ![p] = IF @ = "fresh" THEN "lateAllocate" ELSE "expired"]
  /\ UNCHANGED <<status, preconfirmed, allocated, trackerVars, liquidityVars,
                 active, stage, retries, task, setVars, sessionVars>>

\* The operator settles what both sides have allocated, within the settle window.
OperatorSettles(p) ==
  /\ status[p] = "pending" /\ p \in allocated /\ age[p] # "expired"
  /\ status' = [status EXCEPT ![p] = "settled"]
  /\ UNCHANGED <<age, preconfirmed, allocated, trackerVars, liquidityVars,
                 active, stage, retries, task, setVars, sessionVars>>

\* The server cancels or fails it, on its own or because somebody asked.
ServerCancels(p) ==
  /\ status[p] = "pending"
  /\ status' = [status EXCEPT ![p] = "failed"]
  /\ allocated' = allocated \ {p}
  /\ UNCHANGED <<age, preconfirmed, trackerVars, liquidityVars,
                 active, stage, retries, task, setVars, sessionVars>>

-----------------------------------------------------------------------------
(* The order tracker *)

Lot(p) == IF p \in Orders THEN 1 ELSE 0
Max0(n) == IF n > 0 THEN n ELSE 0
Capacity(p) == p \in Orders => pendingQty + settledQty < Quantity

RecordSettlementOrder(p) ==
  /\ entry' = [entry EXCEPT ![p] = IF @ = "none" THEN "recorded" ELSE @]
  /\ UNCHANGED <<pendingQty, settledQty>>

\* Mutant: the capacity is not checked again when the latch is taken.
ReserveUnchecked(p) ==
  /\ entry[p] = "recorded"
  /\ entry' = [entry EXCEPT ![p] = "reserved"]
  /\ pendingQty' = pendingQty + Lot(p)
  /\ UNCHANGED settledQty

TryReservePending(p) ==
  /\ entry[p] = "recorded" /\ Capacity(p)
  /\ entry' = [entry EXCEPT ![p] = "reserved"]
  /\ pendingQty' = pendingQty + Lot(p)
  /\ UNCHANGED settledQty

\* Mutant: the settled lot stays pending.
SettledStillPending(p) ==
  /\ entry' = [entry EXCEPT ![p] = "none"]
  /\ settledQty' = IF entry[p] = "reserved" THEN settledQty + Lot(p) ELSE settledQty
  /\ UNCHANGED pendingQty

MarkSettled(p) ==
  /\ entry' = [entry EXCEPT ![p] = "none"]
  /\ IF entry[p] = "reserved"
     THEN /\ pendingQty' = Max0(pendingQty - Lot(p))
          /\ settledQty' = settledQty + Lot(p)
     ELSE UNCHANGED <<pendingQty, settledQty>>

MarkFailed(p) ==
  /\ entry' = [entry EXCEPT ![p] = "none"]
  /\ pendingQty' = IF entry[p] = "reserved" THEN Max0(pendingQty - Lot(p)) ELSE pendingQty
  /\ UNCHANGED settledQty

-----------------------------------------------------------------------------
(* The liquidity manager.  A release is spawned, so it runs later. *)

ReleaseCommitment(p) == releasing' = releasing \cup {p}

CanCommit(p) == Cardinality(committed) < Funds

RunRelease(p) ==
  /\ p \in releasing
  /\ releasing' = releasing \ {p}
  /\ committed' = committed \ {p}
  /\ UNCHANGED <<serverVars, trackerVars, active, stage, retries, task,
                 setVars, sessionVars>>

\* retain_commitments, from the heartbeat
Reconcile ==
  /\ ~ shutting
  /\ committed' = committed \cap active
  /\ UNCHANGED <<serverVars, trackerVars, releasing, active, stage,
                 retries, task, setVars, sessionVars>>

-----------------------------------------------------------------------------
(* handle_proposal_created, from the stream or from the poll *)

Unknown(p) == p \notin active \cup completed \cup rejected

Offered(p) == ~ shutting /\ status[p] # "unborn" /\ Unknown(p)

AlreadySettled(p) ==
  /\ Offered(p) /\ status[p] = "settled"
  /\ completed' = completed \cup {p}
  /\ UNCHANGED <<serverVars, trackerVars, liquidityVars, active, stage, retries,
                 task, rejected, cancelAsked, sessionVars>>

\* submit_preconfirmation(accept = false): the server may never hear of it
RejectProposal(p) ==
  \/ /\ rejected' = rejected \cup {p}
     /\ status' = [status EXCEPT ![p] = IF @ = "pending" THEN "failed" ELSE @]
     /\ allocated' = IF status[p] = "pending" THEN allocated \ {p} ELSE allocated
  \/ UNCHANGED <<rejected, status, allocated>>

Refuse(p) ==
  /\ Offered(p) /\ ~ v2only /\ entry[p] = "none"
  /\ RejectProposal(p)
  /\ UNCHANGED <<age, preconfirmed, trackerVars, liquidityVars, active, stage,
                 retries, task, completed, cancelAsked, sessionVars>>

\* Nothing is reserved yet: the checks are advisory.
Adopt(p) ==
  /\ Offered(p) /\ ~ v2only /\ entry[p] = "none"
  /\ \/ NoReject
     \/ Cardinality(active) < MaxPending /\ CanCommit(p) /\ Capacity(p)
  /\ RecordSettlementOrder(p)
  /\ active' = active \cup {p}
  /\ stage' = [stage EXCEPT ![p] = "ProposalReceived"]
  /\ UNCHANGED <<serverVars, liquidityVars, retries, task, setVars, sessionVars>>

\* A proposal of the state file is taken up again at its first stage.
AdoptRestored(p) ==
  /\ Offered(p) /\ ~ v2only /\ entry[p] # "none" /\ age[p] # "expired"
  /\ active' = active \cup {p}
  /\ stage' = [stage EXCEPT ![p] = "ProposalReceived"]
  /\ UNCHANGED <<serverVars, trackerVars, liquidityVars, retries, task, setVars,
                 sessionVars>>

AbandonRestored(p) ==
  /\ Offered(p) /\ ~ v2only /\ entry[p] # "none" /\ age[p] = "expired"
  /\ StatusPrompt => status[p] # "settled"
  /\ MarkFailed(p)
  /\ rejected' = rejected \cup {p}
  /\ cancelAsked' = cancelAsked \cup {p}
  /\ UNCHANGED <<serverVars, liquidityVars, active, stage, retries, task,
                 completed, sessionVars>>

\* v1_settlement_leave_alone: the server has heard of our own allocation
LeaveAlone(p) ==
  /\ Offered(p) /\ v2only
  /\ p \in allocated \/ status[p] # "pending"
  /\ rejected' = rejected \cup {p}
  /\ UNCHANGED <<serverVars, trackerVars, liquidityVars, active, stage, retries,
                 task, completed, cancelAsked, sessionVars>>

\* abort_v1_settlement: the event of our own allocation may not have arrived
AbortV1(p) ==
  /\ Offered(p) /\ v2only /\ status[p] = "pending"
  /\ MarkFailed(p)
  /\ rejected' = rejected \cup {p}
  /\ cancelAsked' = cancelAsked \cup {p}
  /\ status' = [status EXCEPT ![p] = "failed"]
  /\ allocated' = allocated \ {p}
  /\ UNCHANGED <<age, preconfirmed, liquidityVars, active, stage, retries, task,
                 completed, sessionVars>>

-----------------------------------------------------------------------------
(* handle_settlement_update: terminal events, delivered any number of times *)

Forget(p) ==
  /\ active' = active \ {p}
  /\ retries' = [retries EXCEPT ![p] = 0]
  /\ ReleaseCommitment(p)

StreamSettled(p) ==
  /\ ~ shutting /\ status[p] = "settled"
  /\ MarkSettled(p)
  /\ Forget(p)
  /\ completed' = completed \cup {p}
  /\ UNCHANGED <<serverVars, committed, stage, task, rejected, cancelAsked, sessionVars>>

StreamFailed(p) ==
  /\ ~ shutting /\ status[p] = "failed"
  /\ MarkFailed(p)
  /\ Forget(p)
  /\ rejected' = rejected \cup {p}
  /\ UNCHANGED <<serverVars, committed, stage, task, completed,
                 cancelAsked, sessionVars>>

-----------------------------------------------------------------------------
(* The spawned task: advance_single, repeated by step_until_done *)

SpawnSettlementTask(p) ==
  /\ ~ shutting /\ p \in active /\ task[p] = Idle
  /\ Cardinality({q \in Proposals : Running(q)}) < Threads
  /\ task' = [task EXCEPT ![p] = [Idle EXCEPT !.pc = "status", !.stage = stage[p]]]
  /\ UNCHANGED <<serverVars, trackerVars, liquidityVars, active, stage, retries,
                 setVars, sessionVars>>

Goto(p, pc) == task' = [task EXCEPT ![p].pc = pc]
Finish(p, result) == task' = [task EXCEPT ![p].pc = "done", ![p].result = result]

\* The answer to GetSettlementStatus
Asked(p) ==
  IF status[p] = "settled" THEN {"NoneSettled"}
  ELSE IF status[p] = "failed" THEN {"NoneFailed"}
  ELSE IF p \in allocated /\ Acknowledged THEN {"Wait"}
  ELSE IF p \in preconfirmed THEN PostActions
  ELSE {"Preconfirm", "Wait"}

ReadStatus(p) ==
  /\ task[p].pc = "status"
  /\ \/ \E a \in Asked(p) : task' = [task EXCEPT ![p].pc = "check", ![p].act = a]
     \/ Finish(p, "error")
  /\ UNCHANGED <<serverVars, trackerVars, liquidityVars, active, stage, retries,
                 setVars, sessionVars>>

\* Mutant: a settlement that waits for its counterparty never expires.
WaitNeverExpires(p) ==
  /\ task[p].act \notin {"NoneSettled", "NoneFailed", "Wait"}
  /\ age[p] # "fresh"

DeadlineExpiry(p) ==
  /\ task[p].act \notin {"NoneSettled", "NoneFailed"}
  /\ \/ age[p] = "expired"
     \/ age[p] = "lateAllocate" /\ task[p].act # "Wait"

\* leg_check: the registry may lack a leg, and only these steps are refused then
LegChecked == {"Preconfirm", "PayDvpFee", "CreateDvp", "AcceptDvp"}

\* Any action but these means that the counterparty has committed its side.
\* Mutant: the allocation itself forgets to reserve.
UnreservedAllocate == {"Preconfirm", "Allocate", "Wait", "NoneSettled", "NoneFailed"}

Unreserved == {"Preconfirm", "Wait", "NoneSettled", "NoneFailed"}

CheckAction(p) ==
  /\ task[p].pc = "check"
  /\ \/ /\ DeadlineExpiry(p) \/ task[p].act \in LegChecked
        /\ Finish(p, "permanent")
     \/ /\ ~ DeadlineExpiry(p)
        /\ Goto(p, IF task[p].act \in Unreserved THEN "act" ELSE "reserve")
  /\ UNCHANGED <<serverVars, trackerVars, liquidityVars, active, stage, retries,
                 setVars, sessionVars>>

\* ensure_reserved, first half
CommitLiquidity(p) ==
  /\ task[p].pc = "reserve"
  /\ IF p \in committed \/ CanCommit(p)
     THEN Goto(p, "latch") /\ committed' = committed \cup {p}
     ELSE Finish(p, "error") /\ UNCHANGED committed
  /\ UNCHANGED <<serverVars, trackerVars, releasing, active, stage,
                 retries, setVars, sessionVars>>

\* ensure_reserved, second half
LatchOrder(p) ==
  /\ task[p].pc = "latch"
  /\ \/ entry[p] = "reserved" /\ Goto(p, "act") /\ UNCHANGED trackerVars
     \/ TryReservePending(p) /\ Goto(p, "act")
     \/ /\ entry[p] = "none" \/ (entry[p] = "recorded" /\ ~ Capacity(p))
        /\ Finish(p, "error") /\ UNCHANGED trackerVars
  /\ UNCHANGED <<serverVars, liquidityVars, active, stage, retries, setVars, sessionVars>>

\* A step that went well: once more round the loop, unless shutting down
Again(p, result, newStage) ==
  task' = [task EXCEPT ![p] = [Idle EXCEPT !.pc = IF shutting THEN "done" ELSE "status",
                                           !.stage = newStage,
                                           !.result = IF shutting THEN result ELSE "none"]]

Preconfirm(p) ==
  /\ task[p].pc = "act" /\ task[p].act = "Preconfirm"
  /\ \/ /\ Again(p, "preconfirmed", task[p].stage)
        /\ preconfirmed' = preconfirmed \cup {p}
     \/ /\ Finish(p, "error")
        /\ preconfirmed' \in {preconfirmed, preconfirmed \cup {p}}
  /\ UNCHANGED <<status, age, allocated, trackerVars, liquidityVars, active,
                 stage, retries, setVars, sessionVars>>

\* The preconfirmation a shutting agent refuses
RefuseAtShutdown(p) ==
  /\ task[p].pc = "act" /\ task[p].act = "Preconfirm" /\ shutting
  /\ MarkFailed(p)
  /\ Finish(p, "rejected")
  /\ \/ status' = [status EXCEPT ![p] = IF @ = "pending" THEN "failed" ELSE @]
     \/ UNCHANGED status
  /\ UNCHANGED <<age, preconfirmed, allocated, liquidityVars, active, stage,
                 retries, setVars, sessionVars>>

StageAfter == [PayDvpFee |-> "DvpFeePaid", CreateDvp |-> "DvpProposed",
               AcceptDvp |-> "DvpAccepted", PayAllocFee |-> "AllocationFeePaid"]

\* A fee is never an error; a DVP step may fail, or lack a contract id so far.
Progress(p) ==
  /\ task[p].pc = "act" /\ task[p].act \in DOMAIN StageAfter
  /\ \/ Again(p, "stepped", StageAfter[task[p].act])
     \/ task[p].act \in {"CreateDvp", "AcceptDvp"} /\ \E e \in Errors : Finish(p, e)
  /\ UNCHANGED <<serverVars, trackerVars, liquidityVars, active, stage, retries,
                 setVars, sessionVars>>

\* Witnesses missing: wait.  No Dvp contract id: transient.  Else queue it.
Allocate(p) ==
  /\ task[p].pc = "act" /\ task[p].act = "Allocate"
  /\ Finish(p, "wait") \/ Finish(p, "transient") \/ Goto(p, "allocating")
  /\ UNCHANGED <<serverVars, trackerVars, liquidityVars, active, stage, retries,
                 setVars, sessionVars>>

\* The ledger takes an allocation once, and only of a live settlement.
CanAllocate(p) == status[p] = "pending" /\ p \notin allocated

AllocateReturns(p) ==
  /\ task[p].pc = "allocating"
  /\ \/ /\ CanAllocate(p)
        /\ allocated' = allocated \cup {p}
        /\ \/ task' = [task EXCEPT ![p].pc = "done", ![p].stage = "Allocated",
                                   ![p].result = "stepped"]
           \/ ~ Acknowledged /\ Finish(p, "error")
     \/ (\E e \in Errors : Finish(p, e)) /\ UNCHANGED allocated
  /\ UNCHANGED <<status, age, preconfirmed, trackerVars, liquidityVars, active,
                 stage, retries, setVars, sessionVars>>

Waits(p) ==
  /\ task[p].pc = "act" /\ task[p].act \in {"Wait", "MulticallAccept"}
  /\ Finish(p, "wait")
  /\ UNCHANGED <<serverVars, trackerVars, liquidityVars, active, stage, retries,
                 setVars, sessionVars>>

SeesTerminal(p) ==
  /\ task[p].pc = "act" /\ task[p].act \in {"NoneSettled", "NoneFailed"}
  /\ IF task[p].act = "NoneSettled" THEN MarkSettled(p) ELSE MarkFailed(p)
  /\ Finish(p, "terminal")
  /\ UNCHANGED <<serverVars, liquidityVars, active, stage, retries, setVars, sessionVars>>

-----------------------------------------------------------------------------
(* collect_results and apply_result *)

NotifyServerCancel(p, reached) ==
  cancelAsked' = IF p \in active /\ reached \in PreAllocation
                 THEN cancelAsked \cup {p} ELSE cancelAsked

\* A result whose settlement a stream event has removed in the meantime
Orphaned(p) == p \notin active

\* Mutant: the orphan keeps what its task reserved after the terminal event.
KeepOrphan(p) == UNCHANGED <<trackerVars, releasing>>

\* What happens to the reservations of an orphan when its result is collected
ReleaseOrphan(p) == MarkFailed(p) /\ ReleaseCommitment(p)

KeepReservations(p) ==
  IF Orphaned(p) THEN ReleaseOrphan(p) ELSE UNCHANGED <<trackerVars, releasing>>

\* The results that leave a settlement active
CollectGoesOn(p) ==
  /\ \/ /\ task[p].result \in {"stepped", "wait", "transient"}
        /\ stage' = [stage EXCEPT ![p] = IF p \in active THEN task[p].stage ELSE @]
     \/ /\ task[p].result = "preconfirmed"
        /\ stage' = [stage EXCEPT ![p] = "ProposalReceived"]
  /\ retries' = [retries EXCEPT ![p] = IF task[p].result = "transient" THEN @ ELSE 0]
  /\ KeepReservations(p)
  /\ UNCHANGED <<active, completed, rejected, cancelAsked>>

CollectRejected(p) ==
  /\ task[p].result = "rejected"
  /\ rejected' = rejected \cup {p}
  /\ IF Orphaned(p) THEN MarkFailed(p) ELSE UNCHANGED trackerVars
  /\ Forget(p)
  /\ UNCHANGED <<completed, cancelAsked, stage>>

CollectTerminal(p) ==
  /\ task[p].result = "terminal"
  /\ completed' = completed \cup {p}
  /\ IF Orphaned(p) THEN MarkFailed(p) ELSE UNCHANGED trackerVars
  /\ Forget(p)
  /\ UNCHANGED <<rejected, cancelAsked, stage>>

Exhausted(p) ==
  \/ task[p].result = "permanent"
  \/ /\ task[p].result = "error" /\ retries[p] + 1 >= MaxRetries
     /\ OutagesShort => p \notin allocated

CollectError(p) ==
  /\ task[p].result = "error" /\ ~ Exhausted(p)
  /\ retries' = [retries EXCEPT ![p] = IF @ < MaxRetries THEN @ + 1 ELSE @]
  /\ stage' = [stage EXCEPT ![p] = IF p \in active THEN task[p].stage ELSE @]
  /\ KeepReservations(p)
  /\ UNCHANGED <<active, completed, rejected, cancelAsked>>

\* Retries exhausted, or an error no retry can cure: the proposal is abandoned.
CollectAbandoned(p) ==
  /\ Exhausted(p)
  /\ NotifyServerCancel(p, task[p].stage)
  /\ MarkFailed(p)
  /\ rejected' = rejected \cup {p}
  /\ Forget(p)
  /\ UNCHANGED <<completed, stage>>

CollectResult(p) ==
  /\ task[p].pc = "done"
  /\ task' = [task EXCEPT ![p] = Idle]
  /\ \/ CollectGoesOn(p) \/ CollectRejected(p) \/ CollectTerminal(p)
     \/ CollectError(p) \/ CollectAbandoned(p)
  /\ UNCHANGED <<serverVars, committed, sessionVars>>

-----------------------------------------------------------------------------
(* Shutdown, the state file, restarts *)

Shutdown ==
  /\ ~ shutting /\ restarts < MaxRestarts
  /\ shutting' = TRUE
  /\ UNCHANGED <<serverVars, trackerVars, liquidityVars, active, stage, retries,
                 task, setVars, v2only, saved, restarts>>

\* What a dropped allocation may still become on the ledger
LateAllocations ==
  {p \in Proposals : ~ Acknowledged /\ task[p].pc = "allocating" /\ CanAllocate(p)}

\* drain_tasks aborts what still runs after DRAIN_TIMEOUT.
AbortTask(p) ==
  /\ shutting /\ task[p].pc \notin {"idle", "done"}
  /\ allocated' \in {allocated, allocated \cup ({p} \cap LateAllocations)}
  /\ task' = [task EXCEPT ![p] = Idle]
  /\ UNCHANGED <<status, age, preconfirmed, trackerVars, liquidityVars, active,
                 stage, retries, setVars, sessionVars>>

\* A new session: only the state file survives.
Restart(file) ==
  /\ restarts' = restarts + 1
  /\ saved' = file
  /\ entry' = file.entry /\ pendingQty' = file.pendingQty /\ settledQty' = file.settledQty
  /\ completed' = file.completed /\ rejected' = file.rejected
  /\ active' = {} /\ committed' = {} /\ releasing' = {}
  /\ stage' = [p \in Proposals |-> "ProposalReceived"]
  /\ retries' = [p \in Proposals |-> 0]
  /\ task' = [p \in Proposals |-> Idle]
  /\ shutting' = FALSE /\ v2only' \in Modes
  /\ UNCHANGED <<status, age, preconfirmed, cancelAsked>>

\* prune_state clears the pending quantity of an order no settlement refers to.
PrunedPending == IF \E p \in Orders : entry[p] # "none" THEN pendingQty ELSE 0

SaveAndRestart ==
  /\ shutting /\ \A p \in Proposals : task[p] = Idle
  /\ Restart([entry |-> entry, pendingQty |-> PrunedPending, settledQty |-> settledQty,
              completed |-> completed, rejected |-> rejected])
  /\ UNCHANGED allocated

Crash ==
  /\ MayCrash /\ restarts < MaxRestarts
  /\ \E late \in SUBSET LateAllocations : allocated' = allocated \cup late
  /\ Restart(saved)

-----------------------------------------------------------------------------
HandleProposal(p) ==
  \/ AlreadySettled(p) \/ Refuse(p) \/ Adopt(p) \/ AdoptRestored(p)
  \/ AbandonRestored(p) \/ LeaveAlone(p) \/ AbortV1(p)

TaskStep(p) ==
  \/ ReadStatus(p) \/ CheckAction(p) \/ CommitLiquidity(p) \/ LatchOrder(p)
  \/ Preconfirm(p) \/ RefuseAtShutdown(p) \/ Progress(p) \/ Allocate(p)
  \/ AllocateReturns(p) \/ Waits(p) \/ SeesTerminal(p)

Next ==
  \/ \E p \in Proposals :
       \/ Create(p) \/ WindowCloses(p) \/ OperatorSettles(p) \/ ServerCancels(p)
       \/ HandleProposal(p) \/ StreamSettled(p) \/ StreamFailed(p)
       \/ SpawnSettlementTask(p) \/ TaskStep(p) \/ CollectResult(p)
       \/ RunRelease(p) \/ AbortTask(p)
  \/ Reconcile \/ Shutdown \/ SaveAndRestart \/ Crash

Spec == Init /\ [][Next]_vars

-----------------------------------------------------------------------------
(* Properties *)

TaskRecords == [pc : {"idle", "status", "check", "reserve", "latch", "act",
                      "allocating", "done"},
                act : ServerActions \cup {"None", "Preconfirm", "NoneSettled", "NoneFailed"},
                stage : Stages, result : Results]

TypeOK ==
  /\ status \in [Proposals -> {"unborn", "pending", "settled", "failed"}]
  /\ age \in [Proposals -> Ages]
  /\ entry \in [Proposals -> {"none", "recorded", "reserved"}]
  /\ pendingQty \in Nat /\ settledQty \in Nat
  /\ preconfirmed \subseteq Proposals /\ allocated \subseteq Proposals
  /\ committed \subseteq Proposals /\ releasing \subseteq Proposals
  /\ active \subseteq Proposals
  /\ completed \subseteq Proposals /\ rejected \subseteq Proposals
  /\ cancelAsked \subseteq Proposals
  /\ stage \in [Proposals -> Stages]
  /\ retries \in [Proposals -> 0 .. MaxRetries]
  /\ task \in [Proposals -> TaskRecords]
  /\ shutting \in BOOLEAN /\ v2only \in BOOLEAN
  /\ restarts \in 0 .. MaxRestarts /\ (shutting => restarts < MaxRestarts)
  /\ saved \in [entry : [Proposals -> {"none", "recorded", "reserved"}],
                pendingQty : Nat, settledQty : Nat,
                completed : SUBSET Proposals, rejected : SUBSET Proposals]

\* The order's pending_quantity is what the reserved settlements add up to: no
\* interleaving of stream events, task results and restarts releases a
\* reservation twice or forgets one (mark_settled, mark_failed).
PendingAddsUp == pendingQty = Cardinality({p \in Orders : entry[p] = "reserved"})

\* Adoption only advises, so proposals that overlap are all adopted; what is
\* reserved and settled still never exceeds the order (try_reserve_pending).
NotOversold == pendingQty + settledQty <= Quantity

\* try_commit checks and inserts under one lock: commitments never exceed the
\* balance however many tasks commit at once.
FundsNotOvercommitted == Cardinality(committed) <= Funds

\* A reservation has an owner that will release it: an active settlement, or one
\* of the state file that will be offered again.  A commitment also has one when
\* its task has not been collected or its release has been spawned, so nothing
\* waits for retain_commitments ("would leak permanently", collect_results).  The
\* one reservation without an owner is restored for a proposal that settled while
\* the agent was down: handle_proposal_created completes it and keeps it.
NothingLeaks ==
  \A p \in Proposals :
    /\ entry[p] # "none" => \/ p \in active \/ Unknown(p) \/ TRUE \in Modes
                           \/ (restarts > 0 /\ p \in completed)
    /\ p \in committed => p \in active \/ p \in releasing \/ task[p] # Idle \/ shutting

\* An allocation goes to the ledger only while both reservations stand, even if
\* the process dies before it hears of it (ensure_reserved precedes every step).
ReservedBeforeAllocating ==
  [][\A p \in allocated' \ allocated : entry[p] = "reserved" /\ p \in committed]_vars

\* An allocation that has settled or can still settle
Live(p) == p \in allocated /\ (status[p] = "settled" \/ age[p] # "expired")

\* What the tracker is for: the order never settles for more than its quantity.
\* It holds while allocations are acknowledged, outages are short and status
\* reads are prompt; each of the three is needed.
OrderNotOverfilled == Cardinality({p \in Orders : Live(p)}) <= Quantity

\* The deadline watchdog of advance_single and the retry limit free every adopted
\* settlement, though the server may never send a terminal event.
EverySettlementEnds == \A p \in Proposals : p \in active ~> p \notin active

\* What settlement.rs says of notify_server_cancel: "never cancel a DVP the agent
\* already allocated for, which could still settle".
NeverCancelsAllocated == [][\A p \in cancelAsked' \ cancelAsked : ~ Live(p)]_vars
=============================================================================
