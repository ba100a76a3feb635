--------------------------- MODULE SubmitContract ---------------------------
(***************************************************************************)
(* What a caller of a ledger submit may rely on, whatever the network does *)
(* between the agent and the participant.  `effects` is the set of commands *)
(* of this one call that have committed; `report` is what the call returned. *)
(*                                                                         *)
(*   "ok"       at least one command of the call has committed             *)
(*   "failed"   no command has committed and none ever will: the caller    *)
(*              may release its inputs and start over                      *)
(*   "unknown"  nothing is promised: the caller must look at the ledger    *)
(*                                                                         *)
(* With Once, the call never commits a second command either.              *)
(***************************************************************************)
CONSTANTS
    Commands,   \* the commands one call may prepare, one per attempt
    Once        \* whether a second commit is excluded

VARIABLES effects, report

vars == <<effects, report>>

Reports == {"pending", "ok", "failed", "unknown"}

Init ==
    /\ effects = {}
    /\ report = "pending"

\* A command reaches the ledger, possibly after the call has returned.
Commit(c) ==
    /\ report # "failed"
    /\ c \notin effects
    /\ Once => effects = {}
    /\ effects' = effects \cup {c}
    /\ UNCHANGED report

\* The call returns.
Report(r) ==
    /\ report = "pending"
    /\ r = "ok" => effects # {}
    /\ r = "failed" => effects = {}
    /\ report' = r
    /\ UNCHANGED effects

Next ==
    \/ \E c \in Commands : Commit(c)
    \/ \E r \in Reports \ {"pending"} : Report(r)

Spec == Init /\ [][Next]_vars
=============================================================================
