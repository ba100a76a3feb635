------------------------------- MODULE TopUp -------------------------------
(* The automatic top-up of the prepaid traffic balance                       *)
(* (cloud-agent/src/topup.rs).  Attempts share one try_lock; the submit runs  *)
(* in a task of its own that holds the lock past the attempt's deadline.     *)
EXTENDS Integers, FiniteSets

CONSTANTS
    MinCc, TopupCc,   \* MIN_PREPAID_TRAFFIC_BALANCE_CC, PREPAID_TRAFFIC_TOPUP_CC
    Purse,            \* the CC the party holds at the start
    NudgeRoom,        \* room of the nudge channel
    MaxExcess         \* bound on forced top-ups and lost verdicts

ASSUME TopupAssumption ==
    {MinCc, TopupCc, NudgeRoom} \subseteq Nat \ {0} /\ {Purse, MaxExcess} \subseteq Nat

Attempts == {"runner", "onboarding"}

VARIABLES
    attempt,      \* where each attempt is: "idle", "balance", "cc" or "wait"
    locked,       \* in_flight
    flying,       \* submit tasks whose transaction has not landed
    landed,       \* submit tasks whose transaction has
    lost,         \* ended submits without a verdict that may still land
    excess,       \* landed top-ups that no low balance called for
    prepaid, purse, nudges,
    runner        \* "up", "down" until its supervisor restarts it, or "stopped"

topVars == <<attempt, locked, flying, landed, lost, excess, prepaid, purse, nudges, runner>>
purseVars == <<lost, excess, prepaid, purse>>

TopupInit ==
    /\ attempt = [w \in Attempts |-> "idle"] /\ locked = FALSE
    /\ flying = 0 /\ landed = 0 /\ lost = 0 /\ excess = 0
    /\ prepaid = MinCc /\ purse = Purse /\ nudges = 0 /\ runner = "up"

\* Ledger traffic is paid from the balance; the submit that used it nudges the
\* runner, unless the channel is full (TopupTrigger::nudge).
Spend ==
    /\ prepaid > 0 /\ prepaid' = prepaid - 1
    /\ nudges' = IF nudges < NudgeRoom THEN nudges + 1 ELSE nudges
    /\ UNCHANGED <<attempt, locked, flying, landed, lost, excess, purse, runner>>

\* maybe_topup takes the lock or returns at once.
MaybeTopup ==
    /\ IF locked THEN UNCHANGED <<attempt, locked>>
       ELSE locked' = TRUE /\ attempt' = [attempt EXCEPT !["runner"] = "balance"]
    /\ UNCHANGED <<flying, landed, purseVars, runner>>

RunnerIdle == runner = "up" /\ attempt["runner"] = "idle"

\* The runner's loop: the ten-minute timer, then nudges
TimerFires == RunnerIdle /\ MaybeTopup /\ UNCHANGED nudges
NudgeArrives == RunnerIdle /\ nudges > 0 /\ nudges' = nudges - 1 /\ MaybeTopup

\* Leaving an attempt before its submit drops the guard.
GiveUp(w) == attempt' = [attempt EXCEPT ![w] = "idle"] /\ locked' = FALSE
Goes(w, where) == attempt' = [attempt EXCEPT ![w] = where]

\* run_inner: the balance, within the deadline
ReadBalance ==
    /\ attempt["runner"] = "balance"
    /\ \/ prepaid >= MinCc /\ GiveUp("runner")
       \/ prepaid < MinCc /\ Goes("runner", "cc") /\ UNCHANGED locked
       \/ GiveUp("runner")
    /\ UNCHANGED <<flying, landed, purseVars, nudges, runner>>

\* force_topup: no balance check, but the lock
ForceTopup ==
    /\ attempt["onboarding"] = "idle" /\ ~locked /\ excess + lost < MaxExcess
    /\ locked' = TRUE /\ attempt' = [attempt EXCEPT !["onboarding"] = "cc"]
    /\ excess' = excess + 1
    /\ UNCHANGED <<flying, landed, lost, prepaid, purse, nudges, runner>>

\* The CC balance, and submit_topup: the task is spawned with the lock.
ReadCc(w) ==
    /\ attempt[w] = "cc"
    /\ \/ purse >= TopupCc /\ flying' = flying + 1 /\ Goes(w, "wait") /\ UNCHANGED locked
       \/ GiveUp(w) /\ UNCHANGED flying
    /\ UNCHANGED <<landed, purseVars, nudges, runner>>

\* The ledger executes a submit in flight.
Executes ==
    /\ flying > 0 /\ purse >= TopupCc
    /\ flying' = flying - 1 /\ landed' = landed + 1
    /\ prepaid' = prepaid + TopupCc /\ purse' = purse - TopupCc
    /\ UNCHANGED <<attempt, locked, lost, excess, nudges, runner>>

\* spawn_submit's task ends, with its update id, an error or a panic, and drops
\* the guard.  An error may hide a transaction that lands later.
SubmitEnds ==
    /\ \/ landed > 0 /\ landed' = landed - 1 /\ UNCHANGED <<flying, lost>>
       \/ flying > 0 /\ flying' = flying - 1 /\ UNCHANGED <<landed, lost>>
       \/ /\ flying > 0 /\ excess + lost < MaxExcess
          /\ flying' = flying - 1 /\ lost' = lost + 1 /\ UNCHANGED landed
    /\ locked' = FALSE
    /\ UNCHANGED <<attempt, excess, prepaid, purse, nudges, runner>>

LandsLate ==
    /\ lost > 0 /\ purse >= TopupCc
    /\ lost' = lost - 1 /\ excess' = excess + 1
    /\ prepaid' = prepaid + TopupCc /\ purse' = purse - TopupCc
    /\ UNCHANGED <<attempt, locked, flying, landed, nudges, runner>>

\* Mutant: the waiting attempt holds the lock and drops it at its deadline.
WaitSubmitUnlocks(w) ==
    /\ attempt[w] = "wait" /\ GiveUp(w)
    /\ UNCHANGED <<flying, landed, purseVars, nudges, runner>>

\* wait_submit: the submit ended, or the deadline passed and it goes on by itself
WaitSubmit(w) ==
    /\ attempt[w] = "wait" /\ Goes(w, "idle")
    /\ UNCHANGED <<locked, flying, landed, purseVars, nudges, runner>>

\* A panic before the submit is spawned drops the guard; the supervisor restarts
\* the runner, which keeps its channel.
RunnerFails ==
    /\ runner = "up" /\ runner' = "down"
    /\ attempt' = [attempt EXCEPT !["runner"] = "idle"]
    /\ locked' = IF attempt["runner"] \in {"balance", "cc"} THEN FALSE ELSE locked
    /\ UNCHANGED <<flying, landed, purseVars, nudges>>

RunnerRestarts ==
    /\ runner = "down" /\ runner' = "up"
    /\ UNCHANGED <<attempt, locked, flying, landed, purseVars, nudges>>

\* Shutdown is noticed between two attempts.
RunnerStops ==
    /\ RunnerIdle /\ runner' = "stopped"
    /\ UNCHANGED <<attempt, locked, flying, landed, purseVars, nudges>>

TopupNext ==
    \/ Spend \/ TimerFires \/ NudgeArrives \/ ReadBalance \/ ForceTopup
    \/ \E w \in Attempts : ReadCc(w) \/ WaitSubmit(w)
    \/ Executes \/ SubmitEnds \/ LandsLate \/ RunnerFails \/ RunnerRestarts \/ RunnerStops

TopupSpec == TopupInit /\ [][TopupNext]_topVars

(* Properties *)

\* A low balance is topped up once: however late a submit lands, whatever nudges and
\* timers fire meanwhile and whenever the runner restarts, the balance passes
\* MinCc + TopupCc only after a forced top-up or one whose verdict was lost
\* (topup.rs:12-13, 44-45).
NoOvershoot == prepaid >= MinCc + TopupCc => excess > 0

=============================================================================
