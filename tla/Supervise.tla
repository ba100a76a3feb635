----------------------------- MODULE Supervise -----------------------------
(* Supervised background tasks (agent-logic/src/supervise.rs): a task that    *)
(* fails is restarted after a growing backoff, stops the agent, or is left    *)
(* stopped; a watched cycle is never started while an earlier one runs on.    *)
EXTENDS Naturals

CONSTANTS
    Tasks,
    PolicyOf,         \* "Restart", "Escalate" or "LogOnly"
    MaxDelay,         \* the backoff's last doubling
    NoTask

ASSUME TasksAssumption ==
    /\ PolicyOf \in [Tasks -> {"Restart", "Escalate", "LogOnly"}]
    /\ MaxDelay \in Nat /\ NoTask \notin Tasks

VARIABLES
    task,         \* "start", "running", "backoff" or "ended"
    delay,        \* doublings of the backoff
    stopSignal,   \* the shared Shutdown
    escalated,    \* ESCALATED: the first required task that failed
    cycle,        \* run_watched: "idle", "waiting" for its cycle, or "ended"
    cycles        \* watched cycles that run, each in a task of its own

superVars == <<task, delay, stopSignal, escalated, cycle, cycles>>
watchVars == <<cycle, cycles>>

SuperInit ==
    /\ task = [t \in Tasks |-> "start"] /\ delay = [t \in Tasks |-> 0]
    /\ stopSignal = FALSE /\ escalated = NoTask /\ cycle = "idle" /\ cycles = 0

\* The supervisor's loop: nothing is started once the signal is there.
Start(t) ==
    /\ task[t] = "start"
    /\ task' = [task EXCEPT ![t] = IF stopSignal THEN "ended" ELSE "running"]
    /\ UNCHANGED <<delay, stopSignal, escalated, watchVars>>

\* A task that notices the signal returns; its supervisor returns with it.
Notices(t) ==
    /\ task[t] = "running" /\ stopSignal
    /\ task' = [task EXCEPT ![t] = "ended"]
    /\ UNCHANGED <<delay, stopSignal, escalated, watchVars>>

\* Policy::Restart: a long run resets the backoff, which doubles after each failure.
Restart(t) ==
    /\ PolicyOf[t] = "Restart" /\ task' = [task EXCEPT ![t] = "backoff"]
    /\ \E healthyRun \in BOOLEAN :
         delay' = [delay EXCEPT ![t] = IF healthyRun THEN 0 ELSE @]
    /\ UNCHANGED <<stopSignal, escalated>>

\* Mutant: the required task's name is kept but nobody is told to stop.
EscalateSilently(t) ==
    /\ PolicyOf[t] = "Escalate" /\ task' = [task EXCEPT ![t] = "ended"]
    /\ escalated' = IF escalated = NoTask THEN t ELSE escalated
    /\ UNCHANGED <<delay, stopSignal>>

\* Policy::Escalate
Escalate(t) ==
    /\ PolicyOf[t] = "Escalate" /\ task' = [task EXCEPT ![t] = "ended"]
    /\ escalated' = IF escalated = NoTask THEN t ELSE escalated
    /\ stopSignal' = TRUE
    /\ UNCHANGED delay

\* Policy::LogOnly
LogOnly(t) ==
    /\ PolicyOf[t] = "LogOnly" /\ task' = [task EXCEPT ![t] = "ended"]
    /\ UNCHANGED <<delay, stopSignal, escalated>>

\* A panic, in the factory too, or a return nobody asked for; during shutdown it
\* only ends the task.
Fails(t) ==
    /\ task[t] = "running"
    /\ \/ stopSignal /\ task' = [task EXCEPT ![t] = "ended"] /\ UNCHANGED <<delay, stopSignal, escalated>>
       \/ ~stopSignal /\ (Restart(t) \/ Escalate(t) \/ LogOnly(t))
    /\ UNCHANGED watchVars

\* Shutdown::sleep over, or cut short
BackoffOver(t) ==
    /\ task[t] = "backoff"
    /\ task' = [task EXCEPT ![t] = IF stopSignal THEN "ended" ELSE "start"]
    /\ delay' = [delay EXCEPT ![t] = IF stopSignal \/ @ = MaxDelay THEN @ ELSE @ + 1]
    /\ UNCHANGED <<stopSignal, escalated, watchVars>>

\* run_watched: a cycle starts unless an earlier one is still going (Watch::Busy).
StartCycle ==
    /\ cycle = "idle"
    /\ IF stopSignal THEN cycle' = "ended" /\ UNCHANGED cycles
       ELSE IF cycles > 0 THEN UNCHANGED watchVars
       ELSE cycle' = "waiting" /\ cycles' = cycles + 1
    /\ UNCHANGED <<task, delay, stopSignal, escalated>>

\* The wait ends with the cycle, at its budget (Watch::Slow: it goes on in the
\* background) or at shutdown; the interval follows.
WaitCycle ==
    /\ cycle = "waiting" /\ cycle' = IF stopSignal THEN "ended" ELSE "idle"
    /\ UNCHANGED <<task, delay, stopSignal, escalated, cycles>>

CycleEnds ==
    /\ cycles > 0 /\ cycles' = cycles - 1
    /\ UNCHANGED <<task, delay, stopSignal, escalated, cycle>>

\* The operator, or the agent's main loop, stops the agent.
SignalShutdown ==
    /\ ~stopSignal /\ stopSignal' = TRUE
    /\ UNCHANGED <<task, delay, escalated, watchVars>>

SuperNext ==
    \/ \E t \in Tasks : Start(t) \/ Notices(t) \/ Fails(t) \/ BackoffOver(t)
    \/ StartCycle \/ WaitCycle \/ CycleEnds \/ SignalShutdown

(* Properties *)

\* Once a required task failed, every supervised task comes to its end, the ones
\* that keep failing and restarting too (supervise.rs:238-274).
RequiredFailureStopsAll ==
    (escalated # NoTask) ~> (cycle = "ended" /\ \A t \in Tasks : task[t] = "ended")

=============================================================================
