------------------------------ MODULE MCDesk ------------------------------
(* Small instances of the process as a whole, of its stream to the server and *)
(* of one settlement it submits inside a quote's window, of up to three        *)
(* attempts: each initial state runs one of them while the others stand still. *)
EXTENDS AtomicSubmit, LpStream, AgentLife

VARIABLE part     \* what runs

DeskInit ==
    /\ part \in {"stream", "agent", "settle"}
    /\ StreamInit /\ (part # "stream" => atomic)
    /\ LifeInit /\ (part # "agent" => ~ordersOnly /\ slow = "poll")
    /\ Init /\ (part # "settle" => op = [dryRun |-> FALSE, force |-> FALSE, deadline |-> FALSE])

DeskNext ==
    \/ part = "stream" /\ StreamNext /\ UNCHANGED <<lifeVars, vars, part>>
    \/ part = "agent" /\ LifeNext /\ UNCHANGED <<streamVars, vars, part>>
    \/ part = "settle" /\ Next /\ UNCHANGED <<streamVars, lifeVars, part>>

\* The stream's task is scheduled, its timers fire, confirms end.
StreamFairness ==
    /\ WF_streamVars(part = "stream" /\ StreamStep)
    /\ WF_streamVars(part = "stream" /\ HeartbeatTick)
    /\ WF_streamVars(part = "stream" /\ IdleExpires)
    /\ \A c \in Confirms : /\ WF_streamVars(part = "stream" /\ ConfirmEnds(c))
                           /\ WF_streamVars(part = "stream" /\ ConfirmSends(c))

\* The loop's bodies and the steps of the stop are bounded by their timeouts; a
\* timer's period elapses however often the loop is busy in between.
LifeFairness ==
    /\ WF_lifeVars(part = "agent" /\ LoopStep) /\ WF_lifeVars(part = "agent" /\ StopStep)
    /\ \A t \in Timers : SF_lifeVars(part = "agent" /\ TimerFires(t))

DeskSpec ==
    /\ DeskInit /\ [][DeskNext]_<<streamVars, lifeVars, vars, part>>
    /\ StreamFairness /\ LifeFairness

===========================================================================
