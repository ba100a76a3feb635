----------------------------- MODULE LpStream -----------------------------
(* The LP's bidirectional streams (cloud-agent/src/lp_stream.rs): connect,    *)
(* open, handshake, serve a session, pause, connect again.  The V1 settlement *)
(* stream and the V2 atomic stream share this loop; only the atomic one has   *)
(* confirms, sweeps and settle observations.  A confirm runs in a task of its *)
(* own that may outlive the session it came in.                              *)
EXTENDS Integers, FiniteSets

CONSTANTS
    Capacity,         \* OUTBOUND_CAPACITY
    Confirms,         \* the confirm requests the server may send
    MaxSessions,      \* bound on sessions
    MaxRuns           \* bound on starts of the stream by its supervisor

ASSUME StreamAssumption == {Capacity, MaxSessions, MaxRuns} \subseteq Nat \ {0}

NoMessage == "none"
Sessions == 0 .. MaxSessions

VARIABLES
    atomic,       \* whether this is the atomic stream
    phase,        \* "connect", "open", "handshake", "session", "pause", "crashed" or "returned"
    run, session, \* the start of the task, the session it is in
    peer,         \* "alive", "mute" (reads, sends nothing), "stuck" (neither) or "gone"
    armed,        \* IdleWatchdog::armed
    inbox,        \* the next inbound message
    handling,     \* what the session is doing: "select", "pricing" or "replying"
    out,          \* messages in the outbound queue
    confirm,      \* confirm -> where its task is and the session it belongs to
    notified,     \* sessions whose send_failed was notified
    sweeping,     \* runs of the stream with an expiry sweep under way
    stopping,     \* the shutdown signal
    observer      \* the consumer of settle observations

streamVars == <<atomic, phase, run, session, peer, armed, inbox, handling, out, confirm, notified, sweeping,
                stopping, observer>>
linkVars == <<peer, armed, inbox, out>>
taskVars == <<confirm, notified, sweeping>>
settleVars == <<observer>>

StreamInit ==
    /\ atomic \in BOOLEAN
    /\ phase = "connect" /\ run = 1 /\ session = 0 /\ peer = "gone" /\ armed = FALSE /\ inbox = NoMessage
    /\ handling = "select" /\ out = 0 /\ stopping = FALSE /\ observer = "waiting"
    /\ confirm = [c \in Confirms |-> [at |-> "unsent", in |-> 0]] /\ notified = {} /\ sweeping = {}

InSession == phase = "session"

\* Every step of the loop races the shutdown signal, which wins (until_shutdown,
\* open_bounded, Shutdown::sleep).
StreamReturns == /\ stopping /\ phase \in {"connect", "open", "pause"} /\ phase' = "returned"
          /\ UNCHANGED <<atomic, run, session, linkVars, handling, taskVars, stopping, settleVars>>

\* A channel, a token and the stream within its bound; or an error and a pause.
Connect ==
    /\ ~stopping
    /\ \/ phase = "connect" /\ phase' \in {"open", "pause"}
       \/ phase = "open" /\ phase' \in {"handshake", "pause"}
       \/ phase = "pause" /\ phase' = "connect"
    /\ UNCHANGED <<atomic, run, session, linkVars, handling, taskVars, stopping, settleVars>>

\* The handshake is queued in the new stream's empty queue, or the stream is gone.
Handshake ==
    /\ phase = "handshake"
    /\ \/ /\ session < MaxSessions /\ session' = session + 1 /\ phase' = "session"
          /\ peer' = "alive" /\ armed' = FALSE /\ inbox' = NoMessage /\ out' = 1 /\ handling' = "select"
       \/ phase' = "pause" /\ UNCHANGED <<session, linkVars, handling>>
    /\ UNCHANGED <<atomic, run, taskVars, stopping, settleVars>>

\* The session returns; the loop stops if it is told to, or pauses.
EndSession ==
    /\ phase' = IF stopping THEN "returned" ELSE "pause"
    /\ peer' = "gone" /\ armed' = FALSE /\ inbox' = NoMessage /\ out' = 0 /\ handling' = "select"
    /\ UNCHANGED <<atomic, run, session, taskVars, stopping, settleVars>>

\* The select is biased: shutdown, then a confirm's failed send, then the rest.
Selecting == InSession /\ handling = "select"
Free == Selecting /\ ~stopping /\ session \notin notified

ObserveShutdown == Selecting /\ stopping /\ EndSession
ObserveSendFailed == Selecting /\ ~stopping /\ session \in notified /\ EndSession

\* Mutant: a heartbeat that finds the queue full is dropped.
HeartbeatDropped ==
    /\ Free /\ out < Capacity /\ out' = out + 1
    /\ UNCHANGED <<atomic, phase, run, session, peer, armed, inbox, handling, taskVars, stopping, settleVars>>

\* heartbeat.tick: queued without waiting; a full queue ends the session.
HeartbeatTick ==
    \/ /\ Free /\ out < Capacity /\ out' = out + 1
       /\ UNCHANGED <<atomic, phase, run, session, peer, armed, inbox, handling, taskVars, stopping, settleVars>>
    \/ Free /\ out = Capacity /\ EndSession

\* spawn_sweep, unless this run of the stream still holds the flag.
SweepTick ==
    /\ Free /\ atomic /\ run \notin sweeping /\ sweeping' = sweeping \cup {run}
    /\ UNCHANGED <<atomic, phase, run, session, linkVars, handling, confirm, notified, stopping, settleVars>>

\* The sweep ends, or unwinds: either drops the flag.
SweepEnds(r) ==
    /\ r \in sweeping /\ sweeping' = sweeping \ {r}
    /\ UNCHANGED <<atomic, phase, run, session, linkVars, handling, confirm, notified, stopping, settleVars>>

\* The inbound stream ended or failed.
InboundEnds == Free /\ inbox = "end" /\ EndSession

\* Any message restarts the idle window; a server heartbeat arms the watchdog.
Received == Free /\ inbox # NoMessage /\ inbox # "end" /\ inbox' = NoMessage /\ armed' = (armed \/ inbox = "heartbeat")

\* A heartbeat or an acknowledgement: nothing else happens.
ReceiveOther ==
    /\ Received /\ inbox = "heartbeat"
    /\ UNCHANGED <<atomic, phase, run, session, peer, handling, out, taskVars, stopping, settleVars>>

\* An RFQ is priced inside the session, within a bound; a quote or a reject
\* follows either way.
ReceiveRfq ==
    /\ Received /\ inbox = "rfq" /\ handling' = "pricing"
    /\ UNCHANGED <<atomic, phase, run, session, peer, out, taskVars, stopping, settleVars>>

\* spawn_confirm: the task takes the session's own queue and notification.
ReceiveConfirm ==
    /\ Received /\ inbox \in Confirms
    /\ confirm' = [confirm EXCEPT ![inbox] = [at |-> "handling", in |-> session]]
    /\ UNCHANGED <<atomic, phase, run, session, peer, handling, out, notified, sweeping, stopping, settleVars>>

\* The watchdog is polled last, when no message waits.
IdleExpires == Free /\ armed /\ inbox = NoMessage /\ EndSession

Priced ==
    /\ InSession /\ handling = "pricing" /\ handling' = "replying"
    /\ UNCHANGED <<atomic, phase, run, session, linkVars, taskVars, stopping, settleVars>>

\* send_bounded: queued, or closed or stalled for too long, which ends the session.
Reply ==
    /\ InSession /\ handling = "replying"
    /\ \/ /\ out < Capacity /\ out' = out + 1 /\ handling' = "select"
          /\ UNCHANGED <<atomic, phase, run, session, peer, armed, inbox, taskVars, stopping, settleVars>>
       \/ (out = Capacity \/ peer = "gone") /\ EndSession

\* Pricing panics: the task ends, and its supervisor starts it again.
Panics ==
    /\ InSession /\ handling = "pricing" /\ run < MaxRuns /\ phase' = "crashed"
    /\ peer' = "gone" /\ armed' = FALSE /\ inbox' = NoMessage /\ out' = 0 /\ handling' = "select"
    /\ UNCHANGED <<atomic, run, session, taskVars, stopping, settleVars>>
Restarted ==
    /\ phase = "crashed"
    /\ IF stopping THEN phase' = "returned" /\ run' = run ELSE phase' = "connect" /\ run' = run + 1
    /\ UNCHANGED <<atomic, session, linkVars, handling, taskVars, stopping, settleVars>>

\* handle_confirm ends with an envelope or a reject, or panics and is rejected.
ConfirmEnds(c) ==
    /\ confirm[c].at = "handling" /\ confirm' = [confirm EXCEPT ![c].at = "sending"]
    /\ UNCHANGED <<atomic, phase, run, session, linkVars, handling, notified, sweeping, stopping, settleVars>>

Current(c) == InSession /\ confirm[c].in = session

\* Mutant: the task logs its failed send and tells nobody.
ConfirmSendsQuietly(c) ==
    /\ confirm[c].at = "sending"
    /\ \/ /\ Current(c) /\ out < Capacity /\ out' = out + 1
          /\ confirm' = [confirm EXCEPT ![c].at = "answered"]
       \/ /\ ~Current(c) \/ out = Capacity \/ peer = "gone"
          /\ confirm' = [confirm EXCEPT ![c].at = "failed"] /\ UNCHANGED out
    /\ UNCHANGED <<atomic, phase, run, session, peer, armed, inbox, handling, notified, sweeping, stopping, settleVars>>

\* The answer goes to the session it was asked in.  When that session is over, the
\* queue may still take it, for nobody, or be closed; a failed send tells its
\* session, and no other.
ConfirmSends(c) ==
    /\ confirm[c].at = "sending"
    /\ \/ /\ Current(c) /\ out < Capacity /\ out' = out + 1
          /\ confirm' = [confirm EXCEPT ![c].at = "answered"] /\ UNCHANGED notified
       \/ /\ ~Current(c) \/ out = Capacity \/ peer = "gone"
          /\ confirm' = [confirm EXCEPT ![c].at = "failed"] /\ notified' = notified \cup {confirm[c].in} /\ UNCHANGED out
       \/ ~Current(c) /\ confirm' = [confirm EXCEPT ![c].at = "failed"] /\ UNCHANGED <<notified, out>>
    /\ UNCHANGED <<atomic, phase, run, session, peer, armed, inbox, handling, sweeping, stopping, settleVars>>

\* The server: it reads the queue, sends, stops sending, stops reading or closes.
Drain == /\ InSession /\ peer \in {"alive", "mute"} /\ out > 0 /\ out' = out - 1
         /\ UNCHANGED <<atomic, phase, run, session, peer, armed, inbox, handling, taskVars, stopping, settleVars>>
ServerSends ==
    /\ InSession /\ peer = "alive" /\ inbox = NoMessage
    /\ inbox' \in {"heartbeat", "rfq"} \cup {c \in Confirms : atomic /\ confirm[c].at = "unsent"}
    /\ UNCHANGED <<atomic, phase, run, session, peer, armed, handling, out, taskVars, stopping, settleVars>>
PeerFails ==
    /\ InSession
    /\ \/ peer = "alive" /\ peer' \in {"mute", "stuck"} /\ UNCHANGED inbox
       \/ peer # "gone" /\ peer' = "gone" /\ inbox' = "end"
    /\ UNCHANGED <<atomic, phase, run, session, armed, handling, out, taskVars, stopping, settleVars>>

\* The consumer of the updates watcher's observations lives across sessions and takes
\* them one by one, each in a task whose panic it survives.
TakeSettle ==
    /\ atomic /\ observer = "waiting" /\ observer' = IF stopping THEN "stopped" ELSE "applying"
    /\ UNCHANGED <<atomic, phase, run, session, linkVars, handling, taskVars, stopping>>
SettleApplied == /\ observer = "applying" /\ observer' = "waiting"
                 /\ UNCHANGED <<atomic, phase, run, session, linkVars, handling, taskVars, stopping>>

Shutdown == /\ ~stopping /\ stopping' = TRUE
            /\ UNCHANGED <<atomic, phase, run, session, linkVars, handling, taskVars, settleVars>>

\* The steps of the stream's own task.
StreamStep ==
    \/ StreamReturns \/ Connect \/ Handshake \/ ObserveShutdown \/ ObserveSendFailed \/ InboundEnds
    \/ ReceiveOther \/ ReceiveRfq \/ ReceiveConfirm \/ Priced \/ Reply \/ Restarted

StreamNext ==
    \/ StreamStep \/ HeartbeatTick \/ SweepTick \/ IdleExpires \/ Panics
    \/ (\E r \in sweeping : SweepEnds(r)) \/ (\E c \in Confirms : ConfirmEnds(c) \/ ConfirmSends(c))
    \/ Drain \/ ServerSends \/ PeerFails \/ TakeSettle \/ SettleApplied \/ Shutdown

----------------------------------------------------------------------------

\* A session whose server neither reads nor sends, or has gone silent after a
\* heartbeat, does not stay: the queue that fills with the client's own heartbeats
\* ends it, or the watchdog does, whatever the session was doing.
DeadSessionEnds ==
    \A s \in Sessions \ {0} :
        InSession /\ session = s /\ (peer \in {"stuck", "gone"} \/ (peer = "mute" /\ armed))
            ~> ~(InSession /\ session = s)

\* A confirm has committed funds: its answer reaches the queue of the session that
\* asked, or that session ends, so that the server never waits on a live session for
\* an answer that was lost.
ConfirmsAnswered ==
    \A c \in Confirms : confirm[c].at = "handling" ~> confirm[c].at = "answered" \/ ~Current(c)

=============================================================================
