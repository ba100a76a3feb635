----------------------------- MODULE AgentLife -----------------------------
(* One agent process after another over one state file: start and restore,    *)
(* the main loop with its biased select, the orderly stop, the save           *)
(* (agent-logic/src/runner.rs, state.rs; run_cloud_agent starts it).  What    *)
(* the arms do to settlements and orders is in Settlement and OrderGrid; here *)
(* an arm is a body that takes time, and the question is who runs when.       *)
EXTENDS Naturals, FiniteSets

CONSTANTS
    Parts,        \* the parts of SavedState kept by the runner
    V2Part,       \* the tickets and quotes of the RFQ V2 stack, restored by setup_rfq_v2
    MaxStarts,    \* bound on starts of the process
    MaxUpdates,   \* bound on updates buffered in the stream
    MaxOutages    \* bound on losses of the server

ASSUME LifeAssumption == V2Part \in Parts /\ {MaxStarts, MaxUpdates, MaxOutages} \subseteq Nat \ {0}

Timers == {"heartbeat", "poll", "collect"}
NoArm == "none"

VARIABLES
    proc,         \* "down", "starting", "looping", "stopping", "writing" or "exited"
    starts, ordersOnly,
    arm, due,     \* the arm whose body runs; the timers that have fired
    slow,         \* the one arm whose body may outlast the periods of the timers
    reachable, outages,
    stream, inbound, backlog,    \* the subscription, its buffered updates, stream_backlog
    pollFailed, heldBack,        \* poll_failures > 0; settlements waiting out a long backoff
    grid, sweep, booked,         \* the grid task, the sweep its exit started, orders on the book
    stop, ctrlC,                 \* the runner's Shutdown, interrupts received
    drained, withdrawn,          \* shutdown: tasks drained; how the sweep after the grid ended
    file, mem,                   \* parts in the state file, parts restored, or about to be saved
    owed                         \* parts the last save reported written and no start has taken over

bootVars == <<proc, starts, ordersOnly>>
armVars == <<arm, due, slow>>
netVars == <<reachable, outages>>
feedVars == <<stream, inbound, backlog, pollFailed, heldBack>>
bookVars == <<grid, sweep, booked>>
stopVars == <<stop, ctrlC>>
endVars == <<drained, withdrawn>>
fileVars == <<file, mem, owed>>
lifeVars == <<bootVars, armVars, netVars, feedVars, bookVars, stopVars, endVars, fileVars>>

LifeInit ==
    /\ proc = "down" /\ starts = 0 /\ ordersOnly \in BOOLEAN
    /\ arm = NoArm /\ due = {} /\ slow \in Timers /\ (ordersOnly => slow = "heartbeat")
    /\ reachable = TRUE /\ outages = 0
    /\ stream = FALSE /\ inbound = 0 /\ backlog = 0 /\ pollFailed = FALSE /\ heldBack = FALSE
    /\ grid = "none" /\ sweep = "none" /\ booked = FALSE
    /\ stop = FALSE /\ ctrlC = 0 /\ drained = FALSE /\ withdrawn = "no"
    /\ file = {} /\ mem = {} /\ owed = {}

Looping == proc = "looping"
Waiting == Looping /\ arm = NoArm

\* The loop is left: nothing it kept is looked at again.
LeaveLoop == /\ arm' = NoArm /\ due' = {} /\ stream' = FALSE /\ inbound' = 0 /\ backlog' = 0
             /\ pollFailed' = FALSE /\ heldBack' = FALSE

\* The process is gone: what only it knew is lost.
Gone(next) ==
    /\ proc' = next /\ mem' = {}
    /\ LeaveLoop /\ grid' = "none" /\ sweep' = "none" /\ stop' = FALSE /\ ctrlC' = 0
    /\ UNCHANGED <<starts, ordersOnly, slow, netVars, booked, endVars, file, owed>>

\* run_cloud_agent reaches the server and builds its parts; the party's book is
\* cleared within a bound.
Boot ==
    /\ proc \in {"down", "exited"} /\ starts < MaxStarts /\ reachable
    /\ proc' = "starting" /\ starts' = starts + 1 /\ drained' = FALSE /\ withdrawn' = "no"
    /\ booked' \in {FALSE, booked}
    /\ UNCHANGED <<ordersOnly, armVars, netVars, feedVars, grid, sweep, stopVars>>

\* setup_rfq_v2 restores its own part; when it fails V1 goes on without it.
Restored(parts, v2) == IF v2 THEN parts ELSE parts \ {V2Part}

\* Mutant: the state file is deleted as soon as it is read.
DeletedWhenRead(v2) ==
    /\ Boot /\ mem' = Restored(file, v2) /\ owed' = Restored(owed, v2) /\ file' = {}

\* What the file holds is restored, and the file kept.
StartUp(v2) ==
    /\ Boot /\ mem' = Restored(file, v2) /\ owed' = Restored(owed, v2) /\ file' = file

\* --no-restore: the file is deleted unread.
StartFresh == Boot /\ mem' = {} /\ owed' = {} /\ file' = {}

\* A client cannot be created or the subscription fails: run_agent returns the error.
StartFails == proc = "starting" /\ Gone("exited")

\* Subscribed: the restored file goes, the timers fire at once, the grid starts
\* and places orders.
Started(withGrid) ==
    /\ proc = "starting" /\ reachable
    /\ proc' = "looping" /\ file' = {} /\ mem' = {} /\ owed' = {}
    /\ due' = (IF ordersOnly THEN {"heartbeat"} ELSE Timers) /\ stream' = ~ordersOnly
    /\ grid' = (IF withGrid THEN "running" ELSE "none") /\ booked' = (booked \/ withGrid)
    /\ UNCHANGED <<starts, ordersOnly, arm, slow, netVars, inbound, backlog, pollFailed, heldBack, sweep,
                   stopVars, endVars>>

----------------------------------------------------------------------------
\* What makes the stream arm ready: a backlog, a buffered update, or the end of the stream.
StreamReady == ~ordersOnly /\ (backlog > 0 \/ (stream /\ (inbound > 0 \/ ~reachable)))

\* Time passes for the timers while the loop has nothing to do, while it handles
\* updates and while the slow body runs; the other bodies take next to none.
TimerFires(t) ==
    /\ Looping /\ t \notin due /\ arm # t /\ (ordersOnly => t = "heartbeat")
    /\ arm \in {"stream", slow} \/ (Waiting /\ due = {} /\ grid # "ended" /\ ~StreamReady)
    /\ due' = due \cup {t}
    /\ UNCHANGED <<bootVars, arm, slow, netVars, feedVars, bookVars, stopVars, endVars, fileVars>>

\* The biased select: shutdown first, then the arms in the order they are written.
Before(a) ==
    CASE a = "heartbeat" -> FALSE
      [] a = "gridexit" -> "heartbeat" \in due
      [] a = "poll" -> "heartbeat" \in due \/ grid = "ended"
      [] a = "collect" -> {"heartbeat", "poll"} \cap due # {} \/ grid = "ended"
      [] a = "stream" -> due # {} \/ grid = "ended"

Enter(a) == Waiting /\ ~stop /\ ~Before(a) /\ arm' = a

BeginTimer(t) ==
    /\ t \in due /\ Enter(t)
    /\ UNCHANGED <<bootVars, due, slow, netVars, feedVars, bookVars, stopVars, endVars, fileVars>>

BeginStream ==
    /\ StreamReady /\ Enter("stream")
    /\ UNCHANGED <<bootVars, due, slow, netVars, feedVars, bookVars, stopVars, endVars, fileVars>>

\* Mutant: the timer keeps its own schedule, so a slow body finds it due again.
NotReset(t) == due' = IF t = slow THEN due ELSE due \ {t}

\* finish_arm resets the timer once the body is over.
FinishArm(t) == due' = due \ {t}

EndHeartbeat ==
    /\ arm = "heartbeat" /\ arm' = NoArm /\ FinishArm("heartbeat")
    /\ UNCHANGED <<bootVars, slow, netVars, feedVars, bookVars, stopVars, endVars, fileVars>>

EndCollect ==
    /\ arm = "collect" /\ arm' = NoArm /\ FinishArm("collect")
    /\ UNCHANGED <<bootVars, slow, netVars, feedVars, bookVars, stopVars, endVars, fileVars>>

\* The poll's answer, and the subscription that replaces a lost one.
Polled == reachable
Resubscribed == ~stream /\ reachable

\* Connectivity that comes back ends the backoffs: a new subscription, or a poll
\* that succeeds after one that failed.
ResetFailedBackoffs == Resubscribed \/ (Polled /\ pollFailed)

\* The poll body: subscribe again, poll and advance, each within the operation timeout.
EndPoll ==
    /\ arm = "poll" /\ arm' = NoArm /\ FinishArm("poll")
    /\ stream' = (stream \/ Resubscribed) /\ pollFailed' = ~Polled
    /\ heldBack' = (heldBack /\ ~ResetFailedBackoffs)
    /\ UNCHANGED <<bootVars, slow, netVars, inbound, backlog, bookVars, stopVars, endVars, fileVars>>

\* apply_stream_batch handles at least one update within its budget, unless shutdown
\* intervenes; the rest stays in the backlog.
LeftOver(queued) == IF stop \/ queued = 0 THEN {queued} ELSE 0 .. (queued - 1)

\* Queue what is buffered and drop a stream that ended.
EndStream ==
    /\ arm = "stream" /\ arm' = NoArm
    /\ inbound' = 0 /\ stream' = (stream /\ reachable) /\ backlog' \in LeftOver(backlog + inbound)
    /\ UNCHANGED <<bootVars, due, slow, netVars, pollFailed, heldBack, bookVars, stopVars, endVars, fileVars>>

\* The grid task ended by itself: a sweep of its own starts, or cannot; in
\* orders-only mode the agent stops with an error.
GridExit ==
    /\ Waiting /\ ~stop /\ ~Before("gridexit") /\ grid = "ended"
    /\ grid' = "none" /\ sweep' \in {"running", "failed"}
    /\ IF ordersOnly THEN stop' = TRUE /\ proc' = "stopping" /\ LeaveLoop
                     ELSE UNCHANGED <<stop, proc, arm, due, feedVars>>
    /\ UNCHANGED <<starts, ordersOnly, slow, netVars, booked, ctrlC, endVars, fileVars>>

----------------------------------------------------------------------------
\* watch_ctrl_c and forward_external_shutdown.
StopSignal ==
    /\ proc \in {"looping", "stopping", "writing"} /\ ctrlC = 0
    /\ ctrlC' = 1 /\ stop' = TRUE
    /\ UNCHANGED <<bootVars, armVars, netVars, feedVars, bookVars, endVars, fileVars>>

\* The second interrupt ends the process at once; a crash does it without asking.
ForceExit == proc \in {"looping", "stopping", "writing"} /\ ctrlC = 1 /\ Gone("exited")
Crash == proc \in {"starting", "looping", "stopping", "writing"} /\ Gone("down")

ObserveStop ==
    /\ Waiting /\ stop /\ proc' = "stopping" /\ LeaveLoop
    /\ UNCHANGED <<starts, ordersOnly, slow, netVars, bookVars, stopVars, endVars, fileVars>>

\* drain_tasks_within: the settlement tasks end or are aborted.
DrainTasks ==
    /\ proc = "stopping" /\ ~drained /\ drained' = TRUE
    /\ UNCHANGED <<bootVars, armVars, netVars, feedVars, bookVars, stopVars, withdrawn, fileVars>>

\* Mutant: the join waits for the grid as long as it takes.
JoinUnbounded ==
    /\ proc = "stopping" /\ grid = "ended" /\ grid' = "joined"
    /\ UNCHANGED <<bootVars, armVars, netVars, feedVars, sweep, booked, stopVars, endVars, fileVars>>

\* join_grid: the task returns, or is aborted after its limit.
JoinGrid ==
    /\ proc = "stopping" /\ grid \in {"running", "ended"} /\ grid' = "joined"
    /\ UNCHANGED <<bootVars, armVars, netVars, feedVars, sweep, booked, stopVars, endVars, fileVars>>

\* withdraw_all: the book confirmed empty, or given up within the limit.
Withdraw ==
    /\ withdrawn' \in {"empty", "gaveup"}
    /\ booked' = (booked /\ withdrawn' = "gaveup")

StopGrid ==
    /\ proc = "stopping" /\ grid = "joined" /\ withdrawn = "no" /\ Withdraw
    /\ UNCHANGED <<bootVars, armVars, netVars, feedVars, grid, sweep, stopVars, drained, fileVars>>

\* join_sweep, and the sweep done again here when that one did not finish.
FinishSweep ==
    /\ proc = "stopping" /\ sweep # "none" /\ withdrawn = "no"
    /\ IF sweep = "done" THEN withdrawn' = "empty" /\ UNCHANGED booked ELSE Withdraw
    /\ UNCHANGED <<bootVars, armVars, netVars, feedVars, grid, sweep, stopVars, drained, fileVars>>

\* Without a grid and without a sweep there is nothing to withdraw.
GridFinished == withdrawn # "no" \/ (grid = "none" /\ sweep = "none")

\* snapshot_state: a part whose lock stays held past the limit is left out.
TakeSnapshot(held) ==
    /\ proc = "stopping" /\ drained /\ GridFinished
    /\ proc' = "writing" /\ mem' = Parts \ held
    /\ UNCHANGED <<starts, ordersOnly, armVars, netVars, feedVars, bookVars, stopVars, endVars, file, owed>>

\* write_state: renamed into place, or failed, or still running at the limit; the
\* rename happens as a whole or not at all.
WriteState(written, reported) ==
    /\ proc = "writing" /\ (reported => written)
    /\ proc' = "exited" /\ file' = IF written THEN mem ELSE file
    /\ owed' = (IF reported THEN mem ELSE {}) /\ mem' = {}
    /\ grid' = "none" /\ sweep' = "none" /\ stop' = FALSE /\ ctrlC' = 0
    /\ UNCHANGED <<starts, ordersOnly, armVars, netVars, feedVars, booked, endVars>>

----------------------------------------------------------------------------
\* The world around the loop.
UpdateArrives ==
    /\ Looping /\ stream /\ reachable /\ inbound + backlog < MaxUpdates /\ inbound' = inbound + 1
    /\ UNCHANGED <<bootVars, armVars, netVars, stream, backlog, pollFailed, heldBack, bookVars, stopVars, endVars, fileVars>>
SettlementFails ==
    /\ Looping /\ ~ordersOnly /\ ~reachable /\ ~heldBack /\ heldBack' = TRUE
    /\ UNCHANGED <<bootVars, armVars, netVars, stream, inbound, backlog, pollFailed, bookVars, stopVars, endVars, fileVars>>
BackoffElapses ==
    /\ Looping /\ heldBack /\ heldBack' = FALSE
    /\ UNCHANGED <<bootVars, armVars, netVars, stream, inbound, backlog, pollFailed, bookVars, stopVars, endVars, fileVars>>
ServerLost ==
    /\ Looping /\ reachable /\ outages < MaxOutages /\ reachable' = FALSE /\ outages' = outages + 1
    /\ UNCHANGED <<bootVars, armVars, feedVars, bookVars, stopVars, endVars, fileVars>>
ServerBack ==
    /\ ~reachable /\ reachable' = TRUE
    /\ UNCHANGED <<bootVars, armVars, outages, feedVars, bookVars, stopVars, endVars, fileVars>>
GridEnds ==
    /\ grid = "running" /\ grid' = "ended"
    /\ UNCHANGED <<bootVars, armVars, netVars, feedVars, sweep, booked, stopVars, endVars, fileVars>>
GridSweepEnds ==
    /\ sweep = "running" /\ sweep' \in {"done", "failed"} /\ booked' = (booked /\ sweep' # "done")
    /\ UNCHANGED <<bootVars, armVars, netVars, feedVars, grid, stopVars, endVars, fileVars>>

LoopStep ==
    \/ \E t \in Timers : BeginTimer(t)
    \/ BeginStream \/ EndHeartbeat \/ EndPoll \/ EndCollect \/ EndStream \/ GridExit \/ ObserveStop

StopStep ==
    \/ DrainTasks \/ JoinGrid \/ StopGrid \/ FinishSweep \/ (\E held \in SUBSET Parts : TakeSnapshot(held))
    \/ \E written, reported \in BOOLEAN : WriteState(written, reported)

LifeNext ==
    \/ \E v2 \in BOOLEAN : StartUp(v2)
    \/ StartFresh \/ StartFails \/ (\E withGrid \in BOOLEAN : Started(withGrid))
    \/ LoopStep \/ StopStep
    \/ \E t \in Timers : TimerFires(t)
    \/ StopSignal \/ ForceExit \/ Crash
    \/ UpdateArrives \/ SettlementFails \/ BackoffElapses \/ ServerLost \/ ServerBack
    \/ GridEnds \/ GridSweepEnds

LifeSpec == LifeInit /\ [][LifeNext]_lifeVars

----------------------------------------------------------------------------
\* The loop serves everyone in the end although its select is biased and one of
\* its bodies is slow: the stream's updates, whose arm comes last, a stream that was
\* lost, and the backoffs an outage left behind.
AgentServes ==
    /\ (Looping /\ StreamReady) ~> (~Looping \/ stop \/ arm = "stream" \/ ~StreamReady)
    /\ (Looping /\ ~ordersOnly /\ ~stream) ~> (~Looping \/ stop \/ stream \/ ~reachable)
    /\ (Looping /\ heldBack /\ (pollFailed \/ ~stream)) ~> (~Looping \/ stop \/ ~heldBack \/ ~reachable)

\* An agent that is told to stop, or that has lost the only work it had, ends,
\* whatever hangs: the grid, the sweep, a settlement task, a lock, the disk.
AgentStops == ((Looping /\ (stop \/ (ordersOnly /\ grid = "ended"))) \/ proc \in {"stopping", "writing"})
                 ~> proc \in {"exited", "down"}

\* An agent that comes to write its state has stopped its grid and then swept the
\* book: it is empty unless the sweep gave up.
\* A part reported saved is in the file through failed starts and crashes of
\* starts, and restored by the one that succeeds.
StopIsOrderly ==
    /\ proc = "writing" => /\ grid \notin {"running", "ended"}
                           /\ {grid, sweep} # {"none"} => withdrawn # "no"
                           /\ withdrawn = "empty" => ~booked
    /\ proc \in {"down", "exited"} => owed \subseteq file
    /\ proc = "starting" => owed \subseteq file \cap mem

============================================================================
