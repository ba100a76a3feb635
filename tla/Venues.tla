------------------------------- MODULE Venues -------------------------------
(* The AtomicDVP venues of one liquidity provider: the operator's commands    *)
(* that create, rotate and retire them (cloud-agent/src/lib.rs: run_atomic,   *)
(* atomic_setup_agent), and the agent's registry of them (venue_registry.rs), *)
(* read once by setup_rfq_v2 and refreshed by the updates watcher             *)
(* (updates_worker.rs).                                                       *)
(*                                                                            *)
(* history is the ledger's updates about these venues; an update's place in   *)
(* it is its offset and the contract id of the venue it creates.  One         *)
(* operator runs one command at a time; a submission that ends in an error    *)
(* may have executed.  The registry's instruments match: a venue is created   *)
(* from the configuration the agent expects.                                  *)
EXTENDS Integers, Sequences

CONSTANTS
    VenueMarkets,     \* markets whose rfq.v2 section is enabled
    QuoteKeys,        \* quote keys the operator may configure
    OnlyV2,           \* rfq_v2_only: refuse to run without a venue
    MaxUpdates,       \* bound on the ledger's updates
    MaxDeaths,        \* bound on the watcher's failed runs
    RefreshMayFail,   \* may a read of the venues fail, or the watcher die in one?
    BusyStart         \* may venues change before the watcher has its first cursor?

VARIABLES
    history,          \* the updates: [gone, market, key], 0 and NoMarket for a part left out
    envKey,           \* the configured quote key
    command,          \* the operator's command: its op, its key, the markets left and the venues it saw
    session,          \* the agent: "down", "setup", "decide", "up", and its key
    registry,         \* market -> the venue held, or NoVenue
    resume,           \* the watcher's cursor kept over its runs, and the restarts at it
    watcher,          \* the watcher's run: where it stands and its cursor
    snapshot,         \* the venues a refresh has read and not yet stored
    deaths

operatorVars == <<envKey, command>>
agentVars == <<session, registry, resume, watcher, snapshot, deaths>>
venueVars == <<history, operatorVars, agentVars>>

NoMarket == "none"
Keyless == "none"
NoVenue == 0
NoCursor == -1
ResumeRetries == 2

ASSUME VenuesAssumption ==
    /\ NoMarket \notin VenueMarkets
    /\ MaxUpdates \in Nat /\ MaxDeaths \in Nat

LedgerEnd == Len(history)
\* The venues live at an offset, and those of a market among them
LiveAt(o) == {c \in 1 .. o : history[c].market # NoMarket /\ \A u \in 1 .. o : history[u].gone # c}
OfMarket(venues, m) == {c \in venues : history[c].market = m}

NoCommand == [op |-> "none", key |-> Keyless, left |-> {}, seen |-> {}]
Watcher(at, cursor) == [at |-> at, cursor |-> cursor]
ResumeAt(cursor, retries) == [cursor |-> cursor, retries |-> retries]
NoVenues == [m \in VenueMarkets |-> NoVenue]
VenuesInit ==
    /\ history = << >>
    /\ envKey \in QuoteKeys /\ command = NoCommand
    /\ session = [at |-> "down", key |-> Keyless] /\ registry = NoVenues
    /\ resume = ResumeAt(NoCursor, 0) /\ watcher = Watcher("off", NoCursor)
    /\ snapshot = {} /\ deaths = 0

----------------------------------------------------------------------------
(* The operator *)

\* run_atomic_keygen writes nothing: the operator puts the key into the environment.
ConfigureKey(k) ==
    /\ command.op = "none"
    /\ envKey' = k /\ UNCHANGED <<history, command, agentVars>>

\* A command reads the venues once, before it submits anything, and goes on only with
\* what it can do: create and setup leave alone a market that has a venue, whatever its
\* key; rotate and retire need one.
FindVenues(o, ms) ==
    /\ command.op = "none"
    /\ o = "setup" \/ \E m \in VenueMarkets : ms = {m}
    /\ LET seen == LiveAt(LedgerEnd)
           todo == {m \in ms : OfMarket(seen, m) = {} <=> o \in {"create", "setup"}}
       IN  todo # {} /\ command' = [op |-> o, key |-> envKey, left |-> todo, seen |-> seen]
    /\ UNCHANGED <<history, envKey, agentVars>>

\* The command goes on to its next market, or ends.
Done(m) == command' = IF command.left = {m} THEN NoCommand ELSE [command EXCEPT !.left = @ \ {m}]

\* The submission of an update executes, if what it archives is still there, or does not.
Submitted(gone, m, k) ==
    \/ history' = history
    \/ /\ LedgerEnd < MaxUpdates /\ gone \in LiveAt(LedgerEnd) \cup {NoVenue}
       /\ BusyStart \/ session.at = "down" \/ resume.cursor # NoCursor
       /\ history' = Append(history, [gone |-> gone, market |-> m, key |-> k])

CreateVenue(m) ==
    /\ command.op \in {"create", "setup"} /\ m \in command.left
    /\ Submitted(NoVenue, m, command.key)
    /\ Done(m) /\ UNCHANGED <<envKey, agentVars>>

\* UpdateVenueKey archives the venue and creates it with the new key.
RotateKey(v) ==
    /\ command.op = "rotate" /\ v \in command.seen /\ history[v].market \in command.left
    /\ Submitted(v, history[v].market, command.key)
    /\ Done(history[v].market) /\ UNCHANGED <<envKey, agentVars>>

RetireVenue(v) ==
    /\ command.op = "retire" /\ v \in command.seen /\ history[v].market \in command.left
    /\ Submitted(v, NoMarket, command.key)
    /\ Done(history[v].market) /\ UNCHANGED <<envKey, agentVars>>

\* A command that is declined at its prompt, killed, or ends at a failing call
Interrupted ==
    /\ command.op # "none"
    /\ command' = NoCommand /\ UNCHANGED <<history, envKey, agentVars>>

----------------------------------------------------------------------------
(* setup_rfq_v2 *)

\* Agent start: a new registry, expecting a venue of each market with this key.
SetUp ==
    /\ session.at = "down"
    /\ session' = [at |-> "setup", key |-> envKey]
    /\ snapshot' = LiveAt(LedgerEnd)
    /\ UNCHANGED <<history, operatorVars, registry, resume, watcher, deaths>>

\* What refresh stores of the venues it has read: one a market, whichever comes last.
Refreshed ==
    {r \in [VenueMarkets -> snapshot \cup {NoVenue}] :
        \A m \in VenueMarkets :
            IF OfMarket(snapshot, m) = {} THEN r[m] = NoVenue ELSE r[m] \in OfMarket(snapshot, m)}

\* Mutant: a refresh adds what it found to what is held.
RefreshMerges == registry' \in {[m \in VenueMarkets |-> IF r[m] = NoVenue THEN registry[m] ELSE r[m]] : r \in Refreshed}

Refresh == registry' \in Refreshed

\* validated: the venue held has the key of this agent.
Validated(m) == registry[m] # NoVenue /\ history[registry[m]].key = session.key

\* The first refresh, whose failure is logged; the watcher is started either way.
Discover ==
    /\ session.at = "setup"
    /\ Refresh \/ (RefreshMayFail /\ UNCHANGED registry)
    /\ session' = [session EXCEPT !.at = "decide"] /\ watcher' = Watcher("dead", NoCursor)
    /\ snapshot' = {} /\ UNCHANGED <<history, operatorVars, resume, deaths>>

\* The process ends; nothing of the registry or the watcher is kept.
Gone ==
    /\ session' = [at |-> "down", key |-> Keyless] /\ registry' = NoVenues
    /\ resume' = ResumeAt(NoCursor, 0) /\ watcher' = Watcher("off", NoCursor) /\ snapshot' = {}

\* Without a venue the agent goes on with V1, or does not go on.
Decide ==
    /\ session.at = "decide"
    /\ IF OnlyV2 /\ \A m \in VenueMarkets : ~Validated(m) THEN Gone
       ELSE session' = [session EXCEPT !.at = "up"] /\ UNCHANGED <<registry, resume, watcher, snapshot>>
    /\ UNCHANGED <<history, operatorVars, deaths>>

\* The agent stops, or crashes.
StopAgent == session.at # "down" /\ Gone /\ UNCHANGED <<history, operatorVars, deaths>>

----------------------------------------------------------------------------
(* The updates watcher *)

WatcherUnchanged == UNCHANGED <<history, operatorVars, session, deaths>>

\* Resume::seed: a run starts where the last one was, unless too many failed there.
StartRun ==
    /\ watcher.at = "dead"
    /\ IF resume.cursor # NoCursor /\ resume.retries < ResumeRetries
       THEN resume' = [resume EXCEPT !.retries = @ + 1] /\ watcher' = Watcher("poll", resume.cursor)
       ELSE resume' = ResumeAt(NoCursor, 0) /\ watcher' = Watcher("poll", NoCursor)
    /\ WatcherUnchanged /\ UNCHANGED <<registry, snapshot>>

\* Resume::record
Record(o) == resume' = ResumeAt(o, IF resume.cursor = o THEN resume.retries ELSE 0)

SeedCursor ==
    /\ watcher.at = "poll" /\ watcher.cursor = NoCursor
    /\ watcher' = [watcher EXCEPT !.cursor = LedgerEnd] /\ Record(LedgerEnd)
    /\ WatcherUnchanged /\ UNCHANGED <<registry, snapshot>>

\* A batch, whole or partial, is an ordered prefix of the updates past the cursor, which
\* is recorded before the venues are read again.
Poll(o) ==
    /\ watcher.at = "poll" /\ watcher.cursor # NoCursor /\ o \in watcher.cursor + 1 .. LedgerEnd
    /\ Record(o) /\ watcher' = Watcher("changed", o)
    /\ WatcherUnchanged /\ UNCHANGED <<registry, snapshot>>

ReadVenues ==
    /\ watcher.at = "changed"
    /\ snapshot' = LiveAt(LedgerEnd) /\ watcher' = [watcher EXCEPT !.at = "read"]
    /\ WatcherUnchanged /\ UNCHANGED <<registry, resume>>

StoreVenues ==
    /\ watcher.at = "read"
    /\ Refresh /\ snapshot' = {} /\ watcher' = [watcher EXCEPT !.at = "poll"]
    /\ WatcherUnchanged /\ UNCHANGED resume

\* An error, or no result in time: the change is not looked at again.
RefreshFails ==
    /\ RefreshMayFail /\ watcher.at = "changed"
    /\ watcher' = [watcher EXCEPT !.at = "poll"]
    /\ WatcherUnchanged /\ UNCHANGED <<registry, resume, snapshot>>

\* The watcher's task fails and is restarted.
WatcherDies ==
    /\ watcher.at \in {"poll"} \cup (IF RefreshMayFail THEN {"changed", "read"} ELSE {})
    /\ deaths < MaxDeaths /\ deaths' = deaths + 1
    /\ watcher' = Watcher("dead", NoCursor) /\ snapshot' = {}
    /\ UNCHANGED <<history, operatorVars, session, registry, resume>>

----------------------------------------------------------------------------
VenuesNext ==
    \/ \E k \in QuoteKeys : ConfigureKey(k)
    \/ \E o \in {"create", "rotate", "retire", "setup"}, ms \in SUBSET VenueMarkets : FindVenues(o, ms)
    \/ \E m \in VenueMarkets : CreateVenue(m)
    \/ \E v \in 1 .. MaxUpdates : RotateKey(v) \/ RetireVenue(v)
    \/ Interrupted
    \/ SetUp \/ Discover \/ Decide \/ StopAgent
    \/ StartRun \/ SeedCursor \/ ReadVenues \/ StoreVenues \/ RefreshFails \/ WatcherDies
    \/ \E o \in 1 .. MaxUpdates : Poll(o)

VenuesSpec == VenuesInit /\ [][VenuesNext]_venueVars

----------------------------------------------------------------------------
\* refresh is "called at startup and whenever the updates watcher sees an AtomicDVP
\* create/archive" (venue_registry.rs): while the watcher is between two polls, the
\* registry is the ledger's at its cursor or later.  There is one offset at which the
\* markets the agent quotes are those with a live venue of its key, and each is quoted
\* on that venue, never on one that has been archived.
VenuesTracked ==
    session.at = "up" /\ watcher.at = "poll" /\ watcher.cursor # NoCursor =>
        \E o \in watcher.cursor .. LedgerEnd : \A m \in VenueMarkets :
            LET own == {c \in OfMarket(LiveAt(o), m) : history[c].key = session.key}
            IN  IF own = {} THEN ~Validated(m) ELSE registry[m] \in own

=============================================================================
