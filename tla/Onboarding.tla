----------------------------- MODULE Onboarding -----------------------------
(* Self-service onboarding (cloud-agent/src/lib.rs: run_onboard,            *)
(* prepare_onboard_key, complete_ledger_onboarding, preapproval_targets and  *)
(* classify_cc_coverage): a command that is run by hand, may be killed at    *)
(* any step, fail at any call, and is then simply run again.  What it may    *)
(* rely on is the .env file, which it writes one value at a time, and what   *)
(* the server and the ledger say when asked.                                 *)
(*                                                                           *)
(* A write of .env is one step (the file is rewritten in place).  A call     *)
(* that fails ends the run, except where the code collects the failure.  A   *)
(* submission that fails may have executed, may never execute, or may still  *)
(* execute later.                                                            *)
EXTENDS Integers, Sequences, FiniteSets, FiniteSetsExt

CONSTANTS
    OwnKeys,          \* key pairs: the ones an operator supplies and the generated ones
    Advertised,       \* list_faucet_instruments: a sequence of [token, registry, operator], "" for a part left out
    PriorGrants,      \* the CIP-56 preapprovals there may be before
    MaxRequests,      \* bound on the contracts of one kind that are requested
    MaxUntold         \* bound on the kinds whose submissions end without an answer

VARIABLES
    dotenv,              \* the .env file: key, pub, party and whether it holds the server's configuration
    at,               \* where the run stands: "idle" before it and after it
    using,            \* the key of this run, and the public key it goes by
    status,           \* the last status the server told, of this run
    entry,            \* the server's waiting list: key -> status
    cc,               \* CC preapprovals on the ledger: proposals pending, accepted and current, accepted and past the deadline
    grants,           \* CIP-56 preapprovals on the ledger before: [admin, operator, scoped]
    granted,          \* and those made since, for all instruments of a registry
    targets,          \* registries this run has still to ask
    users,            \* UserServiceRequests and UserServices on the ledger
    untold,           \* what was requested with an outcome no run was told of
    late,             \* submissions that failed and may still execute
    failures          \* preapproval_failures

envVars == <<dotenv, at, using, status>>
contractVars == <<cc, grants, granted, users>>
runVars == <<targets, failures>>
onboardVars == <<envVars, entry, contractVars, untold, late, runVars>>

Unset == "unset"
Blank == ""
Dso == "dso"
Given(v) == v # Unset /\ v # Blank
Statuses == <<"unknown", "requested", "signatureRequired", "signatureSubmitted", "topologyCreated", "onboarded">>
HasParty(s) == s \in {"topologyCreated", "onboarded"}
Registries == {Advertised[i].registry : i \in DOMAIN Advertised}
Grant(admin, operator, scoped) == [admin |-> admin, operator |-> operator, scoped |-> scoped]

ASSUME OnboardingAssumption ==
    /\ {Unset, Blank} \cap OwnKeys = {}
    /\ Registries \cap {"cc", "user"} = {}      \* a registry is a party
    /\ MaxRequests \in Nat /\ MaxUntold \in Nat

OnboardInit ==
    /\ dotenv = [key |-> Unset, pub |-> Unset, party |-> Unset, config |-> FALSE]
    /\ at = "idle" /\ using = Unset /\ status = "unknown"
    /\ entry = [k \in OwnKeys |-> "unknown"]
    /\ cc = [proposals |-> 0, current |-> FALSE, stale |-> FALSE]
    /\ grants \in SUBSET PriorGrants
    /\ granted = [a \in Registries |-> 0] /\ users = 0
    /\ untold = {} /\ late = {} /\ targets = {} /\ failures = {}

Goto(p) == at' = p
\* The process ends, however it does; nothing of the run itself is kept.
Quit == at' = "idle" /\ using' = Unset /\ status' = "unknown" /\ targets' = {} /\ failures' = {}
Bail == Quit /\ UNCHANGED <<dotenv, entry, contractVars, untold, late>>

----------------------------------------------------------------------------
(* Step 1: the key, and the party of --party *)

Start == at = "idle" /\ Goto("key") /\ UNCHANGED <<dotenv, using, status, entry, contractVars, untold, late, runVars>>

\* A key given by flag, environment or prompt stays out of .env; it must be the one .env records.
SuppliedKey(k) ==
    /\ at = "key"
    /\ IF (Given(dotenv.pub) /\ dotenv.pub # k) \/ (Given(dotenv.key) /\ dotenv.key # k) THEN Bail
       ELSE /\ dotenv' = [dotenv EXCEPT !.pub = k] /\ using' = k /\ Goto("party")
            /\ UNCHANGED <<status, entry, contractVars, untold, late, runVars>>

EnvKey ==
    /\ at = "key" /\ Given(dotenv.key)
    /\ dotenv' = [dotenv EXCEPT !.pub = dotenv.key] /\ using' = dotenv.key /\ Goto("party")
    /\ UNCHANGED <<status, entry, contractVars, untold, late, runVars>>

NoKey == at = "key" /\ ~Given(dotenv.key) /\ (Given(dotenv.party) \/ Given(dotenv.pub)) /\ Bail

\* A fresh pair: the private key reaches .env before anything else is done with it.
Generate(k) ==
    /\ at = "key" /\ ~Given(dotenv.key) /\ ~Given(dotenv.party) /\ ~Given(dotenv.pub)
    /\ entry[k] = "unknown" /\ dotenv' = [dotenv EXCEPT !.key = k] /\ using' = k /\ Goto("pub")
    /\ UNCHANGED <<status, entry, contractVars, untold, late, runVars>>

WritePub ==
    /\ at = "pub" /\ dotenv' = [dotenv EXCEPT !.pub = using] /\ Goto("party")
    /\ UNCHANGED <<using, status, entry, contractVars, untold, late, runVars>>

\* --party, when given, is written first; a party in .env skips the waiting list.
WithParty(flag) ==
    /\ at = "party"
    /\ dotenv' = IF Given(flag) THEN [dotenv EXCEPT !.party = flag] ELSE dotenv
    /\ Goto(IF Given(dotenv'.party) THEN (IF dotenv.config THEN "instruments" ELSE "configOnly") ELSE "config")
    /\ UNCHANGED <<using, status, entry, contractVars, untold, late, runVars>>

\* write_server_config_to_env leaves the agent's own keys alone.
FetchConfig ==
    /\ at \in {"config", "configOnly"}
    /\ dotenv' = [dotenv EXCEPT !.config = TRUE] /\ Goto(IF at = "config" THEN "register" ELSE "instruments")
    /\ UNCHANGED <<using, status, entry, contractVars, untold, late, runVars>>

----------------------------------------------------------------------------
(* Steps 4 to 8: the waiting list *)

\* Registering a key that is on the list already is answered with its status.
Registered == [entry EXCEPT ![using] = IF @ = "unknown" THEN "requested" ELSE @]
RegisterAgent ==
    /\ at = "register" /\ entry' = Registered /\ status' = Registered[using] /\ Goto("wait")
    /\ UNCHANGED <<dotenv, using, contractVars, untold, late, runVars>>
RegisterUnanswered ==
    /\ at = "register" /\ entry' = Registered /\ Quit
    /\ UNCHANGED <<dotenv, contractVars, untold, late>>

\* Polls until there is something to sign, or the topology exists.
WaitForMultihash ==
    /\ at = "wait"
    /\ IF status = "signatureRequired" THEN Goto("sign") /\ UNCHANGED status
       ELSE IF HasParty(status) THEN Goto("topology") /\ UNCHANGED status
       ELSE status' = entry[using] /\ UNCHANGED at
    /\ UNCHANGED <<dotenv, using, entry, contractVars, untold, late, runVars>>

SubmitSignature(answered) ==
    /\ at = "sign"
    /\ entry' = [entry EXCEPT ![using] = IF @ = "signatureRequired" THEN "signatureSubmitted" ELSE @]
    /\ IF answered THEN Goto("topology") /\ status' = entry'[using] /\ UNCHANGED <<using, runVars>> ELSE Quit
    /\ UNCHANGED <<dotenv, contractVars, untold, late>>

\* The poll that first sees the topology also takes the party; a run that knew of it
\* before the loop fetches the party in a call of its own.
WaitForTopology ==
    /\ at = "topology"
    /\ IF HasParty(status) THEN Goto("fetchParty") /\ UNCHANGED <<dotenv, status>>
       ELSE /\ status' = entry[using]
            /\ IF HasParty(entry[using]) THEN dotenv' = [dotenv EXCEPT !.party = using] /\ Goto("fetchParty")
               ELSE UNCHANGED <<dotenv, at>>
    /\ UNCHANGED <<using, entry, contractVars, untold, late, runVars>>
FetchParty ==
    /\ at = "fetchParty"
    /\ dotenv' = IF dotenv.party = Unset THEN [dotenv EXCEPT !.party = using] ELSE dotenv
    /\ Goto("instruments")
    /\ UNCHANGED <<using, status, entry, contractVars, untold, late, runVars>>

----------------------------------------------------------------------------
(* Steps 9 to 11: the ledger *)

Amulet == {i \in DOMAIN Advertised : Advertised[i].token = "Amulet"}
CcTarget == IF Amulet = {} THEN << >>
            ELSE LET i == Advertised[Min(Amulet)] IN IF i.registry = Blank \/ i.operator = Blank THEN << >> ELSE <<i>>

\* Utility entries that name a registry and an operator, the DSO's own left out.
Usable == {i \in DOMAIN Advertised :
             /\ Advertised[i].token # "Amulet" /\ Advertised[i].registry \notin {Blank}
             /\ CcTarget # << >> => Advertised[i].registry # CcTarget[1].registry
             /\ Advertised[i].operator # Blank}
First(admin) == Advertised[Min({i \in Usable : Advertised[i].registry = admin})]

\* Per registry, with the operator first advertised, unless one for every instrument
\* of it stands, whatever its operator.
PreapprovalTargets(existing) ==
    {[admin |-> a, operator |-> First(a).operator] :
        a \in {Advertised[i].registry : i \in Usable} \ {p.admin : p \in {g \in existing : ~g.scoped}}}
Standing == grants \cup {Grant(a, First(a).operator, FALSE) : a \in {r \in Registries : granted[r] > 0}}

\* A lingering proposal does not hide an accepted preapproval that runs out.
ClassifyCcCoverage(c) ==
    IF c.current THEN "active" ELSE IF c.proposals > 0 /\ ~c.stale THEN "proposalPending" ELSE "missing"

\* A submission executes or not, and the run is told or not; one it was not told of
\* may execute later.
Outcomes == {"done", "doneUntold", "pending", "refused"}
Enact(subject) ==
    /\ cc' = IF subject = "cc" THEN [cc EXCEPT !.proposals = @ + 1] ELSE cc
    /\ users' = IF subject = "user" THEN users + 1 ELSE users
    /\ granted' = IF subject \in Registries THEN [granted EXCEPT ![subject] = @ + 1] ELSE granted
    /\ UNCHANGED grants
Submit(subject, outcome) ==
    /\ IF outcome \in {"done", "doneUntold"} THEN Enact(subject) ELSE UNCHANGED contractVars
    /\ late' = IF outcome = "pending" THEN late \cup {subject} ELSE late
    /\ untold' = IF outcome \in {"doneUntold", "pending"} THEN untold \cup {subject} ELSE untold
    /\ Cardinality(untold') <= MaxUntold

ListInstruments == at = "instruments" /\ Goto("cc") /\ UNCHANGED <<dotenv, using, status, entry, contractVars, untold, late, runVars>>

\* Mutant: a snapshot that could not be read is taken for no coverage.
CcMissingWhenUnread(read, outcome) ==
    /\ at = "cc" /\ cc.proposals < MaxRequests
    /\ IF read /\ ClassifyCcCoverage(cc) # "missing" THEN UNCHANGED <<contractVars, untold, late>> ELSE Submit("cc", outcome)
    /\ Goto("grants") /\ UNCHANGED <<dotenv, using, status, entry, runVars>>

\* The CC step is skipped, and recorded, where the snapshot could not be read.
CcPreapproval(read, outcome) ==
    /\ at = "cc" /\ cc.proposals < MaxRequests
    /\ LET coverage == IF read THEN ClassifyCcCoverage(cc) ELSE "unread"
           create == coverage = "missing" /\ CcTarget # << >>
       IN  /\ IF create THEN Submit("cc", outcome) ELSE UNCHANGED <<contractVars, untold, late>>
           /\ failures' = IF coverage \in {"active", "proposalPending"} \/ (create /\ outcome = "done") THEN failures
                          ELSE failures \cup {"cc"}
    /\ Goto("grants") /\ UNCHANGED <<dotenv, using, status, entry, targets>>

\* The targets are worked out once; a registry whose creation fails is recorded.
GetPreapprovals ==
    /\ at = "grants" /\ Goto("grant") /\ targets' = PreapprovalTargets(Standing)
    /\ UNCHANGED <<dotenv, using, status, entry, contractVars, untold, late, failures>>
\* Mutant: only a warning is printed.
CipForgotten(t, outcome) ==
    /\ at = "grant" /\ granted[t.admin] < MaxRequests /\ Submit(t.admin, outcome) /\ targets' = targets \ {t}
    /\ UNCHANGED <<dotenv, at, using, status, entry, failures>>
CipPreapproval(t, outcome) ==
    /\ at = "grant" /\ granted[t.admin] < MaxRequests /\ Submit(t.admin, outcome) /\ targets' = targets \ {t}
    /\ failures' = IF outcome = "done" THEN failures ELSE failures \cup {t.admin}
    /\ UNCHANGED <<dotenv, at, using, status, entry>>
CipThrough ==
    /\ at = "grant" /\ targets = {} /\ Goto("users")
    /\ UNCHANGED <<dotenv, using, status, entry, contractVars, untold, late, runVars>>

\* The user service is asked for unless it exists or is asked for; here a failure ends
\* the run.
UserService(outcome) ==
    /\ at = "users" /\ users < MaxRequests
    /\ IF users > 0 THEN UNCHANGED <<contractVars, untold, late>> ELSE Submit("user", outcome)
    /\ IF users > 0 \/ outcome = "done" THEN Goto("faucet") /\ UNCHANGED <<using, status, runVars>> ELSE Quit
    /\ UNCHANGED <<dotenv, entry>>

\* On devnet the faucet is asked for what the balances lack, for CC up to nine times, and
\* what it answers has no consequence; what the wallet holds is not kept here.
Faucet == at = "faucet" /\ Goto("topup") /\ UNCHANGED <<dotenv, using, status, entry, contractVars, untold, late, runVars>>

\* The first top-up may fail as well, but its settings must fit together and its client
\* be granted; then the failures are reported, or the success.
Succeeds == at = "topup" /\ failures = {} /\ Bail
Incomplete == at = "topup" /\ failures # {} /\ Bail
TopupSettingsUnfit == at = "topup" /\ Bail

----------------------------------------------------------------------------
(* Around the run *)

CallFails == at \in {"configOnly", "config", "register", "wait", "sign", "topology", "fetchParty", "instruments", "grants", "users"} /\ Bail
Killed == at # "idle" /\ Bail

ServerMoves(k) ==
    /\ \E i \in {2, 4, 5} : entry[k] = Statuses[i] /\ entry' = [entry EXCEPT ![k] = Statuses[i + 1]]
    /\ UNCHANGED <<envVars, contractVars, untold, late, runVars>>
FeaturedAppAccepts ==
    /\ cc.proposals > 0 /\ cc' = [cc EXCEPT !.proposals = @ - 1, !.current = TRUE]
    /\ UNCHANGED <<envVars, entry, grants, granted, users, untold, late, runVars>>
\* Between runs, for the deadline is thirty days ahead.
PreapprovalRunsOut ==
    /\ at = "idle" /\ cc.current /\ cc' = [cc EXCEPT !.current = FALSE, !.stale = TRUE]
    /\ UNCHANGED <<envVars, entry, grants, granted, users, untold, late, runVars>>
LateExecution(subject) ==
    /\ subject \in late /\ late' = late \ {subject} /\ Enact(subject)
    /\ UNCHANGED <<envVars, entry, untold, runVars>>

OnboardNext ==
    \/ Start \/ EnvKey \/ NoKey \/ WritePub \/ FetchConfig
    \/ \E k \in OwnKeys : SuppliedKey(k) \/ Generate(k) \/ ServerMoves(k)
    \/ \E p \in {Unset} \cup OwnKeys : (p = Unset \/ p = using) /\ WithParty(p)
    \/ RegisterAgent \/ RegisterUnanswered \/ WaitForMultihash \/ WaitForTopology \/ FetchParty
    \/ \E b \in BOOLEAN : SubmitSignature(b)
    \/ Succeeds \/ Incomplete \/ TopupSettingsUnfit \/ ListInstruments \/ Faucet \/ GetPreapprovals \/ CipThrough
    \/ \E o \in Outcomes : \/ \E b \in BOOLEAN : CcPreapproval(b, o)
                           \/ \E t \in targets : CipPreapproval(t, o)
                           \/ UserService(o)
    \/ CallFails \/ Killed \/ FeaturedAppAccepts \/ PreapprovalRunsOut
    \/ \E s \in late : LateExecution(s)

OnboardSpec == OnboardInit /\ [][OnboardNext]_onboardVars

----------------------------------------------------------------------------
\* However often the command is killed and run again, and whatever keys it is given, it
\* registers one identity, the one .env keeps; and no preapproval or user service is
\* asked for twice, unless an earlier request was left undecided or a CC preapproval
\* is running out.
OnboardsOnce ==
    /\ Cardinality({k \in OwnKeys : entry[k] # "unknown"}) <= 1
    /\ \A k \in OwnKeys : entry[k] # "unknown" => dotenv.pub = k
    /\ cc.proposals + (IF cc.current THEN 1 ELSE 0) <= 1 \/ cc.stale \/ "cc" \in untold
    /\ \A r \in Registries : granted[r] <= 1 \/ r \in untold
    /\ users <= 1 \/ "user" \in untold

\* A run that reports success leaves nothing to be repaired by hand: the CC preapproval
\* exists or waits for its acceptance, every registry it could ask has one for all its
\* instruments, and the user service is there; and it worked for the party of its key.
SuccessMeansOnboarded ==
    [][Succeeds =>
        /\ cc.current \/ cc.proposals > 0
        /\ PreapprovalTargets(Standing) = {} /\ users > 0
        /\ dotenv.party = using /\ dotenv.pub = using]_onboardVars

============================================================================
