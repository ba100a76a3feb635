-------------------------- MODULE DecisionsProofs --------------------------
(* What is proved of the components that decide for themselves: the           *)
(* transaction verifier, the registry of the venues and the onboarding.       *)
EXTENDS Verifier, Venues, Onboarding, FiniteSetTheorems, TLAPS

-----------------------------------------------------------------------------
(* The verifier: no rule lets a decisive difference through                 *)

\* What the rules of an inspection say of an aspect that differs: it is noticed, and
\* a decisive one is rejected.
Weighs(rules, decisive) ==
    /\ \A a \in DOMAIN rules : rules[a].differ \in {"reject", "warn"}
    /\ \A a \in DOMAIN rules \cap decisive : rules[a].differ = "reject"

LEMMA AlsoWeighs ==
  ASSUME NEW f, NEW g, NEW S, Weighs(f, S), Weighs(g, S)
  PROVE  Weighs(Also(f, g), S)
BY DEF Weighs, Also

\* Every difference is noticed, and a decisive one rejected, in every inspection.
LEMMA EveryDifferenceWeighs ==
  ASSUME NEW o \in Operations
  PROVE  Weighs(Rules(o), Decisive(o))
<1> USE DEF Rule, Must, Needed, IfSeen, IfTyped, Weigh, WeighTyped, Hint, HintSeen
<1>1. CASE o = "TransferCc"
  <2>1. Weighs(TransferCc, Decisive("TransferCc"))
    BY DEF Weighs, Also, Decisive, TransferCc, TransferCcRoot, RootExercise
  <2> QED BY <1>1, <2>1 DEF Rules, Inspections, Stubs
<1>2. CASE o = "AcceptCip56"
  <2>1. Weighs(AcceptCip56, Decisive("AcceptCip56"))
    BY DEF Weighs, Also, Decisive, AcceptCip56, AcceptCip56Root, RootExercise
  <2> QED BY <1>2, <2>1 DEF Rules, Inspections, Stubs
<1>3. CASE o = "RequestUserService"
  <2>1. Weighs(RequestUserService, Decisive("RequestUserService"))
    BY DEF Weighs, Also, Decisive, RequestUserService, OneCreate
  <2> QED BY <1>3, <2>1 DEF Rules, Inspections, Stubs
<1>4. CASE o = "RequestPreapproval"
  <2>1. Weighs(RequestPreapproval, Decisive("RequestPreapproval"))
    BY DEF Weighs, Also, Decisive, RequestPreapproval, OneCreate
  <2> QED BY <1>4, <2>1 DEF Rules, Inspections, Stubs
<1>5. CASE o = "RequestRecurringPayasyougo"
  <2>1. Weighs(RequestRecurringPayasyougo, Decisive("RequestRecurringPayasyougo"))
    BY DEF Weighs, Also, Decisive, RequestRecurringPayasyougo, OneCreate
  <2> QED BY <1>5, <2>1 DEF Rules, Inspections, Stubs
<1>6. CASE o = "RequestRecurringPrepaid"
  <2>1. Weighs(RequestRecurringPrepaid, Decisive("RequestRecurringPrepaid"))
    BY DEF Weighs, Also, Decisive, RequestRecurringPrepaid, RootExercise
  <2> QED BY <1>6, <2>1 DEF Rules, Inspections, Stubs
<1>7. CASE o = "PayFee"
  <2>1. Weighs(PayFee, Decisive("PayFee"))
    BY DEF Weighs, Also, Decisive, PayFee, RootExercise
  <2> QED BY <1>7, <2>1 DEF Rules, Inspections, Stubs
<1>8. CASE o = "ProposeDvp"
  <2>1. Weighs(ProposeDvp, Decisive("ProposeDvp"))
    BY DEF Weighs, Also, Decisive, ProposeDvp, RootExercise
  <2> QED BY <1>8, <2>1 DEF Rules, Inspections, Stubs
<1>9. CASE o = "CancelDvpProposal"
  <2>1. Weighs(ProposalGc, Decisive("CancelDvpProposal"))
    BY DEF Weighs, Also, Decisive, ProposalGc, RootExercise
  <2> QED BY <1>9, <2>1 DEF Rules, Inspections, Stubs
<1>10. CASE o = "RejectDvpProposal"
  <2>1. Weighs(ProposalGc, Decisive("RejectDvpProposal"))
    BY DEF Weighs, Also, Decisive, ProposalGc, RootExercise
  <2> QED BY <1>10, <2>1 DEF Rules, Inspections, Stubs
<1>11. CASE o = "AcceptDvp"
  <2>1. Weighs(AcceptDvp, Decisive("AcceptDvp"))
    BY DEF Weighs, Also, Decisive, AcceptDvp, AcceptDvpRoot, RootExercise
  <2> QED BY <1>11, <2>1 DEF Rules, Inspections, Stubs
<1>12. CASE o = "Allocate"
  <2>1. Weighs(Allocate, Decisive("Allocate"))
    BY DEF Weighs, Also, Decisive, Allocate, RootExercise
  <2> QED BY <1>12, <2>1 DEF Rules, Inspections, Stubs
<1>13. CASE o \in Stubs
  BY <1>13 DEF Weighs, Rules
<1> QED BY <1>1, <1>2, <1>3, <1>4, <1>5, <1>6, <1>7, <1>8, <1>9, <1>10, <1>11, <1>12, <1>13 DEF Operations, Inspections

\* A verdict that lets a transaction be signed is the inspection's own, and without
\* force nothing else was signed on.
VerdictOK ==
    /\ op \in Operations /\ DOMAIN tx = DOMAIN Rules(op)
    /\ verdict \in {"none", "clean", "warn", "sentinel", "error", "reject"}
    /\ verdict = "clean" => Inspect(op, tx) = "clean"
    /\ verdict \in {"warn", "sentinel"} => Inspect(op, tx) \notin {"error", "reject"}
    /\ signed # "none" /\ mode # "force" => verdict \in {"clean", "warn", "sentinel"}

LEMMA VerifyInitOK == VerifyInit => VerdictOK
<1> SUFFICES ASSUME VerifyInit PROVE VerdictOK
  OBVIOUS
<1>1. op \in Operations /\ tx \in Prepared(op) /\ verdict = "none" /\ signed = "none"
  BY DEF VerifyInit
<1>2. DOMAIN tx = DOMAIN Rules(op)
  BY <1>1 DEF Prepared
<1> QED BY <1>1, <1>2 DEF VerdictOK

LEMMA VerifyStepOK == VerdictOK /\ [VerifyNext]_verifyVars => VerdictOK'
<1> SUFFICES ASSUME VerdictOK, [VerifyNext]_verifyVars PROVE VerdictOK'
  OBVIOUS
<1> USE DEF VerdictOK
<1>1. ASSUME NEW hash \in {"match", "mismatch", "failed", "undecodable"}, VerifyAndHash(hash)
      PROVE  VerdictOK'
  <2>1. Inspect(op, tx) \in {"error", "reject", "warn", "clean"}
    BY DEF Inspect
  <2>2. UNCHANGED <<op, tx, mode, signed>> /\ Inspect(op, tx)' = Inspect(op, tx) /\ Rules(op)' = Rules(op)
    BY <1>1 DEF VerifyAndHash
  <2> QED BY <1>1, <2>1, <2>2 DEF VerifyAndHash
<1>2. CASE VerifyFails
  BY <1>2 DEF VerifyFails
<1>3. CASE SignHash
  BY <1>3 DEF SignHash
<1>4. CASE UNCHANGED verifyVars
  BY <1>4 DEF verifyVars
<1> QED BY <1>1, <1>2, <1>3, <1>4 DEF VerifyNext

THEOREM VerdictInvariance == VerifySpec => []VerdictOK
  BY VerifyInitOK, VerifyStepOK, PTL DEF VerifySpec

\* No transaction is signed in which a decisive aspect differs from what the agent
\* asked for, whichever other parts are absent, mistyped or merely odd, and however many
\* they are; and one signed on a clean verdict differs in nothing (verify_and_hash, and
\* the sign of the submit path).
THEOREM SignsWhatWasAsked == VerifySpec => []SignedIsExpected
<1>1. VerdictOK => SignedIsExpected
  <2> SUFFICES ASSUME VerdictOK, signed # "none", mode # "force"
               PROVE  /\ \A a \in Decisive(op) \cap DOMAIN tx : tx[a] # "differ"
                      /\ verdict = "clean" => \A a \in DOMAIN tx : tx[a] # "differ"
    BY DEF SignedIsExpected
  <2>1. Inspect(op, tx) \notin {"error", "reject"} /\ (verdict = "clean" => Inspect(op, tx) = "clean")
    BY DEF VerdictOK
  <2>2. ASSUME NEW a \in DOMAIN tx, tx[a] = "differ"
        PROVE  /\ a \in Decisive(op) => Inspect(op, tx) \in {"error", "reject"}
               /\ Inspect(op, tx) # "clean"
    <3>1. a \in DOMAIN Rules(op) /\ Weighs(Rules(op), Decisive(op))
      BY EveryDifferenceWeighs DEF VerdictOK
    <3>2. /\ Rules(op)[a].differ \in {"reject", "warn"}
          /\ a \in Decisive(op) => Rules(op)[a].differ = "reject"
      BY <3>1 DEF Weighs
    <3> DEFINE found == {Rules(op)[b][tx[b]] : b \in DOMAIN Rules(op)}
    <3>3. Rules(op)[a].differ \in found
      BY <2>2, <3>1
    <3>4. /\ "reject" \in found => Inspect(op, tx) \in {"error", "reject"}
          /\ "warn" \in found => Inspect(op, tx) # "clean"
      BY DEF Inspect
    <3>5. "reject" \in found => Inspect(op, tx) # "clean"
      BY <3>4
    <3> HIDE DEF found
    <3> QED BY <3>2, <3>3, <3>4, <3>5
  <2> QED BY <2>1, <2>2
<1> QED BY <1>1, VerdictInvariance, PTL

-----------------------------------------------------------------------------
(* The venues: the registry shows the ledger as it stood at some offset     *)

\* The venues of a history at an offset, those of a market, and what a registry says
\* of it.
LiveIn(h, o) == {c \in 1 .. o : h[c].market # NoMarket /\ \A u \in 1 .. o : h[u].gone # c}
OfIn(h, o, m) == {c \in LiveIn(h, o) : h[c].market = m}
ShowsIn(h, r, o) ==
    \A m \in VenueMarkets : IF OfIn(h, o, m) = {} THEN r[m] = NoVenue ELSE r[m] \in OfIn(h, o, m)

Update == [gone : Nat, market : VenueMarkets \cup {NoMarket}, key : QuoteKeys]
VenueTypes ==
    /\ history \in Seq(Update)
    /\ \A u \in 1 .. LedgerEnd : history[u].gone < u
    /\ envKey \in QuoteKeys
    /\ command \in [op : {"none", "create", "rotate", "retire", "setup"}, key : QuoteKeys \cup {Keyless},
                    left : SUBSET VenueMarkets, seen : SUBSET (1 .. LedgerEnd)]
    /\ command.op # "none" => command.key \in QuoteKeys
    /\ session \in [at : {"down", "setup", "decide", "up"}, key : QuoteKeys \cup {Keyless}]
    /\ resume \in [cursor : {NoCursor} \cup 0 .. LedgerEnd, retries : Nat]
    /\ watcher \in [at : {"off", "dead", "poll", "changed", "read"}, cursor : {NoCursor} \cup 0 .. LedgerEnd]

\* A market has one venue at most, at every offset: what a command means to create is
\* still missing when it comes to it.
OneVenue ==
    /\ \A o \in 1 .. LedgerEnd, m \in VenueMarkets : \A c, d \in OfIn(history, o, m) : c = d
    /\ command.op \in {"create", "setup"} => \A m \in command.left : OfIn(history, LedgerEnd, m) = {}

\* The watcher has a cursor from the agent's start on, but for its first moments, in
\* which the venues stand still; a run that fails leaves it to the next one.
CursorOK ==
    /\ watcher.at = "off" <=> session.at \in {"down", "setup"}
    /\ watcher.at = "off" => resume.cursor = NoCursor
    /\ watcher.at \in {"poll", "changed", "read"} => watcher.cursor = resume.cursor
    /\ watcher.at \in {"changed", "read"} => resume.cursor # NoCursor

\* What is read, and what is stored between two polls, is the ledger's at the cursor
\* or later.
ShownFrom(b) == \E o \in b .. LedgerEnd : ShowsIn(history, registry, o)
ShownOK ==
    /\ session.at = "setup" => snapshot = LiveIn(history, LedgerEnd)
    /\ watcher.at = "read" => \E o \in resume.cursor .. LedgerEnd : snapshot = LiveIn(history, o)
    /\ watcher.at \in {"dead", "poll"} => ShownFrom(IF resume.cursor = NoCursor THEN LedgerEnd ELSE resume.cursor)

VenuesInv == VenueTypes /\ OneVenue /\ CursorOK /\ ShownOK

\* A run of the watcher that drops the cursor it was left, after too many failures at it
GivesUp == StartRun /\ resume.cursor # NoCursor /\ resume.retries >= ResumeRetries

LEMMA VenuesInitInv == VenuesInit => VenuesInv
BY VenuesAssumption
DEF VenuesInit, VenuesInv, VenueTypes, OneVenue, CursorOK, ShownOK, NoCommand, ResumeAt, Watcher,
    NoCursor, Update, OfIn, LiveIn, LedgerEnd, Keyless

\* An update leaves what was live before it alone.
LEMMA Kept ==
  ASSUME NEW h \in Seq(Update), NEW x \in Update, NEW o \in 0 .. Len(h)
  PROVE  /\ LiveIn(Append(h, x), o) = LiveIn(h, o)
         /\ \A m : OfIn(Append(h, x), o, m) = OfIn(h, o, m)
<1>1. \A u \in 1 .. o : Append(h, x)[u] = h[u]
  OBVIOUS
<1>2. LiveIn(Append(h, x), o) = LiveIn(h, o)
  BY <1>1 DEF LiveIn
<1> QED BY <1>1, <1>2 DEF OfIn, LiveIn

\* A registry that shows an offset still shows it.
LEMMA StillShown ==
  ASSUME NEW h \in Seq(Update), NEW x \in Update, NEW o \in 0 .. Len(h), NEW r, ShowsIn(h, r, o)
  PROVE  ShowsIn(Append(h, x), r, o)
BY Kept DEF ShowsIn

\* After it, its market has the venue it creates instead of the one it archives.
LEMMA Grown ==
  ASSUME NEW h \in Seq(Update), NEW x \in Update, x.gone < Len(h) + 1,
         \A u \in 1 .. Len(h) : h[u].gone < u, NEW m \in VenueMarkets
  PROVE  OfIn(Append(h, x), Len(h) + 1, m)
           = (OfIn(h, Len(h), m) \ {x.gone}) \cup (IF x.market = m THEN {Len(h) + 1} ELSE {})
<1> DEFINE g == Append(h, x)
           n == Len(h) + 1
<1>1. /\ Len(h) \in Nat /\ g[n] = x /\ \A u \in 1 .. Len(h) : g[u] = h[u]
  OBVIOUS
<1>2. \A u \in 1 .. Len(h) : h[u].gone \in Nat
  <2>1. \A u \in 1 .. Len(h) : h[u] \in Update
    OBVIOUS
  <2> QED BY <2>1 DEF Update
<1> HIDE DEF g
<1>3. \A c \in 1 .. Len(h) : c \in LiveIn(g, n) <=> c \in LiveIn(h, Len(h)) /\ c # x.gone
  BY <1>1 DEF LiveIn
<1>4. n \in LiveIn(g, n) <=> x.market # NoMarket
  <2>1. n \in 1 .. n /\ \A u \in 1 .. n : u = n \/ u \in 1 .. Len(h)
    BY <1>1
  <2>2. \A u \in 1 .. Len(h) : g[u].gone # n
    BY <1>1, <1>2
  <2>3. g[n].gone # n
    BY <1>1 DEF Update
  <2> QED BY <1>1, <2>1, <2>2, <2>3 DEF LiveIn
<1>5. LiveIn(g, n) \subseteq 1 .. n /\ LiveIn(h, Len(h)) \subseteq 1 .. Len(h)
  BY DEF LiveIn
<1>6. OfIn(g, n, m) = (OfIn(h, Len(h), m) \ {x.gone}) \cup (IF x.market = m THEN {n} ELSE {})
  BY <1>1, <1>3, <1>4, <1>5, VenuesAssumption DEF OfIn
<1> QED BY <1>6 DEF g

LEMMA LiveAtIsLiveIn == \A o : LiveAt(o) = LiveIn(history, o)
BY DEF LiveAt, LiveIn

LEMMA OfMarketIsOfIn == \A o, m : OfMarket(LiveIn(history, o), m) = OfIn(history, o, m)
BY DEF OfMarket, OfIn

\* A submission of the operator, whatever comes of it, keeps what is said of the ledger,
\* provided that it does not create a second venue.
LEMMA SubmissionKeeps ==
  ASSUME VenuesInv, ~BusyStart, UNCHANGED <<envKey, agentVars>>,
         NEW gone \in 0 .. LedgerEnd, NEW m \in VenueMarkets \cup {NoMarket}, NEW k \in QuoteKeys,
         Submitted(gone, m, k), command.op # "none",
         NEW n \in VenueMarkets, Done(n),
         m # NoMarket => m = n /\ (OfIn(history, LedgerEnd, m) = {} \/ OfIn(history, LedgerEnd, m) = {gone})
  PROVE  VenuesInv'
<1> USE DEF VenuesInv
<1>1. command' \in [op : {"none", "create", "rotate", "retire", "setup"}, key : QuoteKeys \cup {Keyless},
                     left : SUBSET VenueMarkets, seen : SUBSET (1 .. LedgerEnd)]
      /\ (command'.op # "none" => command'.key \in QuoteKeys /\ command'.op = command.op /\ command'.left = command.left \ {n})
  BY DEF VenueTypes, Done, NoCommand
<1>2. CASE history' = history
  <2>1. VenueTypes' BY <1>1, <1>2 DEF VenueTypes, agentVars, LedgerEnd
  <2>2. OneVenue' BY <1>1, <1>2 DEF OneVenue, agentVars, LedgerEnd
  <2>3. CursorOK' BY <1>2 DEF CursorOK, agentVars
  <2>4. ShownOK' BY <1>2 DEF ShownOK, ShownFrom, agentVars, LedgerEnd
  <2> QED BY <2>1, <2>2, <2>3, <2>4
<1>3. CASE history' # history
  <2> DEFINE x == [gone |-> gone, market |-> m, key |-> k]
  <2>1. history' = Append(history, x) /\ (session.at = "down" \/ resume.cursor # NoCursor)
    BY <1>3 DEF Submitted
  <2>2. /\ history \in Seq(Update) /\ x \in Update /\ x.gone < LedgerEnd + 1 /\ LedgerEnd \in Nat
        /\ LedgerEnd' = LedgerEnd + 1 /\ \A u \in 1 .. LedgerEnd : history'[u] = history[u]
        /\ history' \in Seq(Update) /\ history'[LedgerEnd + 1] = x
    BY <2>1 DEF VenueTypes, Update, LedgerEnd
  <2>3. VenueTypes'
    <3>1. \A u \in 1 .. LedgerEnd' : history'[u].gone < u
      BY <2>2 DEF VenueTypes
    <3>2. command'.seen \subseteq 1 .. LedgerEnd'
      BY <1>1, <2>2
    <3> QED BY <1>1, <2>2, <3>1, <3>2 DEF VenueTypes, agentVars
  <2>4. \A o \in 0 .. LedgerEnd : /\ LiveIn(history', o) = LiveIn(history, o)
                                  /\ \A a : OfIn(history', o, a) = OfIn(history, o, a)
    BY <2>1, <2>2, Kept DEF LedgerEnd
  <2>5. \A a \in VenueMarkets : OfIn(history', LedgerEnd', a)
           = (OfIn(history, LedgerEnd, a) \ {gone}) \cup (IF m = a THEN {LedgerEnd + 1} ELSE {})
    BY <2>1, <2>2, Grown DEF LedgerEnd, VenueTypes
  <2>6. OneVenue'
    <3>1. ASSUME NEW a \in VenueMarkets PROVE \A c, d \in OfIn(history', LedgerEnd', a) : c = d
      <4>1. CASE LedgerEnd = 0
        BY <2>5, <4>1 DEF OfIn, LiveIn
      <4>2. CASE LedgerEnd # 0
        <5>1. \A c, d \in OfIn(history, LedgerEnd, a) : c = d
          BY <4>2, <2>2 DEF OneVenue
        <5> QED BY <5>1, <2>5, VenuesAssumption
      <4> QED BY <4>1, <4>2
    <3>2. ASSUME NEW o \in 1 .. LedgerEnd', NEW a \in VenueMarkets PROVE \A c, d \in OfIn(history', o, a) : c = d
      <4>1. CASE o = LedgerEnd' BY <3>1, <4>1
      <4>2. CASE o \in 1 .. LedgerEnd BY <2>2, <2>4, <4>2 DEF OneVenue
      <4> QED BY <2>2, <4>1, <4>2
    <3>3. command'.op \in {"create", "setup"} => \A a \in command'.left : OfIn(history', LedgerEnd', a) = {}
      BY <1>1, <2>5, VenuesAssumption DEF OneVenue
    <3> QED BY <3>2, <3>3 DEF OneVenue
  <2>7. CursorOK' BY <2>2 DEF CursorOK, agentVars
  <2>8. \A o \in 0 .. LedgerEnd : ShowsIn(history, registry, o) => ShowsIn(history', registry, o)
    BY <2>1, <2>2, StillShown DEF LedgerEnd
  <2>9. ShownOK'
    <3>1. session.at # "setup"
      BY <2>1 DEF CursorOK
    <3>2. CASE session.at = "down"
      BY <3>1, <3>2 DEF CursorOK, ShownOK, agentVars
    <3>3. CASE resume.cursor # NoCursor
      <4>1. resume.cursor \in 0 .. LedgerEnd
        BY <3>3 DEF VenueTypes
      <4>2. resume.cursor .. LedgerEnd \subseteq 0 .. LedgerEnd /\ resume.cursor .. LedgerEnd \subseteq resume.cursor .. LedgerEnd'
        BY <4>1, <2>2
      <4>3. (watcher.at = "read" => \E o \in resume.cursor .. LedgerEnd' : snapshot = LiveIn(history', o))
        BY <2>4, <4>2 DEF ShownOK
      <4>4. (watcher.at \in {"dead", "poll"} => \E o \in resume.cursor .. LedgerEnd' : ShowsIn(history', registry, o))
        BY <2>8, <4>2, <3>3 DEF ShownOK, ShownFrom
      <4> QED BY <3>1, <3>3, <4>3, <4>4 DEF ShownOK, ShownFrom, agentVars
    <3> QED BY <2>1, <3>2, <3>3
  <2> QED BY <2>3, <2>6, <2>7, <2>9
<1> QED BY <1>2, <1>3

\* A refresh stores the venues it has read.
LEMMA RefreshShows ==
  ASSUME NEW o, snapshot = LiveIn(history, o), Refresh, history' = history
  PROVE  ShowsIn(history', registry', o)
BY OfMarketIsOfIn DEF Refresh, Refreshed, ShowsIn

LEMMA OperatorStep ==
  ASSUME VenuesInv, ~BusyStart, \/ \E k \in QuoteKeys : ConfigureKey(k)
                                \/ \E o \in {"create", "rotate", "retire", "setup"}, ms \in SUBSET VenueMarkets : FindVenues(o, ms)
                                \/ \E m \in VenueMarkets : CreateVenue(m)
                                \/ \E v \in 1 .. MaxUpdates : RotateKey(v) \/ RetireVenue(v)
                                \/ Interrupted
  PROVE  VenuesInv'
<1>1. ASSUME NEW k \in QuoteKeys, ConfigureKey(k) PROVE VenuesInv'
  <2>1. VenueTypes' BY <1>1 DEF VenuesInv, ConfigureKey, agentVars, VenueTypes, LedgerEnd
  <2> QED BY <1>1, <2>1 DEF ConfigureKey, VenuesInv, OneVenue, CursorOK, ShownOK, ShownFrom, agentVars, LedgerEnd
<1>2. ASSUME NEW o \in {"create", "rotate", "retire", "setup"}, NEW ms \in SUBSET VenueMarkets, FindVenues(o, ms)
      PROVE  VenuesInv'
  <2> DEFINE todo == {m \in ms : OfMarket(LiveAt(LedgerEnd), m) = {} <=> o \in {"create", "setup"}}
  <2>1. /\ command' = [op |-> o, key |-> envKey, left |-> todo, seen |-> LiveAt(LedgerEnd)]
        /\ UNCHANGED <<history, envKey, session, registry, resume, watcher, snapshot, deaths>>
    BY <1>2 DEF FindVenues, agentVars
  <2>2. o \in {"create", "setup"} => \A m \in todo : OfIn(history, LedgerEnd, m) = {}
    BY LiveAtIsLiveIn, OfMarketIsOfIn
  <2>3. todo \subseteq VenueMarkets /\ LiveAt(LedgerEnd) \subseteq 1 .. LedgerEnd
    BY DEF LiveAt
  <2> HIDE DEF todo
  <2>4. VenueTypes' BY <2>1, <2>3 DEF VenuesInv, VenueTypes, LedgerEnd
  <2>5. OneVenue' BY <2>1, <2>2 DEF VenuesInv, OneVenue, LedgerEnd
  <2> QED BY <2>1, <2>4, <2>5 DEF VenuesInv, CursorOK, ShownOK, ShownFrom, LedgerEnd
<1>3. ASSUME NEW m \in VenueMarkets, CreateVenue(m) PROVE VenuesInv'
  <2>1. /\ command.op \in {"create", "setup"} /\ m \in command.left /\ Submitted(NoVenue, m, command.key) /\ Done(m)
        /\ UNCHANGED <<envKey, agentVars>>
    BY <1>3 DEF CreateVenue
  <2>2. OfIn(history, LedgerEnd, m) = {} /\ command.key \in QuoteKeys /\ LedgerEnd \in Nat
    BY <2>1 DEF VenuesInv, OneVenue, VenueTypes, LedgerEnd
  <2> QED BY <2>1, <2>2, SubmissionKeeps DEF NoVenue
<1>4. ASSUME NEW v \in 1 .. MaxUpdates, RotateKey(v) PROVE VenuesInv'
  <2> DEFINE m == history[v].market
  <2>1. /\ command.op = "rotate" /\ v \in command.seen /\ m \in command.left
        /\ Submitted(v, m, command.key) /\ Done(m)
        /\ UNCHANGED <<envKey, agentVars>>
    BY <1>4 DEF RotateKey
  <2>2. m \in VenueMarkets /\ command.key \in QuoteKeys /\ LedgerEnd \in Nat /\ v \in 1 .. LedgerEnd
    BY <2>1 DEF VenuesInv, VenueTypes, LedgerEnd
  <2> HIDE DEF m
  <2>3. CASE history' = history
    <3>1. Submitted(NoVenue, NoMarket, command.key) BY <2>3 DEF Submitted
    <3>2. NoVenue \in 0 .. LedgerEnd BY <2>2 DEF NoVenue
    <3> QED BY <2>1, <2>2, <3>1, <3>2, SubmissionKeeps
  <2>4. CASE history' # history
    <3>1. v \in OfIn(history, LedgerEnd, m)
      BY <2>1, <2>2, <2>4, LiveAtIsLiveIn DEF Submitted, OfIn, m, NoVenue
    <3>2. OfIn(history, LedgerEnd, m) = {v}
      BY <2>2, <3>1 DEF VenuesInv, OneVenue
    <3>3. v \in 0 .. LedgerEnd
      BY <2>2
    <3> QED BY <2>1, <2>2, <3>2, <3>3, SubmissionKeeps
  <2> QED BY <2>3, <2>4
<1>5. ASSUME NEW v \in 1 .. MaxUpdates, RetireVenue(v) PROVE VenuesInv'
  <2> DEFINE m == history[v].market
  <2>1. /\ command.op = "retire" /\ v \in command.seen /\ m \in command.left
        /\ Submitted(v, NoMarket, command.key) /\ Done(m)
        /\ UNCHANGED <<envKey, agentVars>>
    BY <1>5 DEF RetireVenue
  <2>2. m \in VenueMarkets /\ command.key \in QuoteKeys /\ v \in 0 .. LedgerEnd
    BY <2>1 DEF VenuesInv, VenueTypes, LedgerEnd
  <2> HIDE DEF m
  <2> QED BY <2>1, <2>2, SubmissionKeeps
<1>6. CASE Interrupted
  <2>1. VenueTypes' BY <1>6 DEF VenuesInv, Interrupted, agentVars, VenueTypes, LedgerEnd, NoCommand
  <2>2. OneVenue' BY <1>6 DEF VenuesInv, Interrupted, agentVars, OneVenue, LedgerEnd, NoCommand
  <2> QED BY <1>6, <2>1, <2>2 DEF Interrupted, VenuesInv, CursorOK, ShownOK, ShownFrom, agentVars, LedgerEnd
<1> QED BY <1>1, <1>2, <1>3, <1>4, <1>5, <1>6

\* The process ends: nothing of its registry or its watcher is kept.
LEMMA GoneKeeps ==
  ASSUME VenuesInv, Gone, UNCHANGED <<history, operatorVars>>
  PROVE  VenuesInv'
<1>1. VenueTypes' BY DEF VenuesInv, Gone, operatorVars, VenueTypes, LedgerEnd, ResumeAt, Watcher
<1>2. OneVenue' BY DEF VenuesInv, operatorVars, OneVenue, LedgerEnd
<1>3. CursorOK' /\ ShownOK' BY DEF Gone, ResumeAt, Watcher, CursorOK, ShownOK
<1> QED BY <1>1, <1>2, <1>3 DEF VenuesInv

LEMMA AgentStep ==
  ASSUME VenuesInv, ~RefreshMayFail, SetUp \/ Discover \/ Decide \/ StopAgent
  PROVE  VenuesInv'
<1>1. CASE SetUp
  <2>1. VenueTypes' BY <1>1 DEF VenuesInv, SetUp, operatorVars, VenueTypes, LedgerEnd
  <2>2. OneVenue' BY <1>1 DEF VenuesInv, SetUp, operatorVars, OneVenue, LedgerEnd
  <2>3. watcher.at = "off" /\ UNCHANGED <<watcher, resume, history>> /\ session'.at = "setup" BY <1>1 DEF VenuesInv, CursorOK, SetUp
  <2>4. CursorOK' /\ ShownOK' BY <1>1, <2>3, LiveAtIsLiveIn DEF VenuesInv, SetUp, CursorOK, ShownOK, LedgerEnd
  <2> QED BY <2>1, <2>2, <2>4 DEF VenuesInv
<1>2. CASE Discover
  <2>1. VenueTypes' BY <1>2 DEF VenuesInv, Discover, operatorVars, VenueTypes, LedgerEnd, Watcher
  <2>2. OneVenue' BY <1>2 DEF VenuesInv, Discover, operatorVars, OneVenue, LedgerEnd
  <2>3. ShowsIn(history', registry', LedgerEnd) BY <1>2, RefreshShows DEF VenuesInv, Discover, ShownOK
  <2>4. /\ watcher'.at = "dead" /\ session'.at = "decide" /\ resume.cursor = NoCursor
        /\ UNCHANGED <<history, resume>> /\ LedgerEnd \in Nat
    BY <1>2 DEF VenuesInv, VenueTypes, Discover, CursorOK, Watcher, LedgerEnd
  <2>5. CursorOK' BY <2>4 DEF CursorOK
  <2>6. ShownOK' BY <2>3, <2>4 DEF ShownOK, ShownFrom, LedgerEnd
  <2> QED BY <2>1, <2>2, <2>5, <2>6 DEF VenuesInv
<1>3. CASE Decide
  <2>1. CASE Gone BY <1>3, <2>1, GoneKeeps DEF Decide
  <2>2. CASE session' = [session EXCEPT !.at = "up"] /\ UNCHANGED <<registry, resume, watcher, snapshot>>
    <3>1. VenueTypes' BY <1>3, <2>2 DEF VenuesInv, Decide, operatorVars, VenueTypes, LedgerEnd
    <3>2. session'.at = "up" BY <2>2 DEF VenuesInv, VenueTypes
    <3> QED BY <1>3, <2>2, <3>1, <3>2 DEF Decide, operatorVars, VenuesInv, OneVenue, CursorOK, ShownOK, ShownFrom, LedgerEnd
  <2> QED BY <1>3, <2>1, <2>2 DEF Decide
<1>4. CASE StopAgent
  BY <1>4, GoneKeeps DEF StopAgent
<1> QED BY <1>1, <1>2, <1>3, <1>4

LEMMA WatcherStep ==
  ASSUME VenuesInv, ~RefreshMayFail, ~GivesUp,
         \/ StartRun \/ SeedCursor \/ ReadVenues \/ StoreVenues \/ RefreshFails \/ WatcherDies
         \/ \E o \in 1 .. MaxUpdates : Poll(o)
  PROVE  VenuesInv'
<1> USE DEF VenuesInv
<1>1. OneVenue'
  BY DEF OneVenue, StartRun, SeedCursor, ReadVenues, StoreVenues, RefreshFails, WatcherDies, Poll, WatcherUnchanged, operatorVars, LedgerEnd
<1>2. LedgerEnd \in Nat /\ LedgerEnd' = LedgerEnd /\ UNCHANGED <<history, session>>
  BY DEF VenueTypes, StartRun, SeedCursor, ReadVenues, StoreVenues, RefreshFails, WatcherDies, Poll, WatcherUnchanged, LedgerEnd
<1>3. CASE StartRun
  <2>1. VenueTypes' BY <1>3 DEF StartRun, WatcherUnchanged, operatorVars, VenueTypes, LedgerEnd, ResumeAt, Watcher
  <2>2. watcher.at = "dead" /\ watcher'.at = "poll" /\ resume'.cursor = resume.cursor /\ watcher'.cursor = resume.cursor
        /\ UNCHANGED <<registry, snapshot>>
    BY <1>3 DEF StartRun, GivesUp, ResumeRetries, VenueTypes, ResumeAt, Watcher
  <2> QED BY <1>1, <1>2, <2>1, <2>2 DEF CursorOK, ShownOK, ShownFrom
<1>4. CASE SeedCursor
  <2>1. VenueTypes' BY <1>4, <1>2 DEF SeedCursor, Record, WatcherUnchanged, operatorVars, VenueTypes, LedgerEnd, ResumeAt
  <2>2. /\ watcher.at = "poll" /\ watcher'.at = "poll" /\ resume'.cursor = LedgerEnd /\ watcher'.cursor = LedgerEnd
        /\ resume.cursor = NoCursor /\ UNCHANGED <<registry, snapshot>>
    BY <1>4 DEF SeedCursor, Record, VenueTypes, CursorOK, ResumeAt
  <2> QED BY <1>1, <1>2, <2>1, <2>2 DEF CursorOK, ShownOK, ShownFrom, NoCursor
<1>5. CASE ReadVenues
  <2>1. VenueTypes' BY <1>5 DEF ReadVenues, WatcherUnchanged, operatorVars, VenueTypes, LedgerEnd
  <2>2. /\ watcher.at = "changed" /\ watcher'.at = "read" /\ watcher'.cursor = watcher.cursor
        /\ snapshot' = LiveIn(history, LedgerEnd) /\ UNCHANGED <<registry, resume>>
    BY <1>5, LiveAtIsLiveIn DEF ReadVenues, VenueTypes
  <2>3. LedgerEnd \in resume.cursor .. LedgerEnd
    BY <1>2, <2>2 DEF CursorOK, VenueTypes
  <2> QED BY <1>1, <1>2, <2>1, <2>2, <2>3 DEF CursorOK, ShownOK
<1>6. CASE StoreVenues
  <2>1. VenueTypes' BY <1>6 DEF StoreVenues, WatcherUnchanged, operatorVars, VenueTypes, LedgerEnd
  <2>2. /\ watcher.at = "read" /\ watcher'.at = "poll" /\ watcher'.cursor = watcher.cursor
        /\ UNCHANGED <<resume>> /\ Refresh
    BY <1>6 DEF StoreVenues, VenueTypes
  <2>3. \E o \in resume.cursor .. LedgerEnd : ShowsIn(history', registry', o)
    BY <1>2, <2>2, RefreshShows DEF ShownOK
  <2> QED BY <1>1, <1>2, <2>1, <2>2, <2>3 DEF CursorOK, ShownOK, ShownFrom
<1>7. CASE RefreshFails BY <1>7 DEF RefreshFails
<1>8. CASE WatcherDies
  <2>1. VenueTypes' BY <1>8 DEF WatcherDies, operatorVars, VenueTypes, LedgerEnd, Watcher
  <2>2. /\ watcher.at = "poll" /\ watcher'.at = "dead" /\ UNCHANGED <<resume, registry>>
    BY <1>8 DEF WatcherDies, Watcher
  <2> QED BY <1>1, <1>2, <2>1, <2>2 DEF CursorOK, ShownOK, ShownFrom
<1>9. ASSUME NEW o \in 1 .. MaxUpdates, Poll(o) PROVE VenuesInv'
  <2>1. /\ watcher.at = "poll" /\ watcher' = [at |-> "changed", cursor |-> o] /\ resume'.cursor = o /\ resume'.retries \in Nat
        /\ o \in 0 .. LedgerEnd /\ UNCHANGED <<registry, snapshot>>
    BY <1>2, <1>9 DEF Poll, Record, VenueTypes, ResumeAt, Watcher, NoCursor
  <2>2. VenueTypes' BY <1>2, <1>9, <2>1 DEF Poll, Record, ResumeAt, WatcherUnchanged, operatorVars, VenueTypes
  <2> QED BY <1>1, <1>2, <2>1, <2>2 DEF CursorOK, ShownOK, NoCursor
<1> QED BY <1>3, <1>4, <1>5, <1>6, <1>7, <1>8, <1>9

LEMMA VenuesStep == VenuesInv /\ ~BusyStart /\ ~RefreshMayFail /\ [VenuesNext]_venueVars /\ ~GivesUp => VenuesInv'
<1> SUFFICES ASSUME VenuesInv, ~BusyStart, ~RefreshMayFail, [VenuesNext]_venueVars, ~GivesUp PROVE VenuesInv'
  OBVIOUS
<1>1. CASE UNCHANGED venueVars
  BY <1>1 DEF venueVars, operatorVars, agentVars, VenuesInv, VenueTypes, OneVenue, CursorOK, ShownOK, ShownFrom, LedgerEnd
<1> QED BY <1>1, OperatorStep, AgentStep, WatcherStep DEF VenuesNext

\* From a step on which the watcher does not give up, the registry tracks the ledger.
LEMMA ShownMeansTracked == VenuesInv => VenuesTracked
<1> SUFFICES ASSUME VenuesInv, session.at = "up", watcher.at = "poll", watcher.cursor # NoCursor
             PROVE  \E o \in watcher.cursor .. LedgerEnd : \A m \in VenueMarkets :
                        LET own == {c \in OfMarket(LiveAt(o), m) : history[c].key = session.key}
                        IN  IF own = {} THEN ~Validated(m) ELSE registry[m] \in own
  BY DEF VenuesTracked
<1>1. watcher.cursor = resume.cursor /\ watcher.cursor \in 0 .. LedgerEnd /\ LedgerEnd \in Nat
  BY DEF VenuesInv, CursorOK, VenueTypes, LedgerEnd
<1>2. PICK o \in watcher.cursor .. LedgerEnd : ShowsIn(history, registry, o)
  BY <1>1 DEF VenuesInv, ShownOK, ShownFrom
<1>3. ASSUME NEW m \in VenueMarkets
      PROVE  LET own == {c \in OfMarket(LiveAt(o), m) : history[c].key = session.key}
             IN  IF own = {} THEN ~Validated(m) ELSE registry[m] \in own
  <2>1. OfMarket(LiveAt(o), m) = OfIn(history, o, m)
    BY LiveAtIsLiveIn, OfMarketIsOfIn
  <2>2. CASE OfIn(history, o, m) = {}
    BY <2>1, <2>2, <1>2 DEF ShowsIn, Validated
  <2>3. CASE OfIn(history, o, m) # {}
    <3>1. o \in 1 .. LedgerEnd
      BY <1>1, <2>3 DEF OfIn, LiveIn
    <3>2. OfIn(history, o, m) = {registry[m]}
      BY <1>2, <2>3, <3>1 DEF ShowsIn, VenuesInv, OneVenue
    <3> QED BY <2>1, <3>2 DEF Validated
  <2> QED BY <2>2, <2>3
<1> QED BY <1>2, <1>3

\* While the watcher is between two polls, the registry of the venues is the ledger's
\* at its cursor or later (venue_registry.rs: refresh): on every behaviour on which
\* its reads do not fail, the venues stand still until it has its first cursor, and it
\* does not give up a cursor after ResumeRetries failures at it.
THEOREM RegistryTracksLedger ==
  ASSUME ~BusyStart, ~RefreshMayFail
  PROVE  VenuesSpec /\ [][~GivesUp]_venueVars => []VenuesTracked
<1>1. VenuesInit => VenuesInv BY VenuesInitInv
<1>2. VenuesInv /\ [VenuesNext]_venueVars /\ [~GivesUp]_venueVars => VenuesInv'
  <2> SUFFICES ASSUME VenuesInv, [VenuesNext]_venueVars, [~GivesUp]_venueVars PROVE VenuesInv'
    OBVIOUS
  <2>1. CASE ~GivesUp BY <2>1, VenuesStep
  <2>2. CASE UNCHANGED venueVars
    BY <2>2 DEF venueVars, operatorVars, agentVars, VenuesInv, VenueTypes, OneVenue, CursorOK, ShownOK, ShownFrom, LedgerEnd
  <2> QED BY <2>1, <2>2
<1>3. VenuesInv => VenuesTracked BY ShownMeansTracked
<1> QED BY <1>1, <1>2, <1>3, PTL DEF VenuesSpec

\* A restart at a cursor is counted once, for one failure of the watcher.
RetriesOK ==
    /\ deaths \in 0 .. MaxDeaths /\ resume.retries <= deaths
    /\ watcher.at = "dead" /\ resume.cursor # NoCursor => resume.retries < deaths

LEMMA RetriesStep ==
  ASSUME VenueTypes, CursorOK, RetriesOK, [VenuesNext]_venueVars
  PROVE  RetriesOK'
<1> USE VenuesAssumption DEF VenueTypes, RetriesOK
<1>1. CASE UNCHANGED <<resume, watcher, deaths>>
  BY <1>1
<1>2. CASE Gone /\ UNCHANGED deaths
  BY <1>2 DEF Gone, ResumeAt, Watcher
<1>3. CASE Discover
  BY <1>3 DEF Discover, CursorOK
<1>4. CASE StartRun
  BY <1>4 DEF StartRun, WatcherUnchanged, ResumeAt, Watcher
<1>5. CASE SeedCursor
  BY <1>5 DEF SeedCursor, WatcherUnchanged, Record, ResumeAt
<1>6. ASSUME NEW o \in 1 .. MaxUpdates, Poll(o) PROVE RetriesOK'
  BY <1>6 DEF Poll, WatcherUnchanged, Record, ResumeAt, Watcher
<1>7. CASE ReadVenues \/ StoreVenues \/ RefreshFails
  BY <1>7 DEF ReadVenues, StoreVenues, RefreshFails, WatcherUnchanged
<1>8. CASE WatcherDies
  BY <1>8 DEF WatcherDies, Watcher
<1> QED
  BY <1>1, <1>2, <1>3, <1>4, <1>5, <1>6, <1>7, <1>8
  DEF VenuesNext, ConfigureKey, FindVenues, CreateVenue, RotateKey, RetireVenue, Interrupted, SetUp, Decide, StopAgent,
      venueVars, agentVars

\* With no more failures than the watcher retries at a cursor, it never gives one up:
\* the registry tracks the ledger on every behaviour.
THEOREM TrackedThroughFailures ==
  ASSUME ~BusyStart, ~RefreshMayFail, MaxDeaths <= ResumeRetries
  PROVE  VenuesSpec => []VenuesTracked
<1>1. VenuesInit => VenuesInv /\ RetriesOK
  BY VenuesInitInv, VenuesAssumption DEF VenuesInit, RetriesOK, ResumeAt, NoCursor
<1>2. (VenuesInv /\ RetriesOK) /\ [VenuesNext]_venueVars => (VenuesInv /\ RetriesOK)'
  <2> SUFFICES ASSUME VenuesInv, RetriesOK, [VenuesNext]_venueVars PROVE VenuesInv' /\ RetriesOK'
    OBVIOUS
  <2>1. ~GivesUp
    BY VenuesAssumption DEF VenuesInv, VenueTypes, RetriesOK, GivesUp, StartRun, ResumeRetries
  <2> QED BY <2>1, VenuesStep, RetriesStep DEF VenuesInv
<1>3. VenuesInv => VenuesTracked BY ShownMeansTracked
<1> QED BY <1>1, <1>2, <1>3, PTL DEF VenuesSpec

-----------------------------------------------------------------------------
(* Onboarding: one identity, and nothing left out of a success              *)

Keyed == {"party", "config", "configOnly", "register", "wait", "sign", "topology", "fetchParty",
          "instruments", "cc", "grants", "grant", "users", "faucet", "topup"}
OnLedger == {"configOnly", "instruments", "cc", "grants", "grant", "users", "faucet", "topup"}

OnboardTypes ==
    /\ dotenv \in [key : OwnKeys \cup {Unset}, pub : OwnKeys \cup {Unset}, party : OwnKeys \cup {Unset}, config : BOOLEAN]
    /\ at \in Keyed \cup {"idle", "key", "pub"}
    /\ entry \in [OwnKeys -> {Statuses[i] : i \in 1 .. 6}]
    /\ cc \in [proposals : Nat, current : BOOLEAN, stale : BOOLEAN]
    /\ granted \in [Registries -> Nat] /\ users \in Nat
    /\ late \subseteq untold

\* A run goes by the key .env records; a private key in .env is that key's, from the
\* moment in which its public half is still to be written; and so is the party.
IdentityOK ==
    /\ dotenv.key # Unset => dotenv.pub \in {dotenv.key, Unset}
    /\ dotenv.party # Unset => dotenv.party = dotenv.pub
    /\ at \in Keyed => using \in OwnKeys /\ dotenv.pub = using
    /\ at = "pub" => using \in OwnKeys /\ dotenv.key = using /\ dotenv.pub = Unset
    /\ at \in OnLedger => dotenv.party = using

\* Only the key of .env is on the waiting list.
EntryOK == \A k \in OwnKeys : entry[k] # "unknown" => dotenv.pub = k

\* A second CC preapproval is asked for only where the first runs out or an answer was
\* lost; what the step leaves uncovered it has recorded.
CcOK ==
    /\ cc.proposals + (IF cc.current THEN 1 ELSE 0) <= 1 \/ cc.stale \/ "cc" \in untold
    /\ at \in {"grants", "grant", "users", "faucet", "topup"} => cc.current \/ cc.proposals > 0 \/ "cc" \in failures

\* The registries whose instruments no preapproval covers as a whole
Uncovered == {Advertised[i].registry : i \in Usable}
               \ ({g.admin : g \in {x \in grants : ~x.scoped}} \cup {r \in Registries : granted[r] > 0})

\* Each is a target once, asked for nothing yet but by a submission no run was told of;
\* and each is a target or recorded as failed.
TargetsOK ==
    /\ \A r \in Registries : granted[r] <= 1 \/ r \in untold
    /\ \A t \in targets : /\ t = [admin |-> t.admin, operator |-> First(t.admin).operator] /\ t.admin \in Registries
                          /\ granted[t.admin] = 0 \/ t.admin \in untold
    /\ at \in {"grant", "users", "faucet", "topup"} => Uncovered \subseteq failures \cup {t.admin : t \in targets}
    /\ at \in {"users", "faucet", "topup"} => targets = {}

UsersOK ==
    /\ users <= 1 \/ "user" \in untold
    /\ at \in {"faucet", "topup"} => users > 0

OnboardInv == OnboardTypes /\ IdentityOK /\ EntryOK /\ CcOK /\ TargetsOK /\ UsersOK

USE OnboardingAssumption DEF Given, Goto, Quit, envVars, contractVars, runVars, Keyed, OnLedger

LEMMA OnboardInitInv == OnboardInit => OnboardInv
<1> SUFFICES ASSUME OnboardInit PROVE OnboardInv OBVIOUS
<1>1. OnboardTypes BY DEF OnboardInit, OnboardTypes, Statuses
<1>2. IdentityOK /\ EntryOK BY DEF OnboardInit, IdentityOK, EntryOK
<1>3. CcOK /\ UsersOK BY DEF OnboardInit, CcOK, UsersOK
<1>4. TargetsOK BY DEF OnboardInit, TargetsOK
<1> QED BY <1>1, <1>2, <1>3, <1>4 DEF OnboardInv

LEMMA UncoveredShrinks ==
  ASSUME UNCHANGED grants, granted \in [Registries -> Nat], granted' \in [Registries -> Nat],
         \A r \in Registries : granted'[r] >= granted[r]
  PROVE  Uncovered' \subseteq Uncovered
BY DEF Uncovered

\* The registries to ask are the uncovered ones, each once.
LEMMA TargetsAreUncovered ==
  /\ {t.admin : t \in PreapprovalTargets(Standing)} = Uncovered
  /\ \A t \in PreapprovalTargets(Standing) :
        t = [admin |-> t.admin, operator |-> First(t.admin).operator] /\ t.admin \in Uncovered
<1>1. {p.admin : p \in {g \in Standing : ~g.scoped}}
        = {g.admin : g \in {x \in grants : ~x.scoped}} \cup {r \in Registries : granted[r] > 0}
  <2> DEFINE G == {g \in Standing : ~g.scoped}
  <2>1. \A p \in G : p.admin \in {g.admin : g \in {x \in grants : ~x.scoped}} \cup {r \in Registries : granted[r] > 0}
    BY DEF Standing, Grant
  <2>2. ASSUME NEW r \in Registries, granted[r] > 0 PROVE r \in {p.admin : p \in G}
    <3>1. Grant(r, First(r).operator, FALSE) \in G BY <2>2 DEF Standing, Grant
    <3> QED BY <3>1 DEF Grant
  <2>3. \A x \in grants : ~x.scoped => x \in G BY DEF Standing
  <2> QED BY <2>1, <2>2, <2>3
<1>2. \A t \in PreapprovalTargets(Standing) :
        t = [admin |-> t.admin, operator |-> First(t.admin).operator] /\ t.admin \in Uncovered
  BY <1>1 DEF PreapprovalTargets, Uncovered
<1>3. ASSUME NEW a \in Uncovered PROVE a \in {t.admin : t \in PreapprovalTargets(Standing)}
  <2>1. [admin |-> a, operator |-> First(a).operator] \in PreapprovalTargets(Standing)
    BY <1>1 DEF PreapprovalTargets, Uncovered
  <2> QED BY <2>1
<1> QED BY <1>2, <1>3

\* An executed submission adds one contract of its subject.
LEMMA EnactAdds ==
  ASSUME NEW s, OnboardTypes, Enact(s)
  PROVE  /\ cc' \in [proposals : Nat, current : BOOLEAN, stale : BOOLEAN]
         /\ granted' \in [Registries -> Nat] /\ users' \in Nat
         /\ UNCHANGED grants
         /\ \A r \in Registries : granted'[r] = IF r = s THEN granted[r] + 1 ELSE granted[r]
         /\ users' = IF s = "user" THEN users + 1 ELSE users
         /\ cc'.proposals = IF s = "cc" THEN cc.proposals + 1 ELSE cc.proposals
         /\ cc'.current = cc.current /\ cc'.stale = cc.stale
<1>1. granted' = IF s \in Registries THEN [granted EXCEPT ![s] = @ + 1] ELSE granted
  BY DEF Enact
<1>2. granted \in [Registries -> Nat] BY DEF OnboardTypes
<1>3. granted' \in [Registries -> Nat] /\ \A r \in Registries : granted'[r] = IF r = s THEN granted[r] + 1 ELSE granted[r]
  BY <1>1, <1>2
<1> QED BY <1>3 DEF Enact, OnboardTypes

\* What a submission changes, told or not.
LEMMA SubmitAdds ==
  ASSUME NEW s, NEW o \in Outcomes, OnboardTypes, Submit(s, o)
  PROVE  /\ cc' \in [proposals : Nat, current : BOOLEAN, stale : BOOLEAN]
         /\ granted' \in [Registries -> Nat] /\ users' \in Nat
         /\ UNCHANGED grants
         /\ \A r \in Registries : granted'[r] \in {granted[r]} \cup (IF r = s THEN {granted[r] + 1} ELSE {})
         /\ users' \in {users} \cup (IF s = "user" THEN {users + 1} ELSE {})
         /\ cc'.proposals \in {cc.proposals} \cup (IF s = "cc" THEN {cc.proposals + 1} ELSE {})
         /\ cc'.current = cc.current /\ cc'.stale = cc.stale
         /\ o = "done" => /\ s \in Registries => granted'[s] = granted[s] + 1
                          /\ s = "user" => users' = users + 1
                          /\ s = "cc" => cc'.proposals = cc.proposals + 1
         /\ untold \subseteq untold' /\ late' \subseteq untold'
<1>1. CASE o \in {"done", "doneUntold"}
  BY <1>1, EnactAdds DEF Submit, OnboardTypes
<1>2. CASE o \notin {"done", "doneUntold"}
  BY <1>2 DEF Submit, OnboardTypes
<1> QED BY <1>1, <1>2

LEMMA OnboardStep == OnboardInv /\ [OnboardNext]_onboardVars => OnboardInv'
<1> SUFFICES ASSUME OnboardInv, [OnboardNext]_onboardVars PROVE OnboardInv'
  OBVIOUS
<1>t. OnboardTypes BY DEF OnboardInv
<1>i. IdentityOK BY DEF OnboardInv
<1>e. EntryOK BY DEF OnboardInv
<1>c. CcOK BY DEF OnboardInv
<1>g. TargetsOK BY DEF OnboardInv
<1>u. UsersOK BY DEF OnboardInv
<1>1. CASE Start
  <2>1. OnboardTypes'
    BY <1>t, <1>i, <1>1
    DEF OnboardTypes, IdentityOK, Start
  <2>2. IdentityOK'
    BY <1>i, <1>1
    DEF IdentityOK, Start
  <2>3. EntryOK'
    BY <1>e, <1>1
    DEF EntryOK, Start
  <2>4. CcOK'
    BY <1>c, <1>1
    DEF CcOK, Start
  <2>5. TargetsOK'
    BY <1>g, <1>1
    DEF TargetsOK, Start
  <2>6. UsersOK'
    BY <1>u, <1>1
    DEF UsersOK, Start
  <2> QED BY <2>1, <2>2, <2>3, <2>4, <2>5, <2>6 DEF OnboardInv
<1>2. CASE Bail
  <2>1. OnboardTypes'
    BY <1>t, <1>i, <1>2
    DEF OnboardTypes, IdentityOK, Bail
  <2>2. IdentityOK'
    BY <1>i, <1>2
    DEF IdentityOK, Bail
  <2>3. EntryOK'
    BY <1>e, <1>2
    DEF EntryOK, Bail
  <2>4. CcOK'
    BY <1>c, <1>2
    DEF CcOK, Bail
  <2>5. TargetsOK'
    BY <1>g, <1>2
    DEF TargetsOK, Bail
  <2>6. UsersOK'
    BY <1>u, <1>2
    DEF UsersOK, Bail
  <2> QED BY <2>1, <2>2, <2>3, <2>4, <2>5, <2>6 DEF OnboardInv
<1>3. CASE EnvKey
  <2>1. OnboardTypes'
    BY <1>t, <1>i, <1>3
    DEF OnboardTypes, IdentityOK, EnvKey
  <2>2. IdentityOK'
    BY <1>i, <1>t, <1>3
    DEF IdentityOK, OnboardTypes, EnvKey
  <2>3. EntryOK'
    BY <1>e, <1>t, <1>i, <1>3
    DEF EntryOK, OnboardTypes, IdentityOK, EnvKey
  <2>4. CcOK'
    BY <1>c, <1>3
    DEF CcOK, EnvKey
  <2>5. TargetsOK'
    BY <1>g, <1>3
    DEF TargetsOK, EnvKey
  <2>6. UsersOK'
    BY <1>u, <1>3
    DEF UsersOK, EnvKey
  <2> QED BY <2>1, <2>2, <2>3, <2>4, <2>5, <2>6 DEF OnboardInv
<1>4. CASE WritePub
  <2>1. OnboardTypes'
    BY <1>t, <1>i, <1>4
    DEF OnboardTypes, IdentityOK, WritePub
  <2>2. IdentityOK'
    BY <1>i, <1>4
    DEF IdentityOK, WritePub
  <2>3. EntryOK'
    BY <1>e, <1>t, <1>i, <1>4
    DEF EntryOK, OnboardTypes, IdentityOK, WritePub
  <2>4. CcOK'
    BY <1>c, <1>4
    DEF CcOK, WritePub
  <2>5. TargetsOK'
    BY <1>g, <1>4
    DEF TargetsOK, WritePub
  <2>6. UsersOK'
    BY <1>u, <1>4
    DEF UsersOK, WritePub
  <2> QED BY <2>1, <2>2, <2>3, <2>4, <2>5, <2>6 DEF OnboardInv
<1>5. CASE FetchConfig
  <2>1. OnboardTypes'
    BY <1>t, <1>i, <1>5
    DEF OnboardTypes, IdentityOK, FetchConfig
  <2>2. IdentityOK'
    BY <1>i, <1>5
    DEF IdentityOK, FetchConfig
  <2>3. EntryOK'
    BY <1>e, <1>5
    DEF EntryOK, FetchConfig
  <2>4. CcOK'
    BY <1>c, <1>5
    DEF CcOK, FetchConfig
  <2>5. TargetsOK'
    BY <1>g, <1>5
    DEF TargetsOK, FetchConfig
  <2>6. UsersOK'
    BY <1>u, <1>5
    DEF UsersOK, FetchConfig
  <2> QED BY <2>1, <2>2, <2>3, <2>4, <2>5, <2>6 DEF OnboardInv
<1>6. ASSUME NEW k \in OwnKeys, SuppliedKey(k) PROVE OnboardInv'
  <2>1. OnboardTypes'
    BY <1>t, <1>i, <1>6
    DEF OnboardTypes, IdentityOK, SuppliedKey, Bail
  <2>2. IdentityOK'
    BY <1>i, <1>t, <1>6
    DEF IdentityOK, OnboardTypes, SuppliedKey, Bail
  <2>3. EntryOK'
    BY <1>e, <1>t, <1>6
    DEF EntryOK, OnboardTypes, SuppliedKey, Bail
  <2>4. CcOK'
    BY <1>c, <1>6
    DEF CcOK, SuppliedKey, Bail
  <2>5. TargetsOK'
    BY <1>g, <1>6
    DEF TargetsOK, SuppliedKey, Bail
  <2>6. UsersOK'
    BY <1>u, <1>6
    DEF UsersOK, SuppliedKey, Bail
  <2> QED BY <2>1, <2>2, <2>3, <2>4, <2>5, <2>6 DEF OnboardInv
<1>7. ASSUME NEW k \in OwnKeys, Generate(k) PROVE OnboardInv'
  <2>1. OnboardTypes'
    BY <1>t, <1>i, <1>7
    DEF OnboardTypes, IdentityOK, Generate
  <2>2. IdentityOK'
    BY <1>i, <1>t, <1>7
    DEF IdentityOK, OnboardTypes, Generate
  <2>3. EntryOK'
    BY <1>e, <1>7
    DEF EntryOK, Generate
  <2>4. CcOK'
    BY <1>c, <1>7
    DEF CcOK, Generate
  <2>5. TargetsOK'
    BY <1>g, <1>7
    DEF TargetsOK, Generate
  <2>6. UsersOK'
    BY <1>u, <1>7
    DEF UsersOK, Generate
  <2> QED BY <2>1, <2>2, <2>3, <2>4, <2>5, <2>6 DEF OnboardInv
<1>8. ASSUME NEW k \in OwnKeys, ServerMoves(k) PROVE OnboardInv'
  <2>1. OnboardTypes'
    BY <1>t, <1>i, <1>8
    DEF OnboardTypes, IdentityOK, ServerMoves, Statuses
  <2>2. IdentityOK'
    BY <1>i, <1>8
    DEF IdentityOK, ServerMoves, Statuses
  <2>3. EntryOK'
    BY <1>e, <1>8
    DEF EntryOK, ServerMoves, Statuses
  <2>4. CcOK'
    BY <1>c, <1>8
    DEF CcOK, ServerMoves, Statuses
  <2>5. TargetsOK'
    BY SubmitAdds, EnactAdds, TargetsAreUncovered, UncoveredShrinks, <1>g, <1>t, <1>i, <1>e, <1>c, <1>u, <1>8
    DEF TargetsOK, OnboardTypes, IdentityOK, EntryOK, CcOK, UsersOK, ServerMoves, Statuses
  <2>6. UsersOK'
    BY <1>u, <1>8
    DEF UsersOK, ServerMoves, Statuses
  <2> QED BY <2>1, <2>2, <2>3, <2>4, <2>5, <2>6 DEF OnboardInv
<1>9. CASE RegisterAgent
  <2>1. OnboardTypes'
    BY <1>t, <1>i, <1>9
    DEF OnboardTypes, IdentityOK, RegisterAgent, Registered, Statuses
  <2>2. IdentityOK'
    BY <1>i, <1>9
    DEF IdentityOK, RegisterAgent, Registered, Statuses
  <2>3. EntryOK'
    BY <1>e, <1>t, <1>i, <1>9
    DEF EntryOK, OnboardTypes, IdentityOK, RegisterAgent, Registered, Statuses
  <2>4. CcOK'
    BY <1>c, <1>9
    DEF CcOK, RegisterAgent, Registered, Statuses
  <2>5. TargetsOK'
    BY <1>g, <1>9
    DEF TargetsOK, RegisterAgent, Registered, Statuses
  <2>6. UsersOK'
    BY <1>u, <1>9
    DEF UsersOK, RegisterAgent, Registered, Statuses
  <2> QED BY <2>1, <2>2, <2>3, <2>4, <2>5, <2>6 DEF OnboardInv
<1>10. CASE RegisterUnanswered
  <2>1. OnboardTypes'
    BY <1>t, <1>i, <1>10
    DEF OnboardTypes, IdentityOK, RegisterUnanswered, Registered, Statuses
  <2>2. IdentityOK'
    BY <1>i, <1>10
    DEF IdentityOK, RegisterUnanswered, Registered, Statuses
  <2>3. EntryOK'
    BY <1>e, <1>t, <1>i, <1>10
    DEF EntryOK, OnboardTypes, IdentityOK, RegisterUnanswered, Registered, Statuses
  <2>4. CcOK'
    BY <1>c, <1>10
    DEF CcOK, RegisterUnanswered, Registered, Statuses
  <2>5. TargetsOK'
    BY <1>g, <1>10
    DEF TargetsOK, RegisterUnanswered, Registered, Statuses
  <2>6. UsersOK'
    BY <1>u, <1>10
    DEF UsersOK, RegisterUnanswered, Registered, Statuses
  <2> QED BY <2>1, <2>2, <2>3, <2>4, <2>5, <2>6 DEF OnboardInv
<1>11. CASE WaitForMultihash
  <2>1. OnboardTypes'
    BY <1>t, <1>i, <1>11
    DEF OnboardTypes, IdentityOK, WaitForMultihash, HasParty
  <2>2. IdentityOK'
    BY <1>i, <1>11
    DEF IdentityOK, WaitForMultihash, HasParty
  <2>3. EntryOK'
    BY <1>e, <1>11
    DEF EntryOK, WaitForMultihash, HasParty
  <2>4. CcOK'
    BY <1>c, <1>11
    DEF CcOK, WaitForMultihash, HasParty
  <2>5. TargetsOK'
    BY <1>g, <1>11
    DEF TargetsOK, WaitForMultihash, HasParty
  <2>6. UsersOK'
    BY <1>u, <1>11
    DEF UsersOK, WaitForMultihash, HasParty
  <2> QED BY <2>1, <2>2, <2>3, <2>4, <2>5, <2>6 DEF OnboardInv
<1>12. CASE WaitForTopology
  <2>1. OnboardTypes'
    BY <1>t, <1>i, <1>12
    DEF OnboardTypes, IdentityOK, WaitForTopology, HasParty
  <2>2. IdentityOK'
    BY <1>i, <1>t, <1>12
    DEF IdentityOK, OnboardTypes, WaitForTopology, HasParty
  <2>3. EntryOK'
    BY <1>e, <1>t, <1>12
    DEF EntryOK, OnboardTypes, WaitForTopology, HasParty
  <2>4. CcOK'
    BY <1>c, <1>12
    DEF CcOK, WaitForTopology, HasParty
  <2>5. TargetsOK'
    BY <1>g, <1>12
    DEF TargetsOK, WaitForTopology, HasParty
  <2>6. UsersOK'
    BY <1>u, <1>12
    DEF UsersOK, WaitForTopology, HasParty
  <2> QED BY <2>1, <2>2, <2>3, <2>4, <2>5, <2>6 DEF OnboardInv
<1>13. CASE FetchParty
  <2>1. OnboardTypes'
    BY <1>t, <1>i, <1>13
    DEF OnboardTypes, IdentityOK, FetchParty
  <2>2. IdentityOK'
    BY <1>i, <1>13
    DEF IdentityOK, FetchParty
  <2>3. EntryOK'
    BY <1>e, <1>13
    DEF EntryOK, FetchParty
  <2>4. CcOK'
    BY <1>c, <1>13
    DEF CcOK, FetchParty
  <2>5. TargetsOK'
    BY <1>g, <1>13
    DEF TargetsOK, FetchParty
  <2>6. UsersOK'
    BY <1>u, <1>13
    DEF UsersOK, FetchParty
  <2> QED BY <2>1, <2>2, <2>3, <2>4, <2>5, <2>6 DEF OnboardInv
<1>14. ASSUME NEW b \in BOOLEAN, SubmitSignature(b) PROVE OnboardInv'
  <2>1. OnboardTypes'
    BY <1>t, <1>i, <1>14
    DEF OnboardTypes, IdentityOK, SubmitSignature, Statuses
  <2>2. IdentityOK'
    BY <1>i, <1>14
    DEF IdentityOK, SubmitSignature, Statuses
  <2>3. EntryOK'
    BY <1>e, <1>14
    DEF EntryOK, SubmitSignature, Statuses
  <2>4. CcOK'
    BY <1>c, <1>14
    DEF CcOK, SubmitSignature, Statuses
  <2>5. TargetsOK'
    BY <1>g, <1>14
    DEF TargetsOK, SubmitSignature, Statuses
  <2>6. UsersOK'
    BY <1>u, <1>14
    DEF UsersOK, SubmitSignature, Statuses
  <2> QED BY <2>1, <2>2, <2>3, <2>4, <2>5, <2>6 DEF OnboardInv
<1>15. CASE ListInstruments
  <2>1. OnboardTypes'
    BY <1>t, <1>i, <1>15
    DEF OnboardTypes, IdentityOK, ListInstruments
  <2>2. IdentityOK'
    BY <1>i, <1>15
    DEF IdentityOK, ListInstruments
  <2>3. EntryOK'
    BY <1>e, <1>15
    DEF EntryOK, ListInstruments
  <2>4. CcOK'
    BY <1>c, <1>15
    DEF CcOK, ListInstruments
  <2>5. TargetsOK'
    BY <1>g, <1>15
    DEF TargetsOK, ListInstruments
  <2>6. UsersOK'
    BY <1>u, <1>15
    DEF UsersOK, ListInstruments
  <2> QED BY <2>1, <2>2, <2>3, <2>4, <2>5, <2>6 DEF OnboardInv
<1>16. CASE Faucet
  <2>1. OnboardTypes'
    BY <1>t, <1>i, <1>16
    DEF OnboardTypes, IdentityOK, Faucet
  <2>2. IdentityOK'
    BY <1>i, <1>16
    DEF IdentityOK, Faucet
  <2>3. EntryOK'
    BY <1>e, <1>16
    DEF EntryOK, Faucet
  <2>4. CcOK'
    BY <1>c, <1>16
    DEF CcOK, Faucet
  <2>5. TargetsOK'
    BY SubmitAdds, EnactAdds, TargetsAreUncovered, UncoveredShrinks, <1>g, <1>t, <1>i, <1>e, <1>c, <1>u, <1>16
    DEF TargetsOK, OnboardTypes, IdentityOK, EntryOK, CcOK, UsersOK, Faucet
  <2>6. UsersOK'
    BY <1>u, <1>16
    DEF UsersOK, Faucet
  <2> QED BY <2>1, <2>2, <2>3, <2>4, <2>5, <2>6 DEF OnboardInv
<1>17. CASE GetPreapprovals
  <2>1. OnboardTypes'
    BY <1>t, <1>i, <1>17
    DEF OnboardTypes, IdentityOK, GetPreapprovals, Uncovered
  <2>2. IdentityOK'
    BY <1>i, <1>17
    DEF IdentityOK, GetPreapprovals, Uncovered
  <2>3. EntryOK'
    BY <1>e, <1>17
    DEF EntryOK, GetPreapprovals, Uncovered
  <2>4. CcOK'
    BY <1>c, <1>17
    DEF CcOK, GetPreapprovals, Uncovered
  <2>5. TargetsOK'
    <3>1. /\ UNCHANGED <<grants, granted, untold, failures>> /\ at' = "grant"
          /\ targets' = PreapprovalTargets(Standing)
      BY <1>17 DEF GetPreapprovals
    <3>2. Uncovered' = Uncovered BY <3>1 DEF Uncovered
    <3>3. \A r \in Registries : granted[r] \in Nat BY <1>t DEF OnboardTypes
    <3>4. Uncovered \subseteq {r \in Registries : ~(granted[r] > 0)}
      BY DEF Uncovered, Usable, Registries
    <3> QED BY <1>g, <3>1, <3>2, <3>3, <3>4, TargetsAreUncovered DEF TargetsOK
  <2>6. UsersOK'
    BY <1>u, <1>17
    DEF UsersOK, GetPreapprovals, Uncovered
  <2> QED BY <2>1, <2>2, <2>3, <2>4, <2>5, <2>6 DEF OnboardInv
<1>18. CASE CipThrough
  <2>1. OnboardTypes'
    BY <1>t, <1>i, <1>18
    DEF OnboardTypes, IdentityOK, CipThrough
  <2>2. IdentityOK'
    BY <1>i, <1>18
    DEF IdentityOK, CipThrough
  <2>3. EntryOK'
    BY <1>e, <1>18
    DEF EntryOK, CipThrough
  <2>4. CcOK'
    BY <1>c, <1>18
    DEF CcOK, CipThrough
  <2>5. TargetsOK'
    BY SubmitAdds, EnactAdds, TargetsAreUncovered, UncoveredShrinks, <1>g, <1>t, <1>i, <1>e, <1>c, <1>u, <1>18
    DEF TargetsOK, OnboardTypes, IdentityOK, EntryOK, CcOK, UsersOK, CipThrough
  <2>6. UsersOK'
    BY <1>u, <1>18
    DEF UsersOK, CipThrough
  <2> QED BY <2>1, <2>2, <2>3, <2>4, <2>5, <2>6 DEF OnboardInv
<1>19. ASSUME NEW b \in BOOLEAN, NEW o \in Outcomes, CcPreapproval(b, o) PROVE OnboardInv'
  <2>1. OnboardTypes'
    BY SubmitAdds, <1>t, <1>19
    DEF OnboardTypes, CcPreapproval
  <2>2. IdentityOK'
    BY <1>i, <1>19
    DEF IdentityOK, CcPreapproval
  <2>3. EntryOK'
    BY <1>e, <1>19
    DEF EntryOK, CcPreapproval
  <2>4. CcOK'
    <3> DEFINE create == b /\ ClassifyCcCoverage(cc) = "missing" /\ CcTarget # << >>
    <3>1. CASE ~create
      <4>1. /\ cc' = cc /\ untold' = untold /\ at' = "grants"
            /\ failures' = IF b /\ ClassifyCcCoverage(cc) \in {"active", "proposalPending"} THEN failures
                           ELSE failures \cup {"cc"}
        BY <3>1, <1>19 DEF CcPreapproval, ClassifyCcCoverage, contractVars
      <4>2. CASE cc.current = TRUE BY <1>c, <4>1, <4>2 DEF CcOK
      <4>3. CASE cc.current = FALSE
        <5>1. "cc" \in failures' \/ cc.proposals > 0
          BY <4>1, <4>3 DEF ClassifyCcCoverage
        <5> QED BY <1>c, <4>1, <5>1 DEF CcOK
      <4> QED BY <1>t, <4>2, <4>3 DEF OnboardTypes
    <3>2. CASE create
      <4>0. ClassifyCcCoverage(cc) = "missing" /\ Submit("cc", o) /\ (o = "done" \/ "cc" \in failures')
        BY <3>2, <1>19 DEF CcPreapproval
      <4>1. at' = "grants" BY <1>19 DEF CcPreapproval
      <4>2. cc.current = FALSE /\ (cc.proposals = 0 \/ cc.stale)
        BY <1>t, <4>0 DEF ClassifyCcCoverage, OnboardTypes
      <4>3. /\ cc'.proposals \in {cc.proposals, cc.proposals + 1} /\ cc'.current = FALSE /\ cc'.stale = cc.stale
            /\ o = "done" => cc'.proposals = cc.proposals + 1
            /\ cc.proposals \in Nat
        BY <1>t, <4>0, <4>2, SubmitAdds DEF OnboardTypes
      <4>4. cc'.proposals <= 1 \/ cc'.stale BY <4>2, <4>3
      <4>5. cc'.proposals > 0 \/ "cc" \in failures' BY <4>0, <4>3
      <4> QED BY <4>1, <4>3, <4>4, <4>5 DEF CcOK
    <3> QED BY <3>1, <3>2
  <2>5. TargetsOK'
    BY SubmitAdds, <1>g, <1>t, <1>19
    DEF TargetsOK, OnboardTypes, CcPreapproval
  <2>6. UsersOK'
    BY SubmitAdds, <1>u, <1>t, <1>19
    DEF UsersOK, OnboardTypes, CcPreapproval
  <2> QED BY <2>1, <2>2, <2>3, <2>4, <2>5, <2>6 DEF OnboardInv
<1>20. ASSUME NEW t \in targets, NEW o \in Outcomes, CipPreapproval(t, o) PROVE OnboardInv'
  <2>1. OnboardTypes'
    BY SubmitAdds, <1>t, <1>20
    DEF OnboardTypes, CipPreapproval
  <2>2. IdentityOK'
    BY <1>i, <1>20
    DEF IdentityOK, CipPreapproval
  <2>3. EntryOK'
    BY <1>e, <1>20
    DEF EntryOK, CipPreapproval
  <2>4. CcOK'
    BY SubmitAdds, <1>c, <1>t, <1>g, <1>20
    DEF CcOK, OnboardTypes, TargetsOK, CipPreapproval
  <2>5. TargetsOK'
    <3>1. /\ at = "grant" /\ Submit(t.admin, o) /\ targets' = targets \ {t} /\ at' = at
          /\ failures' = IF o = "done" THEN failures ELSE failures \cup {t.admin}
      BY <1>20 DEF CipPreapproval
    <3>2. /\ granted' \in [Registries -> Nat] /\ granted \in [Registries -> Nat] /\ UNCHANGED grants
          /\ \A r \in Registries : granted'[r] \in {granted[r]} \cup (IF r = t.admin THEN {granted[r] + 1} ELSE {})
          /\ o = "done" => granted'[t.admin] = granted[t.admin] + 1
          /\ untold \subseteq untold' /\ t.admin \in Registries
          /\ granted[t.admin] = 0 \/ t.admin \in untold
      BY <1>t, <1>g, <3>1, SubmitAdds DEF OnboardTypes, TargetsOK
    <3>3. \A r \in Registries : granted'[r] <= 1 \/ r \in untold'
      BY <1>g, <3>2 DEF TargetsOK
    <3>4. \A u \in targets' : u \in targets /\ u.admin # t.admin
      BY <1>g, <3>1 DEF TargetsOK
    <3>5. \A u \in targets' : /\ u = [admin |-> u.admin, operator |-> First(u.admin).operator] /\ u.admin \in Registries
                              /\ granted'[u.admin] = 0 \/ u.admin \in untold'
      BY <1>g, <3>2, <3>4 DEF TargetsOK
    <3>6. Uncovered' \subseteq Uncovered
      BY <3>2, UncoveredShrinks
    <3>7. t.admin \in Uncovered' => o # "done"
      BY <3>2 DEF Uncovered
    <3>8. Uncovered' \subseteq failures' \cup {u.admin : u \in targets'}
      BY <1>g, <3>1, <3>6, <3>7 DEF TargetsOK
    <3> QED BY <3>1, <3>3, <3>5, <3>8 DEF TargetsOK
  <2>6. UsersOK'
    BY SubmitAdds, <1>u, <1>t, <1>g, <1>20
    DEF UsersOK, OnboardTypes, TargetsOK, CipPreapproval
  <2> QED BY <2>1, <2>2, <2>3, <2>4, <2>5, <2>6 DEF OnboardInv
<1>21. ASSUME NEW o \in Outcomes, UserService(o) PROVE OnboardInv'
  <2>1. OnboardTypes'
    BY SubmitAdds, <1>t, <1>21
    DEF OnboardTypes, UserService
  <2>2. IdentityOK'
    BY <1>i, <1>21
    DEF IdentityOK, UserService
  <2>3. EntryOK'
    BY <1>e, <1>21
    DEF EntryOK, UserService
  <2>4. CcOK'
    BY SubmitAdds, <1>c, <1>t, <1>21
    DEF CcOK, OnboardTypes, UserService
  <2>5. TargetsOK'
    BY SubmitAdds, UncoveredShrinks, <1>g, <1>t, <1>21
    DEF TargetsOK, OnboardTypes, UserService
  <2>6. UsersOK'
    BY SubmitAdds, <1>u, <1>t, <1>21
    DEF UsersOK, OnboardTypes, UserService
  <2> QED BY <2>1, <2>2, <2>3, <2>4, <2>5, <2>6 DEF OnboardInv
<1>22. CASE FeaturedAppAccepts
  <2>1. OnboardTypes'
    <3> DEFINE n == cc.proposals - 1
    <3>1. cc' = [cc EXCEPT !.proposals = n, !.current = TRUE] /\ n \in Nat
      BY <1>t, <1>22 DEF FeaturedAppAccepts, OnboardTypes
    <3> HIDE DEF n
    <3>2. cc' = [proposals |-> n, current |-> TRUE, stale |-> cc.stale] /\ cc.stale \in BOOLEAN
      BY <1>t, <3>1 DEF OnboardTypes
    <3>3. cc' \in [proposals : Nat, current : BOOLEAN, stale : BOOLEAN]
      BY <3>1, <3>2, Zenon
    <3> QED BY <1>t, <1>22, <3>3 DEF FeaturedAppAccepts, OnboardTypes
  <2>2. IdentityOK'
    BY <1>i, <1>22
    DEF IdentityOK, FeaturedAppAccepts
  <2>3. EntryOK'
    BY <1>e, <1>22
    DEF EntryOK, FeaturedAppAccepts
  <2>4. CcOK'
    BY <1>c, <1>t, <1>22
    DEF CcOK, OnboardTypes, FeaturedAppAccepts
  <2>5. TargetsOK'
    BY SubmitAdds, EnactAdds, TargetsAreUncovered, UncoveredShrinks, <1>g, <1>t, <1>i, <1>e, <1>c, <1>u, <1>22
    DEF TargetsOK, OnboardTypes, IdentityOK, EntryOK, CcOK, UsersOK, FeaturedAppAccepts
  <2>6. UsersOK'
    BY <1>u, <1>22
    DEF UsersOK, FeaturedAppAccepts
  <2> QED BY <2>1, <2>2, <2>3, <2>4, <2>5, <2>6 DEF OnboardInv
<1>23. CASE PreapprovalRunsOut
  <2>1. OnboardTypes'
    BY <1>t, <1>i, <1>23
    DEF OnboardTypes, IdentityOK, PreapprovalRunsOut
  <2>2. IdentityOK'
    BY <1>i, <1>23
    DEF IdentityOK, PreapprovalRunsOut
  <2>3. EntryOK'
    BY <1>e, <1>23
    DEF EntryOK, PreapprovalRunsOut
  <2>4. CcOK'
    BY <1>c, <1>23
    DEF CcOK, PreapprovalRunsOut
  <2>5. TargetsOK'
    BY <1>g, <1>23
    DEF TargetsOK, PreapprovalRunsOut
  <2>6. UsersOK'
    BY <1>u, <1>23
    DEF UsersOK, PreapprovalRunsOut
  <2> QED BY <2>1, <2>2, <2>3, <2>4, <2>5, <2>6 DEF OnboardInv
<1>24. ASSUME NEW s \in late, LateExecution(s) PROVE OnboardInv'
  <2>1. OnboardTypes'
    BY EnactAdds, <1>t, <1>24
    DEF OnboardTypes, LateExecution
  <2>2. IdentityOK'
    BY <1>i, <1>24
    DEF IdentityOK, LateExecution
  <2>3. EntryOK'
    BY <1>e, <1>24
    DEF EntryOK, LateExecution
  <2>4. CcOK'
    BY EnactAdds, <1>c, <1>t, <1>24
    DEF CcOK, OnboardTypes, LateExecution
  <2>5. TargetsOK'
    BY EnactAdds, UncoveredShrinks, <1>g, <1>t, <1>24
    DEF TargetsOK, OnboardTypes, LateExecution
  <2>6. UsersOK'
    BY EnactAdds, <1>u, <1>t, <1>24
    DEF UsersOK, OnboardTypes, LateExecution
  <2> QED BY <2>1, <2>2, <2>3, <2>4, <2>5, <2>6 DEF OnboardInv
<1>25. CASE UNCHANGED onboardVars
  BY <1>t, <1>i, <1>e, <1>c, <1>g, <1>u, <1>25
  DEF onboardVars, Uncovered, OnboardInv, OnboardTypes, IdentityOK, EntryOK, CcOK, TargetsOK, UsersOK
<1>50. ASSUME NEW p \in {Unset} \cup OwnKeys, p = Unset \/ p = using, WithParty(p) PROVE OnboardInv'
  <2>1. OnboardTypes' BY <1>t, <1>i, <1>50 DEF WithParty, OnboardTypes, IdentityOK
  <2>2. IdentityOK' BY <1>t, <1>i, <1>50 DEF WithParty, OnboardTypes, IdentityOK
  <2>3. EntryOK' BY <1>t, <1>e, <1>50 DEF WithParty, OnboardTypes, EntryOK
  <2>4. CcOK' /\ UsersOK' BY <1>c, <1>u, <1>50 DEF WithParty, CcOK, UsersOK
  <2>5. TargetsOK' BY <1>g, <1>50 DEF WithParty, TargetsOK, Uncovered
  <2> QED BY <2>1, <2>2, <2>3, <2>4, <2>5 DEF OnboardInv
<1> QED
  BY <1>50, <1>1, <1>2, <1>3, <1>4, <1>5, <1>6, <1>7, <1>8, <1>9, <1>10, <1>11, <1>12, <1>13, <1>14, <1>15, <1>16, <1>17, <1>18, <1>19, <1>20, <1>21, <1>22, <1>23, <1>24, <1>25
  DEF OnboardNext, NoKey, Succeeds, Incomplete, TopupSettingsUnfit, CallFails, Killed

\* However often the command is run, it registers one identity, and asks for nothing
\* twice but what it was left in the dark about (run_onboard, prepare_onboard_key).
THEOREM OneIdentity == OnboardSpec => []OnboardsOnce
<1>1. OnboardInit => OnboardInv BY OnboardInitInv
<1>2. OnboardInv /\ [OnboardNext]_onboardVars => OnboardInv' BY OnboardStep
<1>3. OnboardInv => OnboardsOnce
  <2> SUFFICES ASSUME OnboardInv PROVE OnboardsOnce
    OBVIOUS
  <2> DEFINE S == {k \in OwnKeys : entry[k] # "unknown"}
  <2>1. S \subseteq {dotenv.pub}
    BY DEF OnboardInv, EntryOK
  <2>2. Cardinality(S) <= 1
    <3>1. CASE S = {}
      <4>1. Cardinality({}) = 0 BY FS_EmptySet
      <4> QED BY <3>1, <4>1
    <3>2. CASE S = {dotenv.pub}
      <4>1. Cardinality({dotenv.pub}) = 1 BY FS_Singleton
      <4> QED BY <3>2, <4>1
    <3>3. S = {} \/ S = {dotenv.pub} BY <2>1
    <3> QED BY <3>1, <3>2, <3>3
  <2>3. \A k \in OwnKeys : entry[k] # "unknown" => dotenv.pub = k
    BY DEF OnboardInv, EntryOK
  <2>4. (cc.proposals + (IF cc.current THEN 1 ELSE 0) <= 1 \/ cc.stale \/ "cc" \in untold) /\ (users <= 1 \/ "user" \in untold)
    BY DEF OnboardInv, CcOK, UsersOK
  <2>5. \A r \in Registries : granted[r] <= 1 \/ r \in untold
    BY DEF OnboardInv, TargetsOK
  <2> QED BY <2>2, <2>3, <2>4, <2>5 DEF OnboardsOnce
<1> QED BY <1>1, <1>2, <1>3, PTL DEF OnboardSpec

\* A run that reports success leaves nothing to be repaired by hand
\* (complete_ledger_onboarding: preapproval_failures).
THEOREM SuccessIsWhole == OnboardSpec => SuccessMeansOnboarded
<1> DEFINE Whole == /\ cc.current \/ cc.proposals > 0
                    /\ PreapprovalTargets(Standing) = {} /\ users > 0
                    /\ dotenv.party = using /\ dotenv.pub = using
<1>1. OnboardInit => OnboardInv BY OnboardInitInv
<1>2. OnboardInv /\ [OnboardNext]_onboardVars => OnboardInv' BY OnboardStep
<1>3. OnboardInv /\ Succeeds => Whole
  <2> SUFFICES ASSUME OnboardInv, Succeeds PROVE Whole
    OBVIOUS
  <2>1. at = "topup" /\ failures = {}
    BY DEF Succeeds
  <2>2. Uncovered = {}
    BY <2>1 DEF OnboardInv, TargetsOK
  <2>3. PreapprovalTargets(Standing) = {}
    BY <2>2, TargetsAreUncovered
  <2>4. users > 0 /\ dotenv.party = using /\ dotenv.pub = using
    BY <2>1 DEF OnboardInv, UsersOK, IdentityOK
  <2>5. cc.current \/ cc.proposals > 0
    BY <2>1 DEF OnboardInv, CcOK
  <2> QED BY <2>3, <2>4, <2>5
<1>4. OnboardInv /\ [OnboardNext]_onboardVars => [Succeeds => Whole]_onboardVars
  BY <1>3
<1> QED BY <1>1, <1>2, <1>4, PTL DEF OnboardSpec, SuccessMeansOnboarded

============================================================================
