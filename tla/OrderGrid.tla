------------------------------ MODULE OrderGrid ------------------------------
(***************************************************************************)
(* The order grid of one market: the grid task and its order manager       *)
(* (grid_task.rs, order_manager.rs), what the order tracker knows of       *)
(* placements (order_tracker.rs), the party-wide sweep at the end          *)
(* (runner.rs) and the verdict of the settlement executor on a match       *)
(* (settlement.rs).                                                        *)
(*                                                                         *)
(* Every call to the server is an await: orders match, submits land late   *)
(* and proposals are verified between any two of them.  A side has one     *)
(* rung, placed at a distance from the mid that a price move exceeds.      *)
(***************************************************************************)
EXTENDS Naturals, Sequences, SequencesExt, FiniteSets

CONSTANTS
  Orders,          \* orders the agent may place
  Old,             \* those on the book from an earlier session
  SideOf,          \* the side an order is placed on
  Prices,          \* mids the server may quote
  OldPrices,       \* mids it quoted in that session
  NoOrder, NoPrice,
  Configured,      \* may the market have rungs, none, or either?
  Rounds,          \* PARTY_CANCEL_ROUNDS
  LandsPromptly    \* a submit is booked or lost before the sweep's second
                   \* empty fetch

Sides == {"bids", "offers"}
Other(s) == CHOOSE t \in Sides : t # s

ASSUME OrdersAssumption ==
  /\ IsFiniteSet(Orders) /\ Old \subseteq Orders
  /\ SideOf \in [Orders -> Sides]
  /\ NoOrder \notin Orders /\ NoPrice \notin Prices \cup OldPrices
ASSUME PricesAssumption == Prices \cup OldPrices \subseteq Nat
ASSUME RoundsAssumption ==
  Rounds \in Nat \ {0} /\ LandsPromptly \in BOOLEAN /\ Configured \subseteq BOOLEAN

VARIABLES
  \* The server
  inFlight,      \* submits neither booked nor lost yet
  live,        \* the orders a listing shows
  mid,         \* mid[o]: the mid at which o was priced
  partial,     \* live orders that are partly filled
  matched,     \* orders with a settlement proposal
  \* OrderTracker and SettlementExecutor
  tracked,     \* orders the tracker knows
  placing,     \* is a PlacementGuard alive?
  held,        \* has a submit failed in the last SUBMIT_FAILED_HOLD?
  kept,        \* failed_submits
  looking,     \* the order being looked up for a proposal
  rejected,    \* orders whose proposal was rejected
  outcome,     \* outcome[o]: whether the submit of o ended without an answer,
               \* and whether a listing has shown it since
  \* OrderManager
  priceless, failStreak, restoreStreak, forceRefresh,
  pendingCancels,
  lastResting, \* last_resting: "none", "empty" or "some"
  probed,      \* was the market probed within UNFUNDED_PROBE?
  anchors,     \* grid_anchors
  \* The configuration, the grid task, the sweep and the agent
  quoted,      \* does the market have rungs?
  stage,       \* the next await of the cycle; "ended" when the task is gone
  balance,     \* what the balances of this cycle say about funding
  seen,        \* the mid of this visit
  listed,      \* the listing of this visit
  ops,         \* the rest of its GridOps
  plan,        \* plan[s]: the plan they carry out
  current,     \* the order being submitted
  stop,        \* has the shutdown been signalled?
  sweep,       \* the next await of the sweep
  round,       \* its fetches so far
  seenEmpty    \* was the last one empty?

serverVars == <<inFlight, live, mid, partial, matched>>
trackerVars == <<tracked, placing, held, kept, looking, rejected, outcome>>
priceVars == <<priceless, failStreak, restoreStreak, forceRefresh>>
bookVars == <<pendingCancels, lastResting, probed, anchors>>
visitVars == <<balance, seen, listed, ops, plan, current>>
sweepVars == <<quoted, stop, sweep, round, seenEmpty>>
gridVars == <<serverVars, trackerVars, priceVars, bookVars, stage, visitVars, sweepVars>>

Keep == [s \in Sides |-> "Keep"]
NoAnchors == [s \in Sides |-> NoPrice]

\* The locals of a visit go out of scope with it.
EndVisit ==
  /\ stage' = "idle"
  /\ balance' = "unknown" /\ seen' = NoPrice /\ listed' = {} /\ ops' = <<>>
  /\ plan' = Keep /\ current' = NoOrder

Fresh == {o \in Orders : mid[o] = NoPrice}

GridInit ==
  /\ inFlight = {} /\ live = Old
  /\ mid \in {m \in [Orders -> OldPrices \cup {NoPrice}] :
               \A o \in Orders : o \in Old <=> m[o] # NoPrice}
  /\ partial = {} /\ matched = {}
  /\ tracked = {} /\ placing = FALSE /\ held = FALSE /\ kept = {}
  /\ looking = NoOrder /\ rejected = {} /\ outcome = [o \in Orders |-> "none"]
  /\ priceless = FALSE /\ failStreak = 0 /\ restoreStreak = 0 /\ forceRefresh = FALSE
  /\ pendingCancels = {} /\ lastResting = "none" /\ probed = FALSE
  /\ anchors = NoAnchors
  /\ stage = "idle" /\ balance = "unknown" /\ seen = NoPrice /\ listed = {} /\ ops = <<>>
  /\ plan = Keep /\ current = NoOrder
  /\ quoted \in Configured /\ stop = FALSE /\ sweep = "off" /\ round = 0 /\ seenEmpty = FALSE

-----------------------------------------------------------------------------
(* The server *)

\* A submit reaches the book, or is lost on the way.
Book(o) ==
  /\ o \in inFlight
  /\ inFlight' = inFlight \ {o} /\ live' = live \cup {o}
  /\ UNCHANGED <<mid, partial, matched, trackerVars, priceVars,
                 bookVars, stage, visitVars, sweepVars>>
LoseSubmit(o) ==
  /\ o \in inFlight
  /\ inFlight' = inFlight \ {o}
  /\ UNCHANGED <<live, mid, partial, matched, trackerVars,
                 priceVars, bookVars, stage, visitVars, sweepVars>>

\* A counterparty trades with o, in part or in full; a proposal is on its way.
Match(o) ==
  /\ o \in live \ matched
  /\ matched' = matched \cup {o}
  /\ \/ partial' = partial \cup {o} /\ UNCHANGED live
     \/ live' = live \ {o} /\ UNCHANGED partial
  /\ UNCHANGED <<inFlight, mid, trackerVars, priceVars, bookVars,
                 stage, visitVars, sweepVars>>

-----------------------------------------------------------------------------
(* The tracker and the verdict on a proposal *)

\* Mutant: a listed order of a failed submit is forgotten.
AdoptListedForgets(os) ==
  /\ UNCHANGED tracked
  /\ kept' = kept \ os
  /\ outcome' = [o \in Orders |-> IF o \in os \ {looking} /\ outcome[o] = "unknown"
                                 THEN "shown" ELSE outcome[o]]

\* adopt_listed: orders booked by a failed submit are tracked like any other
AdoptListed(os) ==
  /\ tracked' = tracked \cup (os \cap kept)
  /\ kept' = kept \ os
  /\ outcome' = [o \in Orders |-> IF o \in os \ {looking} /\ outcome[o] = "unknown"
                                 THEN "shown" ELSE outcome[o]]

\* SUBMIT_FAILED_HOLD is over; nobody looks before there is an unknown match.
HoldEnds ==
  /\ held /\ held' = FALSE /\ matched \ tracked # {}
  /\ UNCHANGED <<serverVars, tracked, placing, kept, looking, rejected, outcome, priceVars,
                 bookVars, stage, visitVars, sweepVars>>

\* verify_settlement: a proposal for a tracked order is accepted, also when the
\* order was cancelled meanwhile; an unknown one is looked up on the server
\* unless a placement may explain it.  One of an earlier session is rejected for
\* its nonce whatever the lookup says.
NeedServerLookup(o) ==
  /\ o \notin Old /\ o \in matched \ (tracked \cup rejected) /\ ~ placing /\ ~ held /\ looking = NoOrder
  /\ looking' = o
  /\ UNCHANGED <<serverVars, tracked, placing, held, kept, rejected, outcome, priceVars,
                 bookVars, stage, visitVars, sweepVars>>

\* verify_user_order: absent is a verdict; one of a failed submit is adopted, and
\* one adopted meanwhile is known; any other is imported as the user's, and then
\* the server's own pending quantity may leave no room for the proposal.  A lookup
\* that fails is no verdict.
VerifyUserOrder ==
  /\ looking # NoOrder /\ looking' = NoOrder
  /\ IF looking \in live THEN AdoptListed({looking})
     ELSE UNCHANGED <<tracked, kept, outcome>>
  /\ \/ looking \notin live \cap (kept \cup tracked) /\ rejected' = rejected \cup {looking}
     \/ UNCHANGED rejected
  /\ UNCHANGED <<serverVars, placing, held, priceVars, bookVars, stage, visitVars,
                 sweepVars>>

-----------------------------------------------------------------------------
(* One cycle of the grid: fetch the balances, visit the market *)

Visiting(from) == stage = from /\ ~ stop

\* What the balances fetched for a cycle may say: enough for both sides, for the
\* offers only, for none; or they are missing or too old.
Balances == {"ok", "noQuote", "short", "unknown"}

\* check_grid_balance for a side
FundingOf(s, b) ==
  CASE b = "unknown" -> "Unknown"
    [] b = "ok" -> "Funded"
    [] b = "noQuote" -> IF s = "bids" THEN "Short" ELSE "Funded"
    [] b = "short" -> "Short"

\* The desk net may shape the offer rung away, or change its size materially.
OfferRungs == 0 .. 1
Reshaped == BOOLEAN
Funded(s, b, n) == FundingOf(s, b) = "Funded" /\ (s = "bids" \/ n > 0)

\* can_park: nothing rested at the last no-action visit and no side is fundable
CanPark(b, n) ==
  /\ lastResting = "empty" /\ probed
  /\ \A s \in Sides : FundingOf(s, b) # "Unknown" /\ ~ Funded(s, b, n)

\* A market that can be parked is not visited until its probe is due.
ProbeAges ==
  /\ stage = "idle" /\ probed /\ probed' = FALSE
  /\ UNCHANGED <<serverVars, trackerVars, priceVars, pendingCancels, lastResting,
                 anchors, stage, visitVars, sweepVars>>

StartCycle ==
  /\ Visiting("idle") /\ quoted
  /\ \E b \in Balances, n \in OfferRungs : ~ CanPark(b, n) /\ balance' = b
  /\ stage' = "price" /\ probed' = TRUE
  /\ UNCHANGED <<serverVars, trackerVars, priceVars, pendingCancels, lastResting,
                 anchors, seen, listed, ops, plan, current, sweepVars>>

\* Mutant: the teardown is not repeated while the market stays without a price.
PriceFailsTwice ==
  /\ stage = "price"
  /\ restoreStreak' = 0 /\ failStreak' = IF failStreak < 2 THEN failStreak + 1 ELSE 2
  /\ IF failStreak' = 2 /\ ~ priceless
     THEN /\ priceless' = TRUE /\ anchors' = NoAnchors /\ lastResting' = "none"
          /\ pendingCancels' = {} /\ stage' = "teardown" /\ UNCHANGED visitVars
     ELSE EndVisit /\ UNCHANGED <<priceless, anchors, lastResting, pendingCancels>>
  /\ UNCHANGED <<serverVars, trackerVars, forceRefresh, probed, sweepVars>>

\* No price, or none in time: two strikes tear the grid down.
PriceFails ==
  /\ stage = "price"
  /\ restoreStreak' = 0 /\ failStreak' = IF failStreak < 2 THEN failStreak + 1 ELSE 2
  /\ IF failStreak' = 2 \/ priceless
     THEN /\ priceless' = TRUE /\ anchors' = NoAnchors /\ lastResting' = "none"
          /\ pendingCancels' = {} /\ stage' = "teardown" /\ UNCHANGED visitVars
     ELSE EndVisit /\ UNCHANGED <<priceless, anchors, lastResting, pendingCancels>>
  /\ UNCHANGED <<serverVars, trackerVars, forceRefresh, probed, sweepVars>>

\* A price: a priceless market resumes on the second in a row.
PriceArrives(p) ==
  /\ stage = "price"
  /\ failStreak' = 0
  /\ IF priceless /\ restoreStreak = 0
     THEN /\ restoreStreak' = 1 /\ EndVisit
          /\ UNCHANGED <<priceless, forceRefresh, lastResting>>
     ELSE /\ restoreStreak' = 0 /\ priceless' = FALSE
          /\ forceRefresh' = (forceRefresh \/ priceless)
          /\ LET unknown == \A s \in Sides : FundingOf(s, balance) = "Unknown"
             IN /\ lastResting' = IF unknown THEN "none" ELSE lastResting
                /\ IF unknown \/ stop THEN EndVisit
                   ELSE stage' = "list" /\ seen' = p /\ UNCHANGED <<balance, listed, ops, plan, current>>
  /\ UNCHANGED <<serverVars, trackerVars, pendingCancels, probed, anchors, sweepVars>>

\* A call fails: the visit of this market is over.
ListFails ==
  /\ stage \in {"list", "teardown", "unquoted"} /\ EndVisit
  /\ UNCHANGED <<serverVars, trackerVars, priceVars, bookVars, sweepVars>>

Cancels(os) == [i \in 1 .. Len(os) |-> [op |-> "cancel", order |-> os[i]]]

\* cancel_all_orders of a priceless market: every listed order, tracked first
ListForTeardown ==
  /\ stage = "teardown"
  /\ AdoptListed(live) /\ listed' = live
  /\ ops' = Cancels(SetToSeq(live)) /\ plan' = Keep
  /\ stage' = "tearing"
  /\ UNCHANGED <<serverVars, placing, held, looking, rejected, priceVars, bookVars, balance, seen,
                 current, sweepVars>>

\* Earlier failed cancels that are still listed come first.
ListOrders ==
  /\ stage = "list"
  /\ AdoptListed(live) /\ listed' = live
  /\ pendingCancels' = pendingCancels \cap live
  /\ ops' = Cancels(SetToSeq(pendingCancels \cap live)) /\ plan' = Keep
  /\ stage' = "retry"
  /\ UNCHANGED <<serverVars, placing, held, looking, rejected, priceVars, lastResting, probed,
                 anchors, balance, seen, current, sweepVars>>

\* cancel_order: the server has no such order any more, or the call fails.
CancelWorks(o) == live' = live \ {o}
TaskCancels ==
  /\ stage \in {"tearing", "withdrawing", "retry", "ops"} /\ (stop => stage = "tearing")
  /\ ops # <<>> /\ Head(ops).op = "cancel"
CancelOrder ==
  /\ TaskCancels /\ CancelWorks(Head(ops).order) /\ ops' = Tail(ops)
  /\ pendingCancels' = IF stage = "retry" THEN pendingCancels \ {Head(ops).order}
                       ELSE pendingCancels
  /\ listed' = IF stage \in {"retry", "withdrawing"} THEN listed \ {Head(ops).order} ELSE listed
  /\ UNCHANGED <<inFlight, mid, partial, matched, trackerVars,
                 priceVars, lastResting, probed, anchors, stage, balance, seen, plan, current,
                 sweepVars>>
CancelFails ==
  /\ TaskCancels /\ ops' = Tail(ops)
  /\ pendingCancels' = IF stage = "ops" THEN pendingCancels \cup {Head(ops).order}
                       ELSE pendingCancels
  /\ UNCHANGED <<serverVars, trackerVars, priceVars, lastResting, probed, anchors,
                 stage, balance, seen, listed, plan, current, sweepVars>>

\* withdraw_unquoted: a market without rungs, listed again when its probe is due
VisitUnquoted ==
  /\ Visiting("idle") /\ ~ quoted /\ ~ (lastResting = "empty" /\ probed)
  /\ pendingCancels' = {} /\ probed' = TRUE /\ stage' = "unquoted"
  /\ UNCHANGED <<serverVars, trackerVars, priceVars, lastResting, anchors, visitVars,
                 sweepVars>>
ListUnquoted ==
  /\ stage = "unquoted"
  /\ AdoptListed(live) /\ listed' = live /\ ops' = Cancels(SetToSeq(live))
  /\ stage' = "withdrawing"
  /\ UNCHANGED <<serverVars, placing, held, looking, rejected, priceVars, bookVars, balance,
                 seen, plan, current, sweepVars>>
WithdrawEnds ==
  /\ stage = "withdrawing" /\ (ops = <<>> \/ stop)
  /\ lastResting' = IF listed = {} THEN "empty" ELSE "none"
  /\ EndVisit
  /\ UNCHANGED <<serverVars, trackerVars, priceVars, pendingCancels, probed, anchors,
                 sweepVars>>

TeardownEnds ==
  /\ stage = "tearing" /\ ops = <<>> /\ EndVisit
  /\ UNCHANGED <<serverVars, trackerVars, priceVars, bookVars, sweepVars>>

-----------------------------------------------------------------------------
(* Planning *)

Listed(s) == {o \in listed : SideOf[o] = s}

\* plan_market: Unknown keeps, fundable replaces on a trigger, the rest withdraws
SideAction(s, n, shapeChanged) ==
  LET expected == IF s = "bids" THEN 1 ELSE n
      trigger == \/ forceRefresh
                 \/ anchors[s] \notin {NoPrice, seen}
                 \/ Cardinality(Listed(s)) # expected
                 \/ Listed(s) \cap partial # {}
                 \/ s = "offers" /\ shapeChanged
  IN CASE FundingOf(s, balance) = "Unknown" -> "Keep"
       [] Funded(s, balance, n) -> IF trigger THEN "Replace" ELSE "Keep"
       [] OTHER -> IF Listed(s) # {} THEN "Cancel" ELSE "Keep"

\* uncross: a new rung would reach the other side's resting orders
Crosses(s) ==
  \E o \in Listed(Other(s)) : IF s = "bids" THEN seen > mid[o] ELSE seen < mid[o]
Uncross(p, n) ==
  [s \in Sides |->
     IF p[s] = "Keep" /\ p[Other(s)] = "Replace" /\ Crosses(Other(s))
     THEN IF Funded(s, balance, n) THEN "Replace" ELSE "Cancel"
     ELSE p[s]]

\* next_anchors
NextAnchors(p) ==
  [s \in Sides |->
     IF p[s] = "Replace" \/ (p[s] = "Keep" /\ anchors[s] = NoPrice /\ Listed(s) # {})
     THEN seen ELSE anchors[s]]

Distance(o) == IF mid[o] > seen THEN mid[o] - seen ELSE seen - mid[o]
SideQueue(s) == SetToSortSeq(Listed(s), LAMBDA a, b : Distance(a) < Distance(b))

\* grid_ops: withdrawn sides, then a cancel and a place per rung, then leftovers
GridOps(p, n, first) ==
  LET withdrawn(s) == IF p[s] = "Cancel" THEN Cancels(SideQueue(s)) ELSE <<>>
      rungs(s) == IF p[s] # "Replace" THEN 0 ELSE IF s = "bids" THEN 1 ELSE n
      paired(s) == IF rungs(s) = 0 THEN <<>>
                   ELSE SubSeq(Cancels(SideQueue(s)), 1, IF Listed(s) = {} THEN 0 ELSE 1)
                          \o << [op |-> "place", side |-> s] >>
      left(s) == IF p[s] # "Replace" THEN <<>>
                 ELSE SubSeq(Cancels(SideQueue(s)), rungs(s) + 1, Cardinality(Listed(s)))
  IN withdrawn("bids") \o withdrawn("offers")
       \o paired(first) \o paired(Other(first)) \o left("bids") \o left("offers")

\* plan_visit and what follows it: a visit without action remembers what rests
PlanVisit ==
  /\ stage = "retry" /\ (ops = <<>> \/ stop)
  /\ \E n \in OfferRungs, shapeChanged \in Reshaped, first \in Sides :
       LET p == [s \in Sides |-> SideAction(s, n, shapeChanged)]
           q == IF stop THEN p ELSE Uncross(p, n)
       IN /\ forceRefresh' = FALSE
          /\ IF p = Keep
             THEN /\ lastResting' = IF listed = {} THEN "empty" ELSE "some"
                  /\ anchors' = NextAnchors(p) /\ EndVisit
             ELSE /\ lastResting' = "none" /\ plan' = q /\ stage' = "ops"
                  /\ ops' = IF stop THEN <<>> ELSE GridOps(q, n, first)
                  /\ UNCHANGED <<anchors, balance, seen, listed, current>>
  /\ UNCHANGED <<serverVars, trackerVars, priceless, failStreak, restoreStreak,
                 pendingCancels, probed, sweepVars>>

-----------------------------------------------------------------------------
(* Placing *)

\* Sign and submit under a placement guard; the order id may not be available.
Submit(o) ==
  /\ Visiting("ops") /\ ops # <<>> /\ Head(ops).op = "place"
  /\ o \in Fresh /\ SideOf[o] = Head(ops).side
  /\ mid' = [mid EXCEPT ![o] = seen] /\ inFlight' = inFlight \cup {o}
  /\ placing' = TRUE /\ current' = o /\ stage' = "submitting" /\ ops' = Tail(ops)
  /\ UNCHANGED <<live, partial, matched, tracked, held, kept,
                 looking, rejected, outcome, priceVars, bookVars, balance, seen, listed, plan,
                 sweepVars>>
SkipPlace ==
  /\ Visiting("ops") /\ ops # <<>> /\ Head(ops).op = "place"
  /\ ops' = Tail(ops)
  /\ UNCHANGED <<serverVars, trackerVars, priceVars, bookVars, stage, balance, seen, listed,
                 plan, current, sweepVars>>

Submitted(t, k, h) ==
  /\ stage = "submitting"
  /\ tracked' = t /\ kept' = k /\ held' = h /\ placing' = FALSE
  /\ current' = NoOrder /\ stage' = "ops"
  /\ UNCHANGED <<serverVars, looking, rejected, priceVars, bookVars, balance, seen, listed, ops,
                 plan, sweepVars>>

\* The answer: booked and tracked; refused; or an error that decides nothing.
SubmitBooked ==
  /\ current \in (live \cup matched) \ inFlight
  /\ Submitted(tracked \cup {current}, kept, held) /\ UNCHANGED outcome
SubmitRefused ==
  /\ current \notin inFlight \cup live \cup matched
  /\ Submitted(tracked, kept, held) /\ UNCHANGED outcome
SubmitUnknown ==
  /\ Submitted(tracked, kept \cup {current}, TRUE)
  /\ outcome' = [outcome EXCEPT ![current] = "unknown"]

VisitEnds ==
  /\ stage = "ops" /\ (ops = <<>> \/ stop)
  /\ anchors' = NextAnchors(plan) /\ EndVisit
  /\ UNCHANGED <<serverVars, trackerVars, priceVars, pendingCancels, lastResting,
                 probed, sweepVars>>

-----------------------------------------------------------------------------
(* The end: shutdown, or a grid task that dies, and the sweep of the book *)

Signal ==
  /\ ~ stop /\ stop' = TRUE
  /\ UNCHANGED <<serverVars, trackerVars, priceVars, bookVars, stage, visitVars, quoted,
                 sweep, round, seenEmpty>>

TaskGone ==
  /\ stage' = "ended" /\ placing' = FALSE
  /\ balance' = "unknown" /\ seen' = NoPrice /\ listed' = {} /\ ops' = <<>>
  /\ plan' = Keep /\ current' = NoOrder
  /\ priceless' = FALSE /\ failStreak' = 0 /\ restoreStreak' = 0 /\ forceRefresh' = FALSE
  /\ pendingCancels' = {} /\ lastResting' = "none" /\ probed' = FALSE
  /\ anchors' = NoAnchors
  /\ sweep' = "fetch" /\ round' = 0 /\ seenEmpty' = FALSE
  /\ outcome' = IF current = NoOrder THEN outcome ELSE [outcome EXCEPT ![current] = "aborted"]
  /\ UNCHANGED <<serverVars, tracked, held, kept, looking, rejected, quoted, stop>>

\* It returns at the top of its loop; join_grid aborts it after its limit, and it
\* may panic.  A guard is dropped with its task, the submit goes on.
GridReturns == stop /\ stage = "idle" /\ TaskGone
GridDies == stage \notin {"idle", "ended"} /\ TaskGone

\* cancel_all_party_orders, redone by finish_grid if it did not finish
SweepFails ==
  /\ sweep = "fetch" /\ round < Rounds
  /\ round' = round + 1 /\ seenEmpty' = FALSE
  /\ UNCHANGED <<serverVars, trackerVars, priceVars, bookVars, stage, visitVars, quoted, stop,
                 sweep>>
SweepLists ==
  /\ sweep = "fetch" /\ round < Rounds /\ live # {}
  /\ round' = round + 1 /\ seenEmpty' = FALSE
  /\ AdoptListed(live)
  /\ ops' = Cancels(SetToSeq(live)) /\ sweep' = "cancelling"
  /\ UNCHANGED <<serverVars, placing, held, looking, rejected, priceVars, bookVars, stage, balance, seen,
                 listed, plan, current, quoted, stop>>

\* Mutant: one empty fetch is enough.
SweepSeesEmptyOnce ==
  /\ sweep = "fetch" /\ round < Rounds /\ live = {}
  /\ round' = round + 1 /\ seenEmpty' = TRUE /\ sweep' = "withdrawn"
  /\ UNCHANGED <<serverVars, trackerVars, priceVars, bookVars, stage, visitVars, quoted, stop>>

SweepSeesEmpty ==
  /\ sweep = "fetch" /\ round < Rounds /\ live = {}
  /\ seenEmpty /\ LandsPromptly => inFlight = {}
  /\ round' = round + 1 /\ seenEmpty' = TRUE
  /\ sweep' = IF seenEmpty THEN "withdrawn" ELSE "fetch"
  /\ UNCHANGED <<serverVars, trackerVars, priceVars, bookVars, stage, visitVars, quoted, stop>>
SweepCancels ==
  /\ sweep = "cancelling" /\ ops # <<>> /\ ops' = Tail(ops)
  /\ CancelWorks(Head(ops).order) \/ UNCHANGED live
  /\ UNCHANGED <<inFlight, mid, partial, matched, trackerVars,
                 priceVars, bookVars, stage, balance, seen, listed, plan, current, sweepVars>>
SweepGoesOn ==
  /\ sweep = "cancelling" /\ ops = <<>> /\ sweep' = "fetch"
  /\ UNCHANGED <<serverVars, trackerVars, priceVars, bookVars, stage, visitVars, quoted, stop,
                 round, seenEmpty>>
\* The rounds are used up, or the time limit passes; finish_grid starts over if
\* the book is not known to be empty when the agent stops.
SweepGivesUp ==
  /\ sweep \in {"fetch", "cancelling"} /\ sweep' = "failed" /\ ops' = <<>>
  /\ UNCHANGED <<serverVars, trackerVars, priceVars, bookVars, stage, balance, seen, listed,
                 plan, current, quoted, stop, round, seenEmpty>>
SweepAgain ==
  /\ sweep = "failed" /\ stop
  /\ sweep' = "fetch" /\ round' = 0 /\ seenEmpty' = FALSE
  /\ UNCHANGED <<serverVars, trackerVars, priceVars, bookVars, stage, visitVars, quoted, stop>>

Sweep == SweepFails \/ SweepLists \/ SweepSeesEmpty \/ SweepCancels \/ SweepGoesOn
           \/ SweepGivesUp \/ SweepAgain

-----------------------------------------------------------------------------
GridStep ==
  \/ VisitUnquoted \/ ListUnquoted \/ WithdrawEnds \/ StartCycle \/ PriceFails \/ (\E p \in Prices : PriceArrives(p)) \/ ListFails \/ ListForTeardown
  \/ ListOrders \/ CancelOrder \/ CancelFails \/ TeardownEnds \/ PlanVisit
  \/ \E o \in Orders : Submit(o)
  \/ SkipPlace \/ SubmitBooked \/ SubmitRefused \/ SubmitUnknown \/ VisitEnds

GridNext ==
  \/ HoldEnds \/ VerifyUserOrder \/ ProbeAges
  \/ \E o \in Orders : Book(o) \/ LoseSubmit(o) \/ Match(o) \/ NeedServerLookup(o)
  \/ GridStep
  \/ Signal \/ GridReturns \/ GridDies \/ Sweep

GridSpec == GridInit /\ [][GridNext]_gridVars

-----------------------------------------------------------------------------
(* Properties *)

\* "The guard holds matching proposals until it is tracked" (place_bid), and
\* orders booked by a failed submit "are tracked first, so a later cancel cannot
\* turn their matches into rejects" (get_active_orders).  The match of an order
\* of this session is rejected only if its task died while submitting it, or its
\* submit failed without a verdict and no listing has shown it before the lookup
\* that found it absent.
OwnMatchAccepted ==
  \A o \in Orders \ Old : o \in rejected => outcome[o] \in {"unknown", "aborted"}

\* "True once the book was confirmed empty" (spawn_party_sweep): a sweep that
\* reports the book withdrawn leaves no order behind, although the task may have
\* died in the middle of a submit.
WithdrawnIsEmpty == sweep = "withdrawn" => live = {}

\* Stale levels must not stay executable (handle_priceless), nor rungs without
\* funds: a market that has no rungs, or stays without a price or without funds,
\* is left without resting orders, though cancels fail, submits land late and the market is parked.
UnquotedIsWithdrawn ==
  (~ quoted \/ <>[][\A p \in Prices : ~ PriceArrives(p)]_gridVars \/ <>[](stage # "idle" => balance = "short"))
    => <>[](live = {} \/ stage = "ended")

=============================================================================
