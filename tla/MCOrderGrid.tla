---------------------------- MODULE MCOrderGrid ----------------------------
(* A bid left on the book by an earlier session, and an offer to place; and   *)
(* one submission to the ledger, of up to three attempts: enough for an       *)
(* uncertain execute, a retry whose own execute is uncertain or refused, and  *)
(* a third attempt after both.  Each initial state runs one of them while the *)
(* other stands still.                                                        *)
EXTENDS SubmitTransaction, OrderGrid

CONSTANTS b0, o1

VARIABLE part     \* what runs

MCSideOf == [o \in Orders |-> IF o = o1 THEN "offers" ELSE "bids"]

EitherInit ==
  /\ part \in {"grid", "submit"} /\ GridInit /\ (part = "submit" => quoted)
  /\ Init /\ (part = "grid" => op = [background |-> FALSE, dryRun |-> FALSE, force |-> FALSE])

EitherNext ==
  \/ part = "grid" /\ GridNext /\ UNCHANGED <<vars, part>>
  \/ part = "submit" /\ Next /\ UNCHANGED <<gridVars, part>>

\* The grid task cycles on its timer and every call has a deadline.  Listings and
\* cancels work again and again; a submit is decided at some time.
GridFairness ==
  /\ WF_gridVars(part = "grid" /\ GridStep) /\ WF_gridVars(part = "grid" /\ ProbeAges)
  /\ WF_gridVars(part = "grid" /\ GridReturns)
  /\ SF_gridVars(part = "grid" /\ ListForTeardown) /\ SF_gridVars(part = "grid" /\ ListOrders)
  /\ SF_gridVars(part = "grid" /\ ListUnquoted) /\ SF_gridVars(part = "grid" /\ CancelOrder)
  /\ \A o \in Orders : WF_gridVars(part = "grid" /\ (Book(o) \/ LoseSubmit(o)))

EitherSpec ==
  /\ EitherInit /\ [][EitherNext]_<<vars, gridVars, part>>
  /\ GridFairness

\* Stale levels must not stay executable (handle_priceless), nor rungs without
\* funds: the grid withdraws a market it cannot quote.
MarketIsWithdrawn == part = "grid" => UnquotedIsWithdrawn

=============================================================================
