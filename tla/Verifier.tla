------------------------------ MODULE Verifier ------------------------------
(* What the agent checks of a transaction the ledger service prepared before *)
(* it signs (tx-verifier/src/inspector.rs, lib.rs).  A transaction is seen    *)
(* through its aspects: the parts of it one operation's inspection compares   *)
(* with the expectation.  An aspect matches, differs, is absent, is mistyped  *)
(* (there, but not a value of the type looked for), or is unseen: inside a    *)
(* part that is absent.                                                      *)
EXTENDS Integers, FiniteSets, FiniteSetsExt

CONSTANTS
    MaxOdd            \* how many aspects of one transaction do not match

ASSUME VerifierAssumption == MaxOdd \in Nat

VARIABLES
    op,               \* the expected operation
    tx,               \* the prepared transaction: aspect -> status
    mode,             \* "normal", "dryRun" or "force": the flags of the submit call
    verdict,          \* "none" until verify_and_hash ends
    signed            \* what the agent signed: "none", "computed", "server"

verifyVars == <<op, tx, mode, verdict, signed>>

\* What a check does with an aspect that differs, is absent or is mistyped.
Rule(d, a, m) == [match |-> "pass", unseen |-> "pass", differ |-> d, absent |-> a, mistyped |-> m]
Must == Rule("reject", "reject", "reject")     \* anything else is rejected
Needed == Rule("reject", "error", "error")     \* .context(..)? on what is missing
IfSeen == Rule("reject", "pass", "pass")       \* compared only where present
IfTyped == Rule("reject", "reject", "pass")
Weigh == Rule("reject", "warn", "warn")        \* warn where it cannot be compared
WeighTyped == Rule("reject", "warn", "pass")
Hint == Rule("warn", "warn", "warn")
HintSeen == Rule("warn", "pass", "pass")

\* The rules of f and g; what both rule, f does.
Also(f, g) == [a \in DOMAIN f \cup DOMAIN g |-> IF a \in DOMAIN f THEN f[a] ELSE g[a]]

\* extract_root_exercise: the parts a transaction must have; the first root must
\* be an exercise of a node that is there.
RootExercise == [envelope |-> Must, root |-> Must, actAs |-> Must, choice |-> Must, acting |-> Must]

\* inspect_transfer_cc: the metadata and the exercise.
TransferCcRoot ==
    Also([RootExercise EXCEPT !.envelope = Needed],
         [commandId |-> Hint, template |-> Rule("warn", "reject", "reject"), chosen |-> Needed])

\* inspect_transfer_cc: the transfer itself and the nodes below it.
TransferCc ==
    Also(TransferCcRoot, [sender |-> IfSeen, receiver |-> IfTyped, amount |-> WeighTyped,
                          instrument |-> Weigh, preapprovalSend |-> Hint, amuletTransfer |-> Hint])

\* inspect_accept_cip56: the exercise.
AcceptCip56Root ==
    Also([RootExercise EXCEPT !.envelope = Needed],
         [contractId |-> Must, interface |-> Hint, consuming |-> Must])

\* inspect_accept_cip56: the transfer and the holding found in the tree.
AcceptCip56 == Also(AcceptCip56Root, [transferRule |-> Hint, receiverHolding |-> Hint])

\* The single create of inspect_request_user_service and its siblings.
OneCreate ==
    [envelope |-> Needed, actAs |-> Must, onlyRoot |-> Must, onlyNode |-> Hint, create |-> Must,
     template |-> Needed, argument |-> Needed, signatory |-> Must]

\* inspect_request_user_service
RequestUserService == Also(OneCreate, [user |-> Must])

\* inspect_request_preapproval: either of two templates
RequestPreapproval == Also(OneCreate, [receiver |-> Must])

\* inspect_recurring_payasyougo
RequestRecurringPayasyougo == Also(OneCreate, [user |-> Must, app |-> Must, amount |-> Hint])

\* inspect_recurring_prepaid
RequestRecurringPrepaid ==
    Also(RootExercise, [template |-> HintSeen, chosen |-> Hint, user |-> Must, amount |-> Hint, app |-> Hint])

\* Mutant: the receiver of a fee is compared for the log only.
PayFeeAnyReceiver ==
    Also(RootExercise, [commandId |-> Hint, template |-> HintSeen, chosen |-> Hint, transfer |-> Hint,
                        receiver |-> Hint, instrument |-> Weigh])

\* inspect_pay_fee
PayFee ==
    Also(RootExercise, [commandId |-> Hint, template |-> HintSeen, chosen |-> Hint, transfer |-> Hint,
                        receiver |-> WeighTyped, instrument |-> Weigh])

\* inspect_propose_dvp
ProposeDvp ==
    Also(RootExercise, [synchronizer |-> HintSeen, commandId |-> Hint, template |-> IfSeen, chosen |-> IfSeen,
                        termsId |-> Weigh, proposalCreate |-> Hint, createdTermsId |-> IfSeen])

\* inspect_dvp_proposal_gc; effects: a create below it that the choice may not make.
ProposalGc ==
    Also(RootExercise, [onlyRoot |-> Must, commandId |-> Hint, template |-> IfSeen, contractId |-> Must,
                        effects |-> IfSeen])

\* inspect_accept_dvp: the exercise.
AcceptDvpRoot ==
    Also(RootExercise, [commandId |-> Hint, template |-> IfSeen, chosen |-> IfSeen, cid |-> HintSeen])

\* inspect_accept_dvp: the terms, read from the first disclosed DvpProposal.
AcceptDvp ==
    Also(AcceptDvpRoot, [disclosed |-> Hint, terms |-> IfSeen, delivery |-> Hint, payment |-> Hint,
                         deliveryAmount |-> Weigh, deliveryId |-> Weigh, deliveryAdmin |-> Weigh,
                         paymentAmount |-> Weigh, paymentId |-> Weigh, paymentAdmin |-> Weigh])

\* inspect_allocate
Allocate == Also(RootExercise, [commandId |-> Hint, template |-> HintSeen])

\* inspect: the operations with an inspection of their own ...
Inspections ==
    [TransferCc |-> TransferCc, AcceptCip56 |-> AcceptCip56, RequestUserService |-> RequestUserService,
     RequestPreapproval |-> RequestPreapproval, RequestRecurringPayasyougo |-> RequestRecurringPayasyougo,
     RequestRecurringPrepaid |-> RequestRecurringPrepaid, PayFee |-> PayFee, ProposeDvp |-> ProposeDvp,
     CancelDvpProposal |-> ProposalGc, RejectDvpProposal |-> ProposalGc, AcceptDvp |-> AcceptDvp,
     Allocate |-> Allocate]

\* ... and those that are let through with a warning.
Stubs == {"PrepayTraffic", "TransferCip56", "SplitCc", "ExecuteMulticall", "LockHoldings",
          "ProcessLockUnlockRequests", "ResizeLock", "TerminateLock", "AtomicDvpSettle", "IssueTickets",
          "SplitHoldings", "CreateAtomicDvpVenue", "UpdateVenueKey", "RetireVenue", "CancelTickets"}

\* OperationExpectation
Operations == Stubs \cup DOMAIN Inspections
Rules(o) == IF o \in Stubs THEN << >> ELSE Inspections[o]

\* What sits inside what: the parts of an absent part are unseen.
Inside(o) ==
    CASE o = "TransferCc" -> [chosen |-> {"sender", "receiver", "amount", "instrument"},
                              preapprovalSend |-> {"amuletTransfer"}]
      [] o = "RequestRecurringPrepaid" -> [chosen |-> {"user", "amount"}]
      [] o = "PayFee" -> [chosen |-> {"transfer", "receiver", "instrument"},
                          transfer |-> {"receiver", "instrument"}]
      [] o = "ProposeDvp" -> [chosen |-> {"termsId"}, proposalCreate |-> {"createdTermsId"}]
      [] o = "AcceptDvp" ->
           LET d == {"deliveryAmount", "deliveryId", "deliveryAdmin"}
               p == {"paymentAmount", "paymentId", "paymentAdmin"}
           IN  [chosen |-> {"cid"}, disclosed |-> d \cup p \cup {"terms", "delivery", "payment"},
                terms |-> d \cup p \cup {"delivery", "payment"}, delivery |-> d, payment |-> p]
      [] OTHER -> << >>

\* The checks an operation's inspection makes of a transaction, in one verdict:
\* the first rejection or error ends it, warnings are gathered.
Inspect(o, t) ==
    LET found == {Rules(o)[a][t[a]] : a \in DOMAIN Rules(o)}
    IN  IF "error" \in found THEN "error"
        ELSE IF "reject" \in found THEN "reject"
        ELSE IF "warn" \in found \/ o \in Stubs THEN "warn"
        ELSE "clean"

\* What the ledger service may have prepared: at most MaxOdd aspects that do not
\* match, and nothing seen inside a part that is not there.
Hidden(o, t) ==
    UNION {Inside(o)[c] : c \in {d \in DOMAIN Inside(o) : t[d] \in {"absent", "mistyped"}}}
Prepared(o) ==
    LET Odd == {"differ", "absent", "mistyped"}
        Parts == DOMAIN Inside(o) \cup {"envelope", "argument"}
        Real(t) == \A a \in Parts \cap DOMAIN t : t[a] # "differ"
        All == UNION {{[a \in DOMAIN Rules(o) |-> IF a \in S THEN f[a] ELSE "match"] : f \in [S -> Odd]} :
                        S \in UNION {kSubset(k, DOMAIN Rules(o)) : k \in 0 .. MaxOdd}}
    IN  {[a \in DOMAIN Rules(o) |-> IF a \in Hidden(o, t) THEN "unseen" ELSE t[a]] : t \in {u \in All : Real(u)}}

VerifyInit ==
    /\ op \in Operations
    /\ tx \in Prepared(op)
    /\ mode \in {"normal", "dryRun", "force"}
    /\ verdict = "none" /\ signed = "none"

\* verify_and_hash: a rejection ends it; the hash is computed, fails (the
\* sentinel) or differs from the server's (the sentinel again, with a warning).
VerifyAndHash(hash) ==
    /\ verdict = "none"
    /\ LET seen == Inspect(op, tx) IN
         verdict' = IF seen \in {"error", "reject"} \/ hash = "match" THEN seen
                    ELSE IF hash = "undecodable" THEN "error" ELSE "sentinel"
    /\ UNCHANGED <<op, tx, mode, signed>>

\* verify_bounded: a panic or an overrun of VERIFY_TIMEOUT becomes an error.
VerifyFails == verdict = "none" /\ verdict' = "error" /\ UNCHANGED <<op, tx, mode, signed>>

\* What the submit path signs: nothing in a dry run, nor what was rejected unless
\* --force is set; the server's hash where there is no hash of its own.
SignHash ==
    /\ mode # "dryRun" /\ signed = "none"
    /\ \/ verdict \in {"clean", "warn", "sentinel"}
       \/ verdict = "reject" /\ mode = "force"
    /\ signed' = IF verdict \in {"sentinel", "reject"} THEN "server" ELSE "computed"
    /\ UNCHANGED <<op, tx, mode, verdict>>

VerifyNext ==
    \/ \E hash \in {"match", "mismatch", "failed", "undecodable"} : VerifyAndHash(hash)
    \/ VerifyFails \/ SignHash

VerifySpec == VerifyInit /\ [][VerifyNext]_verifyVars

-----------------------------------------------------------------------------
\* What makes a transaction the one the agent asked for: who acts, on what, and
\* what moves.  AcceptDvp names the proposal by its terms.
Decisive(o) ==
    CASE o = "TransferCc" -> {"actAs", "choice", "acting", "sender", "receiver", "amount", "instrument"}
      [] o = "AcceptCip56" -> {"actAs", "choice", "acting", "contractId", "consuming"}
      [] o = "RequestUserService" -> {"actAs", "create", "template", "user", "signatory", "onlyRoot"}
      [] o = "RequestPreapproval" -> {"actAs", "create", "template", "receiver", "signatory", "onlyRoot"}
      [] o = "RequestRecurringPayasyougo" ->
           {"actAs", "create", "template", "user", "app", "signatory", "onlyRoot"}
      [] o = "RequestRecurringPrepaid" -> {"actAs", "choice", "acting", "user"}
      [] o = "PayFee" -> {"actAs", "choice", "acting", "receiver", "instrument"}
      [] o = "ProposeDvp" -> {"actAs", "choice", "template", "acting", "termsId", "createdTermsId"}
      [] o = "AcceptDvp" -> {"actAs", "choice", "template", "acting", "deliveryAmount", "deliveryId",
                             "deliveryAdmin", "paymentAmount", "paymentId", "paymentAdmin"}
      [] o = "Allocate" -> {"actAs", "choice", "acting"}
      [] o \in {"CancelDvpProposal", "RejectDvpProposal"} ->
           {"actAs", "choice", "template", "acting", "contractId", "onlyRoot", "effects"}
      [] OTHER -> {}

\* Nothing is signed in which a decisive aspect differs, and what is signed on the
\* agent's own hash without a warning differs in nothing: no check is skipped
\* because an earlier part was absent, and none only warns where it must reject.
\* Only --force signs what was rejected.
SignedIsExpected ==
    signed # "none" /\ mode # "force" =>
        /\ \A a \in Decisive(op) \cap DOMAIN tx : tx[a] # "differ"
        /\ verdict = "clean" => \A a \in DOMAIN tx : tx[a] # "differ"

=============================================================================
