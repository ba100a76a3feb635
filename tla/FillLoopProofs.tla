--------------------------- MODULE FillLoopProofs ---------------------------
(***************************************************************************)
(* Proofs about FillLoop for an order of any size, any number of quotes    *)
(* and any number of runs, dry runs among them: when no submit lands after *)
(* its inputs were polled live and nobody else spends them, no crash loses *)
(* or repeats a fill.                                                      *)
(***************************************************************************)
EXTENDS FillLoop, FiniteSetTheorems, TLAPS

\* What the theorems assume of the ledger and the party
Undisturbed == ~ LateLanding /\ ~ ForeignSpend

-----------------------------------------------------------------------------
(* The inductive invariant.  RestartKnowsAll is not inductive: what a       *)
(* round saves depends on what the loop remembers, and conversely.          *)

InRound == pc \in {"settling", "reconciling", "resolving"}

\* Deals are numbered in the order they are accepted, and the accepted one
\* has not been submitted; a dry run never submits it.
Numbered ==
  /\ flying \subseteq 1 .. deals /\ landed \subseteq 1 .. deals
  /\ flying \cap landed = {}
  /\ InRound \/ pc = "accepted" => cur \in Deals
  /\ pc = "accepted" => cur = deals /\ cur \notin flying \cup landed
  /\ pc = "settling" /\ Dry => cur \notin flying \cup landed

\* A lot remains for the round in progress, and for the marked one.
LotRemains ==
  /\ file.mark # NoDeal => file.filled < Lots
  /\ InRound \/ pc = "accepted" => filled < Lots

\* During a round the file marks it and has the progress before it.
FileInStep ==
  InRound => /\ file.mark = cur /\ file.filled = filled
             /\ pc = "resolving" => kind[cur] = "v1"

\* The fees of every V1 trade but the marked one have been debited; while the
\* loop may accept a quote, those of the marked one too.
FeesKnown ==
  \A d \in Trades :
    /\ kind[d] = "v1" /\ d # file.mark => debits[d] > 0
    /\ kind[d] = "v1" /\ pc \in {"quoting", "accepted"} => debits[d] > 0

Control == TypeOK /\ Numbered /\ LotRemains /\ FileInStep
Fees == FeesKnown /\ FeesFollowCommits
Accounts == NeverDoubleFills /\ RestartKnowsAll
IInv == Control /\ Fees /\ Accounts /\ CountedIsCommitted

-----------------------------------------------------------------------------
(* Counting deals *)

\* Sets of deals are finite, and counting them is monotone.
LEMMA Counts ==
  ASSUME NEW S, NEW T, S \subseteq T, T \subseteq Deals
  PROVE  /\ Cardinality(S) \in Nat /\ Cardinality(T) \in Nat
         /\ Cardinality(S) <= Cardinality(T)
<1>1. IsFiniteSet(Deals)
  BY FS_Interval, BoundsAssumption DEF BoundsAssumption, Deals
<1>2. IsFiniteSet(T) /\ IsFiniteSet(S) /\ Cardinality(S) <= Cardinality(T)
  BY <1>1, FS_Subset
<1> QED
  BY <1>2, FS_CardinalityType

\* Leaving one deal out changes a count by at most one.
LEMMA WithoutOne ==
  ASSUME NEW S, S \subseteq Deals, NEW d
  PROVE  /\ Cardinality(S) \in Nat /\ Cardinality(S \ {d}) \in Nat
         /\ Cardinality(S) <= Cardinality(S \ {d}) + 1
         /\ Cardinality(S \ {d}) <= Cardinality(S)
         /\ d \in S => Cardinality(S) = Cardinality(S \ {d}) + 1
         /\ d \notin S => Cardinality(S) = Cardinality(S \ {d})
<1>1. IsFiniteSet(Deals)
  BY FS_Interval, BoundsAssumption DEF BoundsAssumption, Deals
<1>2. IsFiniteSet(S)
  BY <1>1, FS_Subset
<1>3. /\ IsFiniteSet(S \ {d})
      /\ Cardinality(S \ {d}) = IF d \in S THEN Cardinality(S) - 1 ELSE Cardinality(S)
  BY <1>2, FS_RemoveElement
<1>4. Cardinality(S) \in Nat /\ Cardinality(S \ {d}) \in Nat
  BY <1>2, <1>3, FS_CardinalityType
<1> QED
  BY <1>3, <1>4

-----------------------------------------------------------------------------
(* Control: types, numbering, room for a lot, file in step with the round *)

\* A fresh order satisfies the invariant.
LEMMA InitInv == Init => IInv
<1> SUFFICES ASSUME Init PROVE IInv
  OBVIOUS
<1>1. Control
  BY BoundsAssumption
  DEF BoundsAssumption, Init, Control, TypeOK, Numbered, LotRemains, FileInStep,
      InRound, Deals, NoDeal
<1>2. Fees
  BY DEF Init, Fees, FeesKnown, FeesFollowCommits, Trades
<1>3. Trades = {} /\ Trades \ {file.mark} = {} /\ landed \ {file.mark} = {}
  BY DEF Init, Trades
<1>4. Accounts
  BY <1>3, FS_EmptySet
  DEF Init, Accounts, NeverDoubleFills, RestartKnowsAll
<1>5. CountedIsCommitted
  BY <1>3, FS_EmptySet DEF Init, CountedIsCommitted, NoPhantomFills
<1> QED
  BY <1>1, <1>2, <1>4, <1>5 DEF IInv

\* What a save leaves in the file, whether or not it worked.
LEMMA SaveEffects ==
  ASSUME TypeOK, NEW n \in 0 .. Lots, NEW d \in Deals \cup {NoDeal},
         TrySave([filled |-> n, mark |-> d])
  PROVE  /\ file' \in [filled : 0 .. Lots, mark : Deals \cup {NoDeal}]
         /\ \/ file'.filled = file.filled /\ file'.mark = file.mark
            \/ file'.filled = n /\ file'.mark = d
  BY DEF TypeOK, TrySave

\* Counting a fill moves filled_total on by one lot and drops the marker, in
\* the file only if the save worked.
LEMMA CountEffects ==
  ASSUME TypeOK, filled < Lots, CountAndSave
  PROVE  /\ filled' = filled + 1 /\ filled' \in 0 .. Lots
         /\ file' \in [filled : 0 .. Lots, mark : Deals \cup {NoDeal}]
         /\ \/ file'.filled = file.filled /\ file'.mark = file.mark
            \/ file'.filled = filled + 1 /\ file'.mark = NoDeal
<1>1. filled' = filled + 1 /\ filled + 1 \in 0 .. Lots
  BY BoundsAssumption DEF BoundsAssumption, TypeOK, CountAndSave
<1>2. TrySave([filled |-> filled + 1, mark |-> NoDeal])
  BY DEF CountAndSave
<1> QED
  BY <1>1, <1>2, SaveEffects

\* The same for a marker that is cleared or saved again.
LEMMA MarkEffects ==
  ASSUME TypeOK
  PROVE  /\ TrySave(Unmarked) =>
              /\ file' \in [filled : 0 .. Lots, mark : Deals \cup {NoDeal}]
              /\ \/ file'.filled = file.filled /\ file'.mark = file.mark
                 \/ file'.filled = filled /\ file'.mark = NoDeal
         /\ TrySave(Marked) =>
              /\ file' \in [filled : 0 .. Lots, mark : Deals \cup {NoDeal}]
              /\ \/ file'.filled = file.filled /\ file'.mark = file.mark
                 \/ file'.filled = filled /\ file'.mark = cur
<1>1. filled \in 0 .. Lots /\ cur \in Deals \cup {NoDeal}
  BY DEF TypeOK
<1>2. ASSUME TrySave(Unmarked)
      PROVE  TrySave([filled |-> filled, mark |-> NoDeal])
  BY <1>2 DEF Unmarked
<1>3. ASSUME TrySave(Marked)
      PROVE  TrySave([filled |-> filled, mark |-> cur])
  BY <1>3 DEF Marked
<1> QED
  BY <1>1, <1>2, <1>3, SaveEffects

\* Every step keeps the control part.
LEMMA ControlStep ==
  ASSUME Control, [Next]_vars
  PROVE  Control'
<1> USE BoundsAssumption DEF BoundsAssumption
<1> DEFINE Goal == Control'
<1>1. ASSUME NEW d \in Deals, Land(d) \/ Lose(d) PROVE Goal
  BY <1>1
  DEF Land, Lose, Control, TypeOK, Numbered, LotRemains, FileInStep, Dry, InRound, Deals
<1>2. ASSUME NEW d \in Deals, End(d) PROVE Goal
  BY <1>2
  DEF End, Control, TypeOK, Numbered, LotRemains, FileInStep, Dry, InRound, Deals
<1>3. ASSUME OperatorEdits PROVE Goal
  BY <1>3
  DEF OperatorEdits, Control, TypeOK, Numbered, LotRemains, FileInStep, Dry, InRound,
      Deals, NoDeal, ledgerVars
<1>5. ASSUME Resume PROVE Goal
  BY <1>5
  DEF Resume, Control, TypeOK, Numbered, LotRemains, FileInStep, Dry, InRound, Deals,
      NoDeal, ledgerVars
<1>6. ASSUME Resolve PROVE Goal
  BY <1>6
  DEF Resolve, Control, TypeOK, Numbered, LotRemains, FileInStep, Dry, InRound, Deals,
      NoDeal, ledgerVars
<1>7. ASSUME ResolveCommitted \/ ReconcileProved PROVE Goal
  <2>1. /\ filled' = filled + 1 /\ filled' \in 0 .. Lots
        /\ file' \in [filled : 0 .. Lots, mark : Deals \cup {NoDeal}]
        /\ \/ file'.filled = file.filled /\ file'.mark = file.mark
           \/ file'.filled = filled + 1 /\ file'.mark = NoDeal
    BY <1>7, CountEffects DEF Control, LotRemains, InRound, ResolveCommitted, ReconcileProved
  <2>2. debits' \in [Deals -> Nat]
    BY <1>7 DEF Control, TypeOK, Numbered, InRound, DebitFees, ResolveCommitted, ReconcileProved
  <2> QED
    BY <1>7, <2>1, <2>2
    DEF ResolveCommitted, ReconcileProved, Control, TypeOK, Numbered,
        LotRemains, FileInStep, Dry, InRound, Deals, NoDeal, ledgerVars
<1>8. ASSUME SettleCommits PROVE Goal
  <2>1. /\ filled' = filled + 1 /\ filled' \in 0 .. Lots
        /\ file' \in [filled : 0 .. Lots, mark : Deals \cup {NoDeal}]
        /\ \/ file'.filled = file.filled /\ file'.mark = file.mark
           \/ file'.filled = filled + 1 /\ file'.mark = NoDeal
    BY <1>8, CountEffects DEF Control, LotRemains, InRound, SettleCommits
  <2>2. debits' \in [Deals -> Nat]
    BY <1>8 DEF Control, TypeOK, Numbered, InRound, DebitFees, SettleCommits
  <2> QED
    BY <1>8, <2>1, <2>2
    DEF SettleCommits, Control, TypeOK, Numbered,
        LotRemains, FileInStep, Dry, InRound, Deals, NoDeal, ledgerVars
<1>9. ASSUME ReconcileConsumed PROVE Goal
  <2>1. /\ filled' = filled + 1 /\ filled' \in 0 .. Lots
        /\ file' \in [filled : 0 .. Lots, mark : Deals \cup {NoDeal}]
        /\ \/ file'.filled = file.filled /\ file'.mark = file.mark
           \/ file'.filled = filled + 1 /\ file'.mark = NoDeal
    BY <1>9, CountEffects DEF Control, LotRemains, InRound, ReconcileConsumed
  <2> QED
    BY <1>9, <2>1
    DEF ReconcileConsumed, Control, TypeOK, Numbered,
        LotRemains, FileInStep, Dry, InRound, Deals, NoDeal, ledgerVars
<1>10. ASSUME ResolveEnded \/ ReconcileLive PROVE Goal
  <2>1. /\ file' \in [filled : 0 .. Lots, mark : Deals \cup {NoDeal}]
        /\ \/ file'.filled = file.filled /\ file'.mark = file.mark
           \/ file'.filled = filled /\ file'.mark = NoDeal
    BY <1>10, MarkEffects DEF Control, ResolveEnded, ReconcileLive
  <2> QED
    BY <1>10, <2>1
    DEF ResolveEnded, ReconcileLive, Control, TypeOK, Numbered,
        LotRemains, FileInStep, Dry, InRound, Deals, NoDeal, ledgerVars
<1>11. ASSUME SettleFails PROVE Goal
  <2>1. /\ file' \in [filled : 0 .. Lots, mark : Deals \cup {NoDeal}]
        /\ \/ file'.filled = file.filled /\ file'.mark = file.mark
           \/ file'.filled = filled /\ file'.mark = NoDeal
    BY <1>11, MarkEffects DEF Control, SettleFails
  <2> QED
    BY <1>11, <2>1
    DEF SettleFails, Control, TypeOK, Numbered,
        LotRemains, FileInStep, Dry, InRound, Deals, NoDeal, ledgerVars
<1>12. ASSUME ReconcileUnknown PROVE Goal
  <2>1. /\ file' \in [filled : 0 .. Lots, mark : Deals \cup {NoDeal}]
        /\ \/ file'.filled = file.filled /\ file'.mark = file.mark
           \/ file'.filled = filled /\ file'.mark = cur
    BY <1>12, MarkEffects DEF Control, ReconcileUnknown
  <2> QED
    BY <1>12, <2>1
    DEF ReconcileUnknown, Control, TypeOK, Numbered,
        LotRemains, FileInStep, Dry, InRound, Deals, NoDeal, ledgerVars
<1>13. ASSUME NEW k \in Kinds, AcceptQuote(k) PROVE Goal
  BY <1>13, KindsAssumption
  DEF KindsAssumption, AcceptQuote, Control, TypeOK, Numbered, LotRemains,
      FileInStep, Dry, InRound, Deals, NoDeal, ledgerVars
<1>14. ASSUME MarkAndSubmit PROVE Goal
  BY <1>14
  DEF MarkAndSubmit, Marked, Control, TypeOK, Numbered, LotRemains, FileInStep,
      Dry, InRound, Deals, NoDeal
<1>15. ASSUME DropAccepted \/ MarkerNotSaved \/ ResolveNothing \/ SettleUnknown \/ Stop
       PROVE  Goal
  BY <1>15
  DEF DropAccepted, MarkerNotSaved, ResolveNothing, SettleUnknown, Stop, Control,
      TypeOK, Numbered, LotRemains, FileInStep, Dry, InRound, Deals, ledgerVars
<1>16. ASSUME SettleDryV1 PROVE Goal
  <2>1. /\ filled' = filled + 1 /\ filled' \in 0 .. Lots
        /\ file' \in [filled : 0 .. Lots, mark : Deals \cup {NoDeal}]
        /\ \/ file'.filled = file.filled /\ file'.mark = file.mark
           \/ file'.filled = filled + 1 /\ file'.mark = NoDeal
    BY <1>16, CountEffects DEF Control, LotRemains, InRound, SettleDryV1
  <2> QED
    BY <1>16, <2>1
    DEF SettleDryV1, Control, TypeOK, Numbered,
        LotRemains, FileInStep, Dry, InRound, Deals, NoDeal, ledgerVars
<1>18. ASSUME SettleDryAtomic PROVE Goal
  <2>1. /\ file' \in [filled : 0 .. Lots, mark : Deals \cup {NoDeal}]
        /\ \/ file'.filled = file.filled /\ file'.mark = file.mark
           \/ file'.filled = filled /\ file'.mark = NoDeal
    BY <1>18, MarkEffects DEF Control, SettleDryAtomic
  <2> QED
    BY <1>18, <2>1
    DEF SettleDryAtomic, Control, TypeOK, Numbered,
        LotRemains, FileInStep, Dry, InRound, Deals, NoDeal, ledgerVars
<1>17. ASSUME UNCHANGED vars PROVE Goal
  BY <1>17
  DEF vars, ledgerVars, Control, TypeOK, Numbered, LotRemains, FileInStep, Dry, InRound
<1> QED
  BY <1>1, <1>2, <1>3, <1>5, <1>6, <1>7, <1>8, <1>9, <1>10, <1>11, <1>12,
     <1>13, <1>14, <1>15, <1>16, <1>17, <1>18
  DEF Next

-----------------------------------------------------------------------------
(* Fees *)

\* Every step keeps the fee accounts.
LEMMA FeesStep ==
  ASSUME Undisturbed, Control, Fees, NeverDoubleFills, RestartKnowsAll, [Next]_vars
  PROVE  Fees'
<1> DEFINE Goal == Fees'
<1>0. TypeOK /\ (InRound => filled < Lots)
  BY DEF Control, LotRemains
<1>1. ASSUME NEW d \in Deals, Land(d) PROVE Goal
  <2>1. /\ d = file.mark \/ d \in ended
        /\ pc \in {"quoting", "accepted"} => d \in ended
    BY <1>1 DEF Land, RestartKnowsAll, NeverDoubleFills
  <2> QED
    BY <1>1, <2>1 DEF Land, Fees, FeesKnown, FeesFollowCommits, Trades
<1>2. ASSUME NEW d \in Deals, Lose(d) \/ End(d) PROVE Goal
  BY <1>2 DEF Lose, End, Fees, FeesKnown, FeesFollowCommits, Trades
<1>3. ASSUME OperatorEdits PROVE Goal
  BY <1>3, <1>0
  DEF OperatorEdits, Fees, FeesKnown, FeesFollowCommits, Trades, ledgerVars, NoDeal
<1>5. ASSUME Resume PROVE Goal
  BY <1>5
  DEF Resume, Fees, FeesKnown, FeesFollowCommits, Trades, ledgerVars, NoDeal,
      Control, TypeOK, Deals
<1>6. ASSUME Resolve \/ ResolveNothing \/ SettleUnknown \/ MarkerNotSaved \/ Stop
             \/ DropAccepted
      PROVE  Goal
  BY <1>6
  DEF Resolve, ResolveNothing, SettleUnknown, MarkerNotSaved, Stop, DropAccepted,
      Fees, FeesKnown, FeesFollowCommits, Trades, ledgerVars
<1>7. ASSUME ResolveCommitted \/ ReconcileProved \/ SettleCommits \/ ReconcileConsumed
      PROVE  Goal
  <2>1. /\ InRound /\ cur \in landed /\ cur \in Deals /\ file.mark = cur
        /\ pc' = "quoting"
        /\ UNCHANGED <<landed, ended, kind>>
    BY <1>7, Undisturbed
    DEF Undisturbed, ResolveCommitted, ReconcileProved, SettleCommits,
        ReconcileConsumed, Consumed, Proved, InRound, Control, Numbered,
        FileInStep, ledgerVars
  <2>2. /\ \A d \in Deals : d # cur => debits'[d] = debits[d]
        /\ kind[cur] = "v1" => debits'[cur] > 0
        /\ kind[cur] # "v1" => debits'[cur] = debits[cur]
    BY <1>7, <2>1
    DEF ResolveCommitted, ReconcileProved, SettleCommits, ReconcileConsumed,
        DebitFees, Control, TypeOK, FileInStep, InRound
  <2> QED
    BY <2>1, <2>2 DEF Fees, FeesKnown, FeesFollowCommits, Trades, Control, TypeOK
<1>8. ASSUME ResolveEnded \/ SettleFails \/ ReconcileLive PROVE Goal
  <2>1. /\ InRound /\ cur \notin Trades /\ file.mark = cur
        /\ UNCHANGED <<landed, ended, kind, debits>>
    BY <1>8
    DEF ResolveEnded, SettleFails, ReconcileLive, InRound, Trades, Control,
        FileInStep, ledgerVars
  <2> QED
    BY <2>1 DEF Fees, FeesKnown, FeesFollowCommits, Trades
<1>9. ASSUME ReconcileUnknown PROVE Goal
  <2>1. file'.mark = file.mark /\ pc' = "stopped"
    BY <1>9, <1>0, MarkEffects DEF ReconcileUnknown, InRound, Control, FileInStep
  <2> QED
    BY <1>9, <2>1
    DEF ReconcileUnknown, Fees, FeesKnown, FeesFollowCommits, Trades, ledgerVars
<1>10. ASSUME NEW k \in Kinds, AcceptQuote(k) PROVE Goal
  <2>1. \A d \in landed : d # deals + 1
    BY DEF Control, Numbered, TypeOK
  <2>2. \A d \in landed : kind'[d] = kind[d]
    BY <1>10, <2>1 DEF AcceptQuote, Control, TypeOK
  <2> QED
    BY <1>10, <2>2
    DEF AcceptQuote, Fees, FeesKnown, FeesFollowCommits, Trades, ledgerVars
<1>11. ASSUME MarkAndSubmit PROVE Goal
  BY <1>11
  DEF MarkAndSubmit, Fees, FeesKnown, FeesFollowCommits, Trades
<1>12. ASSUME SettleDryV1 \/ SettleDryAtomic PROVE Goal
  <2>1. /\ cur \notin Trades /\ file.mark = cur
        /\ UNCHANGED <<landed, ended, kind, debits>>
    BY <1>12
    DEF SettleDryV1, SettleDryAtomic, InRound, Trades, Control, Numbered,
        FileInStep, ledgerVars
  <2> QED
    BY <2>1 DEF Fees, FeesKnown, FeesFollowCommits, Trades
<1>13. ASSUME UNCHANGED vars PROVE Goal
  BY <1>13 DEF vars, ledgerVars, Fees, FeesKnown, FeesFollowCommits, Trades
<1> QED
  BY <1>1, <1>2, <1>3, <1>5, <1>6, <1>7, <1>8, <1>9, <1>10, <1>11, <1>12,
     <1>13
  DEF Next

-----------------------------------------------------------------------------
(* Accounts *)

\* Every step keeps what the loop and the file know of the trades.
LEMMA AccountsStep ==
  ASSUME Undisturbed, Control, Accounts, [Next]_vars
  PROVE  Accounts'
<1> DEFINE Goal == Accounts'
<1> USE BoundsAssumption DEF BoundsAssumption
<1>0. /\ TypeOK /\ (InRound => filled < Lots)
      /\ landed \subseteq Deals /\ Trades \subseteq Deals
      /\ filled \in Nat /\ file.filled \in Nat
  BY DEF Control, LotRemains, TypeOK, Trades
<1>a. \A d : /\ Cardinality(Trades) \in Nat /\ Cardinality(Trades \ {d}) \in Nat
             /\ Cardinality(Trades) <= Cardinality(Trades \ {d}) + 1
             /\ Cardinality(Trades \ {d}) <= Cardinality(Trades)
             /\ d \notin Trades => Cardinality(Trades) = Cardinality(Trades \ {d})
  BY <1>0, WithoutOne
<1>1. ASSUME NEW d \in Deals, Land(d) PROVE Goal
  <2>1. /\ d = file.mark \/ d \in ended
        /\ pc \in {"quoting", "accepted"} => d \in ended
    BY <1>1 DEF Land, Accounts, RestartKnowsAll, NeverDoubleFills
  <2>2. /\ Trades' \ {file.mark} = Trades \ {file.mark}
        /\ d \in ended => Trades' = Trades
    BY <1>0, <1>1, <2>1 DEF Land, Trades
  <2>4. UNCHANGED <<pc, filled, file, ended>> /\ flying' \subseteq flying
    BY <1>1 DEF Land
  <2>5. NeverDoubleFills'
    BY <2>1, <2>2, <2>4 DEF Accounts, NeverDoubleFills
  <2>6. RestartKnowsAll'
    <3>1. Cardinality(Trades' \ {file'.mark}) = Cardinality(Trades \ {file.mark})
      BY <2>2, <2>4
    <3> QED
      BY <2>4, <3>1 DEF Accounts, RestartKnowsAll
  <2> QED
    BY <2>5, <2>6 DEF Accounts
<1>2. ASSUME NEW d \in Deals, Lose(d) PROVE Goal
  BY <1>2
  DEF Lose, Accounts, NeverDoubleFills, RestartKnowsAll, Trades
<1>3. ASSUME NEW d \in Deals, End(d) PROVE Goal
  <2>1. /\ Trades' \subseteq Trades /\ ended \subseteq ended'
        /\ Trades' \ {file.mark} \subseteq Trades \ {file.mark}
        /\ Trades \ {file.mark} \subseteq Deals
    BY <1>0, <1>3 DEF End, Trades
  <2>2. /\ Cardinality(Trades') <= Cardinality(Trades)
        /\ Cardinality(Trades' \ {file.mark}) <= Cardinality(Trades \ {file.mark})
        /\ Cardinality(Trades') \in Nat /\ Cardinality(Trades' \ {file.mark}) \in Nat
    BY <1>0, <2>1, Counts
  <2> QED
    BY <1>0, <1>3, <1>a, <2>1, <2>2
    DEF End, Accounts, NeverDoubleFills, RestartKnowsAll
<1>4. ASSUME OperatorEdits PROVE Goal
  <2>1. /\ pc' = "stopped" /\ UNCHANGED <<flying, landed, ended>> /\ Trades' = Trades
        /\ file'.mark = NoDeal
        /\ file'.filled = file.filled + (IF file.mark \in landed THEN 1 ELSE 0)
        /\ file.mark \notin flying
    BY <1>4 DEF OperatorEdits, ledgerVars, Trades
  <2>2. NoDeal \notin landed /\ NoDeal \notin Trades
    BY <1>0 DEF NoDeal, Deals
  <2>3. /\ Cardinality(Trades \ {NoDeal}) = Cardinality(Trades)
        /\ Cardinality(landed \ {NoDeal}) = Cardinality(landed)
    BY <1>a, <2>2
  <2>4. file.mark \notin landed => file.mark \notin Trades
    BY DEF Trades
  <2>5. Cardinality(Trades) <= file'.filled
    BY <1>0, <1>a, <2>1, <2>4 DEF Accounts, RestartKnowsAll
  <2> QED
    BY <2>1, <2>3, <2>5
    DEF Accounts, NeverDoubleFills, RestartKnowsAll
<1>6. ASSUME Resume PROVE Goal
  <2>1. /\ file.mark = NoDeal /\ filled' = file.filled /\ Trades' = Trades
        /\ UNCHANGED <<flying, landed, ended, file>>
    BY <1>6 DEF Resume, ledgerVars, Trades
  <2>2. NoDeal \notin landed /\ NoDeal \notin Trades /\ NoDeal \notin flying
    BY <1>0 DEF NoDeal, Deals, TypeOK
  <2> QED
    BY <1>0, <1>a, <2>1, <2>2
    DEF Accounts, NeverDoubleFills, RestartKnowsAll
<1>7. ASSUME Resolve PROVE Goal
  <2>1. /\ pc' = "resolving" /\ filled' = file.filled /\ Trades' = Trades
        /\ UNCHANGED <<flying, landed, ended, file>>
    BY <1>7 DEF Resolve, ledgerVars, Trades
  <2> QED
    BY <1>0, <2>1
    DEF Accounts, NeverDoubleFills, RestartKnowsAll
<1>8. ASSUME ResolveCommitted \/ ReconcileProved \/ SettleCommits \/ ReconcileConsumed
      PROVE  Goal
  <2>1. /\ InRound /\ cur \in landed /\ file.mark = cur /\ file.filled = filled
        /\ CountAndSave /\ pc' = "quoting" /\ Trades' = Trades
        /\ UNCHANGED <<flying, landed, ended>>
        /\ cur \notin flying
    BY <1>8, Undisturbed
    DEF Undisturbed, ResolveCommitted, ReconcileProved, SettleCommits,
        ReconcileConsumed, Consumed, Proved, InRound, Control, Numbered,
        FileInStep, ledgerVars, Trades
  <2>2. /\ filled' = filled + 1
        /\ \/ file'.filled = file.filled /\ file'.mark = file.mark
           \/ file'.filled = filled + 1 /\ file'.mark = NoDeal
    BY <1>0, <2>1, CountEffects
  <2>3. NoDeal \notin landed /\ NoDeal \notin Trades
    BY <1>0 DEF NoDeal, Deals
  <2>4. /\ Cardinality(Trades) <= filled + 1
        /\ flying \subseteq ended
    BY <1>0, <1>a, <2>1 DEF Accounts, RestartKnowsAll
  <2> QED
    BY <1>0, <1>a, <2>1, <2>2, <2>3, <2>4
    DEF Accounts, NeverDoubleFills, RestartKnowsAll
<1>9. ASSUME ResolveEnded \/ SettleFails \/ ReconcileLive PROVE Goal
  <2>1. /\ InRound /\ cur \notin Trades /\ file.mark = cur /\ file.filled = filled
        /\ TrySave(Unmarked) /\ Trades' = Trades /\ filled' = filled
        /\ UNCHANGED <<landed, ended>>
        /\ flying' \subseteq ended
    BY <1>9, Undisturbed
    DEF Undisturbed, ResolveEnded, SettleFails, ReconcileLive, InRound, Trades,
        Control, FileInStep, ledgerVars, Accounts, RestartKnowsAll
  <2>2. \/ file'.filled = file.filled /\ file'.mark = file.mark
        \/ file'.filled = filled /\ file'.mark = NoDeal
    BY <1>0, <2>1, MarkEffects
  <2>3. NoDeal \notin landed /\ NoDeal \notin Trades
    BY <1>0 DEF NoDeal, Deals
  <2> QED
    BY <1>0, <1>a, <2>1, <2>2, <2>3
    DEF Accounts, NeverDoubleFills, RestartKnowsAll
<1>10. ASSUME ReconcileUnknown PROVE Goal
  <2>1. file'.mark = file.mark /\ file'.filled = file.filled /\ pc' = "stopped"
    BY <1>10, <1>0, MarkEffects DEF ReconcileUnknown, InRound, Control, FileInStep
  <2> QED
    BY <1>10, <2>1
    DEF ReconcileUnknown, Accounts, NeverDoubleFills, RestartKnowsAll, Trades, ledgerVars
<1>11. ASSUME NEW k \in Kinds, AcceptQuote(k) PROVE Goal
  BY <1>11
  DEF AcceptQuote, Accounts, NeverDoubleFills, RestartKnowsAll,
      Trades, ledgerVars
<1>12. ASSUME MarkAndSubmit PROVE Goal
  <2>1. /\ cur \notin landed /\ cur \notin Trades /\ flying \subseteq ended
        /\ flying' \subseteq flying \cup {cur}
        /\ file'.mark = cur /\ file'.filled = filled /\ filled' = filled
        /\ pc' = "settling" /\ UNCHANGED <<landed, ended>> /\ Trades' = Trades
        /\ Cardinality(Trades) <= filled
    BY <1>12
    DEF MarkAndSubmit, Marked, Control, Numbered, Accounts, NeverDoubleFills, Trades
  <2> QED
    BY <1>0, <1>a, <2>1
    DEF Accounts, NeverDoubleFills, RestartKnowsAll
<1>13. ASSUME DropAccepted \/ MarkerNotSaved \/ ResolveNothing \/ SettleUnknown \/ Stop
       PROVE  Goal
  BY <1>13
  DEF DropAccepted, MarkerNotSaved, ResolveNothing, SettleUnknown, Stop, Accounts,
      NeverDoubleFills, RestartKnowsAll, Trades, ledgerVars
<1>14. ASSUME SettleDryV1 PROVE Goal
  <2>1. /\ InRound /\ cur \notin flying \cup landed
        /\ file.mark = cur /\ file.filled = filled
        /\ CountAndSave /\ pc' = "quoting" /\ Trades' = Trades
        /\ UNCHANGED <<flying, landed, ended>>
    BY <1>14
    DEF SettleDryV1, InRound, Control, Numbered, FileInStep, ledgerVars, Trades
  <2>2. /\ filled' = filled + 1
        /\ \/ file'.filled = file.filled /\ file'.mark = file.mark
           \/ file'.filled = filled + 1 /\ file'.mark = NoDeal
    BY <1>0, <2>1, CountEffects
  <2>3. NoDeal \notin Trades /\ cur \notin Trades
    BY <1>0, <2>1 DEF NoDeal, Deals, Trades
  <2>4. Cardinality(Trades) <= filled /\ flying \subseteq ended
    BY <1>0, <1>a, <2>1, <2>3 DEF Accounts, RestartKnowsAll
  <2> QED
    BY <1>0, <1>a, <2>1, <2>2, <2>3, <2>4 DEF Accounts, NeverDoubleFills, RestartKnowsAll
<1>16. ASSUME SettleDryAtomic PROVE Goal
  <2>1. /\ InRound /\ cur \notin flying \cup landed
        /\ file.mark = cur /\ file.filled = filled
        /\ TrySave(Unmarked) /\ pc' = "stopped" /\ Trades' = Trades
        /\ UNCHANGED <<flying, landed, ended, filled>>
    BY <1>16
    DEF SettleDryAtomic, InRound, Control, Numbered, FileInStep, ledgerVars, Trades
  <2>2. \/ file'.filled = file.filled /\ file'.mark = file.mark
        \/ file'.filled = filled /\ file'.mark = NoDeal
    BY <1>0, <2>1, MarkEffects
  <2>3. NoDeal \notin Trades /\ cur \notin Trades
    BY <1>0, <2>1 DEF NoDeal, Deals, Trades
  <2> QED
    BY <1>0, <1>a, <2>1, <2>2, <2>3 DEF Accounts, NeverDoubleFills, RestartKnowsAll
<1>15. ASSUME UNCHANGED vars PROVE Goal
  BY <1>15
  DEF vars, ledgerVars, Accounts, NeverDoubleFills, RestartKnowsAll, Trades
<1> QED
  BY <1>1, <1>2, <1>3, <1>4, <1>6, <1>7, <1>8, <1>9, <1>10, <1>11, <1>12,
     <1>13, <1>14, <1>15, <1>16
  DEF Next

-----------------------------------------------------------------------------
(* Proof of a commit *)

\* Until a dry run has been made, no step counts what did not commit.
LEMMA CommitsStep ==
  ASSUME Undisturbed, Control, CountedIsCommitted, [Next]_vars
  PROVE  CountedIsCommitted'
<1> USE BoundsAssumption DEF BoundsAssumption
<1>0. /\ TypeOK /\ landed \subseteq Deals /\ NoDeal \notin landed
      /\ filled \in Nat /\ file.filled \in Nat
  BY DEF Control, TypeOK, NoDeal, Deals
<1>a. runs \in Nat /\ (runs' = runs \/ runs' = runs + 1)
  BY <1>0
  DEF TypeOK, Next, vars, Land, Lose, End, OperatorEdits, Resume, Resolve,
      ResolveCommitted, ResolveEnded, ResolveNothing, AcceptQuote, DropAccepted,
      MarkAndSubmit, MarkerNotSaved, SettleCommits, SettleFails, SettleUnknown,
      SettleDryV1, SettleDryAtomic, ReconcileProved, ReconcileConsumed,
      ReconcileLive, ReconcileUnknown, Stop
<1> SUFFICES ASSUME \A r \in DryRuns : runs' < r
             PROVE  NoPhantomFills'
  BY DEF CountedIsCommitted
<1>c. NoPhantomFills /\ ~ Dry
  <2>1. \A r \in DryRuns : r \in Nat /\ runs < r
    BY <1>a, DryRunsAssumption DEF DryRunsAssumption
  <2> QED
    BY <1>a, <2>1 DEF CountedIsCommitted, Dry
<1>b. \A d : /\ Cardinality(landed) \in Nat /\ Cardinality(landed \ {d}) \in Nat
             /\ Cardinality(landed \ {d}) <= Cardinality(landed)
             /\ d \in landed => Cardinality(landed) = Cardinality(landed \ {d}) + 1
             /\ d \notin landed => Cardinality(landed) = Cardinality(landed \ {d})
  BY <1>0, WithoutOne
<1> DEFINE Goal == NoPhantomFills'
<1>1. ASSUME NEW d \in Deals, Land(d) PROVE Goal
  <2>1. /\ landed \subseteq landed' /\ landed' \subseteq Deals
        /\ landed \ {file.mark} \subseteq landed' \ {file.mark}
        /\ landed' \ {file.mark} \subseteq Deals
        /\ UNCHANGED <<pc, filled, file>>
    BY <1>0, <1>1 DEF Land
  <2>2. /\ Cardinality(landed) <= Cardinality(landed')
        /\ Cardinality(landed \ {file.mark}) <= Cardinality(landed' \ {file.mark})
        /\ Cardinality(landed') \in Nat /\ Cardinality(landed' \ {file.mark}) \in Nat
    BY <2>1, Counts
  <2> QED
    BY <1>0, <1>b, <1>c, <2>1, <2>2 DEF NoPhantomFills
<1>2. ASSUME OperatorEdits PROVE Goal
  <2>1. /\ pc' = "stopped" /\ landed' = landed /\ file'.mark = NoDeal
        /\ file'.filled = file.filled + (IF file.mark \in landed THEN 1 ELSE 0)
    BY <1>2 DEF OperatorEdits, ledgerVars
  <2>2. file'.filled <= Cardinality(landed)
    BY <1>0, <1>b, <1>c, <2>1 DEF NoPhantomFills
  <2>3. Cardinality(landed \ {NoDeal}) = Cardinality(landed)
    BY <1>0, <1>b
  <2> QED
    BY <2>1, <2>2, <2>3 DEF NoPhantomFills
<1>3. ASSUME Resume \/ Resolve PROVE Goal
  <2>1. filled' = file.filled /\ landed' = landed /\ file' = file
    BY <1>3 DEF Resume, Resolve, ledgerVars
  <2> QED
    BY <1>0, <1>b, <1>c, <2>1 DEF NoPhantomFills
<1>4. ASSUME ResolveCommitted \/ ReconcileProved \/ SettleCommits \/ ReconcileConsumed
      PROVE  Goal
  <2>1. /\ InRound /\ cur \in landed /\ file.mark = cur /\ file.filled = filled
        /\ filled < Lots /\ CountAndSave /\ landed' = landed
    BY <1>4, Undisturbed
    DEF Undisturbed, ResolveCommitted, ReconcileProved, SettleCommits, LotRemains,
        ReconcileConsumed, Consumed, Proved, InRound, Control, FileInStep, ledgerVars
  <2>2. /\ filled' = filled + 1
        /\ \/ file'.filled = file.filled /\ file'.mark = file.mark
           \/ file'.filled = filled + 1 /\ file'.mark = NoDeal
    BY <1>0, <2>1, CountEffects
  <2>3. filled + 1 <= Cardinality(landed)
    BY <1>0, <1>b, <1>c, <2>1 DEF NoPhantomFills
  <2> QED
    BY <1>0, <1>b, <1>c, <2>1, <2>2, <2>3 DEF NoPhantomFills
<1>5. ASSUME ResolveEnded \/ SettleFails \/ ReconcileLive PROVE Goal
  <2>1. /\ InRound /\ file.filled = filled /\ TrySave(Unmarked)
        /\ filled' = filled /\ landed' = landed
    BY <1>5
    DEF ResolveEnded, SettleFails, ReconcileLive, InRound, Control, FileInStep, ledgerVars
  <2>2. \/ file'.filled = file.filled /\ file'.mark = file.mark
        \/ file'.filled = filled /\ file'.mark = NoDeal
    BY <1>0, <2>1, MarkEffects
  <2> QED
    BY <1>0, <1>b, <1>c, <2>1, <2>2 DEF NoPhantomFills, InRound
<1>6. ASSUME ReconcileUnknown PROVE Goal
  <2>1. file'.mark = file.mark /\ file'.filled = file.filled /\ pc' = "stopped"
    BY <1>6, <1>0, MarkEffects DEF ReconcileUnknown, InRound, Control, FileInStep
  <2> QED
    BY <1>6, <1>c, <2>1 DEF ReconcileUnknown, NoPhantomFills, ledgerVars
<1>7. ASSUME MarkAndSubmit PROVE Goal
  <2>1. /\ cur \notin landed /\ landed' = landed /\ pc = "accepted"
        /\ file'.mark = cur /\ file'.filled = filled /\ filled' = filled
    BY <1>7 DEF MarkAndSubmit, Marked, Control, Numbered
  <2> QED
    BY <1>0, <1>b, <1>c, <2>1 DEF NoPhantomFills
<1>8. ASSUME UNCHANGED <<landed, filled, file>>, pc' = "stopped" \/ pc # "stopped"
      PROVE  Goal
  BY <1>8, <1>c DEF NoPhantomFills
<1>9. ASSUME NEW k \in Kinds, AcceptQuote(k) PROVE Goal
  BY <1>9, <1>8 DEF AcceptQuote, ledgerVars
<1>10. ASSUME \/ DropAccepted \/ MarkerNotSaved \/ ResolveNothing \/ SettleUnknown \/ Stop
              \/ \E d \in Deals : Lose(d) \/ End(d)
       PROVE  Goal
  BY <1>10, <1>c
  DEF DropAccepted, MarkerNotSaved, ResolveNothing, SettleUnknown, Stop, Lose, End,
      NoPhantomFills, ledgerVars
<1>11. ASSUME SettleDryV1 \/ SettleDryAtomic PROVE Goal
  BY <1>11, <1>c DEF SettleDryV1, SettleDryAtomic
<1>12. ASSUME UNCHANGED vars PROVE Goal
  BY <1>12, <1>c DEF vars, ledgerVars, NoPhantomFills
<1> QED
  BY <1>1, <1>2, <1>3, <1>4, <1>5, <1>6, <1>7, <1>9, <1>10, <1>11, <1>12
  DEF Next

-----------------------------------------------------------------------------
(* Theorems *)

\* The invariant holds in every run of the command.
THEOREM Invariance == ASSUME Undisturbed PROVE Spec => []IInv
<1>1. Init => IInv
  BY InitInv
<1>2. ASSUME IInv, [Next]_vars PROVE IInv'
  BY <1>2, ControlStep, FeesStep, AccountsStep, CommitsStep, Undisturbed DEF IInv, Accounts
<1> QED
  BY <1>1, <1>2, PTL DEF Spec

\* The types of the loop, the file and the ledger; filled_total never passes
\* the order.
THEOREM TypeCorrect == ASSUME Undisturbed PROVE Spec => []TypeOK
<1>1. IInv => TypeOK
  BY DEF IInv, Control
<1> QED
  BY <1>1, Invariance, Undisturbed, PTL

\* No quote is accepted while an earlier settle may commit uncounted.
THEOREM NoDoubleFill == ASSUME Undisturbed PROVE Spec => []NeverDoubleFills
<1>1. IInv => NeverDoubleFills
  BY DEF IInv, Accounts
<1> QED
  BY <1>1, Invariance, Undisturbed, PTL

\* A crash at any moment leaves a file that knows every trade.
THEOREM CrashSafe == ASSUME Undisturbed PROVE Spec => []RestartKnowsAll
<1>1. IInv => RestartKnowsAll
  BY DEF IInv, Accounts
<1> QED
  BY <1>1, Invariance, Undisturbed, PTL

\* Until a dry run has been made nothing is counted that did not commit.
THEOREM OnlyCommitsCount == ASSUME Undisturbed PROVE Spec => []CountedIsCommitted
<1>1. IInv => CountedIsCommitted
  BY DEF IInv
<1> QED
  BY <1>1, Invariance, Undisturbed, PTL

\* The processing fees are debited for every counted V1 trade and no other.
THEOREM FeesArePaid == ASSUME Undisturbed PROVE Spec => []FeesFollowCommits
<1>1. IInv => FeesFollowCommits
  BY DEF IInv, Fees
<1> QED
  BY <1>1, Invariance, Undisturbed, PTL

\* All runs of the command together never buy more than the order.
THEOREM NoOverbuying == ASSUME Undisturbed PROVE Spec => []NeverOverbought
<1>1. ASSUME IInv PROVE NeverOverbought
  <2>1. /\ Trades \subseteq Deals /\ file.filled \in 0 .. Lots /\ NoDeal \notin Trades
        /\ file.mark # NoDeal => file.filled < Lots
    BY <1>1 DEF IInv, Control, TypeOK, LotRemains, Trades, NoDeal, Deals
  <2>2. /\ Cardinality(Trades) \in Nat /\ Cardinality(Trades \ {file.mark}) \in Nat
        /\ Cardinality(Trades) <= Cardinality(Trades \ {file.mark}) + 1
        /\ file.mark \notin Trades => Cardinality(Trades) = Cardinality(Trades \ {file.mark})
    BY <2>1, WithoutOne
  <2>3. Cardinality(Trades \ {file.mark}) <= file.filled
    BY <1>1 DEF IInv, Accounts, RestartKnowsAll
  <2> QED
    BY <2>1, <2>2, <2>3, BoundsAssumption DEF BoundsAssumption, NeverOverbought
<1> QED
  BY <1>1, Invariance, Undisturbed, PTL
=============================================================================
