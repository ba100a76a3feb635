-------------------------- MODULE MCHoldingsCache ---------------------------
(* Small instances of the holdings cache and its writers, of the denomination *)
(* ladder that counts on it, and of the commands that split without it: each  *)
(* initial state runs one of them while the others stand still.               *)
EXTENDS HoldingsCache, Ladder, SplitTool, TLC

CONSTANTS c1, c2, pay, split, quote, tick, kick

VARIABLE part     \* what runs

MCRank == c1 :> 1 @@ c2 :> 2
MCKind == pay :> "payment" @@ split :> "split" @@ quote :> "quote"

\* A ladder of one rung, a holding that pays for it twice, and dust; and the ladders the
\* split commands make of a purse that is ample, just enough or too little.
MCDenominations == <<<<2, 2>>>>
MCOpening == <<11, 1>>
MCWanted == <<<<2, 3>>, <<4, 1>>>>
MCPurses == {<<20>>, <<7, 6>>, <<9, 3, 2>>}
MCSymmetry == Permutations(Callers)

AllInit ==
    /\ part \in {"cache", "ladder", "tool"}
    /\ Init /\ (part # "cache" => phase[quote] = "idle" /\ phase[pay] = "idle")
    /\ LadderInit
    /\ ToolInit /\ (part # "tool" => onlyDeficit /\ isCc /\ DOMAIN purse = {1})

AllNext ==
    \/ part = "cache" /\ Next /\ UNCHANGED <<ladderVars, toolVars, part>>
    \/ part = "ladder" /\ LadderNext /\ UNCHANGED <<vars, toolVars, part>>
    \/ part = "tool" /\ ToolNext /\ UNCHANGED <<vars, ladderVars, part>>

AllSpec == AllInit /\ [][AllNext]_<<vars, ladderVars, toolVars, part>>
=============================================================================
