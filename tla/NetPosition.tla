---------------------------- MODULE NetPosition ----------------------------
(* The decayed net flow that quotes are priced by                            *)
(* (agent-logic/src/net_position.rs), of one counterparty and of the desk, in *)
(* one token.  A tick of the clock halves every value; values are counted in  *)
(* units of which a base quantity of one has 2^Horizon, so that no halving    *)
(* rounds.                                                                   *)
EXTENDS Integers, FiniteSets, FiniteSetsExt

CONSTANTS
    NetQuotes,        \* the quotes of one process and the next
    PartyLess,        \* those whose counterparty is not known
    Deltas,           \* signed base quantities a quote may have, + where the user buys
    Horizon,          \* bound on the clock
    WindowAge,        \* age at which a saved aggregate is past the decay window
    StaleAfter,       \* stale_pending_after
    CheckpointEvery,  \* CHECKPOINT_EVERY
    Epsilon,          \* EPSILON_BASE
    MaxWrites,        \* bound on checkpoints handed to the blocking pool
    MaxLives          \* bound on restarts

ASSUME NetAssumption ==
    /\ PartyLess \subseteq NetQuotes /\ Deltas \subseteq Int \ {0}
    /\ {Horizon, WindowAge, StaleAfter, Epsilon, MaxWrites, MaxLives} \subseteq Nat
    /\ CheckpointEvery \in Nat \ {0}

Keys == {"party", "desk"}
Absent == [value |-> 0, at |-> -1]

VARIABLES
    deltaOf,      \* the quantity of each quote
    clock,
    life,         \* "up", "saving" (save took its snapshot), "saved" or "down"
    nets,         \* nets and desk: value as of the time it was last rebased
    pending,      \* quote -> time of its confirm, for the pending ones
    dirty, lastCheckpoint,
    writing,      \* snapshots on their way to the file
    onDisk,         \* the state file, or what save is about to write to it
    lives,
    counted       \* what the aggregates stand for: key -> (quote -> confirm time)

netVars == <<deltaOf, clock, life, nets, pending, dirty, lastCheckpoint, writing, onDisk, lives, counted>>

Nothing == [q \in {} |-> 0]
Empty == [nets |-> [k \in Keys |-> Absent], pending |-> Nothing, counted |-> [k \in Keys |-> Nothing]]
Snapshot == [nets |-> nets, pending |-> pending, counted |-> counted]

NetInit ==
    /\ deltaOf \in [NetQuotes -> Deltas]
    /\ clock = 0 /\ life = "up" /\ nets = Empty.nets /\ pending = Nothing /\ dirty = FALSE
    /\ lastCheckpoint = 0 /\ writing = {} /\ onDisk = Empty /\ lives = 0 /\ counted = Empty.counted

\* decay
Decayed(v, from) == v \div 2 ^ (clock - from)
ReadEntry(n, k) == IF n[k] = Absent THEN 0 ELSE Decayed(n[k].value, n[k].at)
KeysOf(q) == IF q \in PartyLess THEN {"desk"} ELSE Keys

Magnitude(v) == IF v < 0 THEN -v ELSE v
Entry(v) == IF Magnitude(v) <= Epsilon THEN Absent ELSE [value |-> v, at |-> clock]

\* apply_delta_locked: decay what is there to now, add, restamp.
Rebase(n, k, v) == [n EXCEPT ![k] = Entry(ReadEntry(n, k) + v)]
ApplyDelta(n, q) ==
    [k \in Keys |-> IF k \in KeysOf(q) THEN Rebase(n, k, deltaOf[q] * 2 ^ Horizon)[k] ELSE n[k]]

\* reverse_pending_locked: take the delta back as it now stands.  With mode
\* AfterPrune an absent aggregate stays absent.
Remaining(q, from) == Decayed(deltaOf[q] * 2 ^ Horizon, from)
ReversePending(n, q, from, live) ==
    [k \in Keys |-> IF k \in KeysOf(q) /\ (live \/ n[k] # Absent) THEN Rebase(n, k, -Remaining(q, from))[k] ELSE n[k]]

ReverseAll(n, from, S, live) == FoldSet(LAMBDA q, acc : ReversePending(acc, q, from[q], live), n, S)

Without(f, S) == [q \in DOMAIN f \ S |-> f[q]]
Uncounted(c, S) == [k \in Keys |-> Without(c[k], S)]
Running == life = "up"

\* check_and_record, once accept has passed: not counted while already pending.
CheckAndRecord(q) ==
    /\ Running /\ q \notin DOMAIN pending
    /\ \A k \in Keys : q \notin DOMAIN counted[k]       \* a quote identifier is used once
    /\ pending' = [p \in DOMAIN pending \cup {q} |-> IF p = q THEN clock ELSE pending[p]]
    /\ nets' = ApplyDelta(nets, q) /\ dirty' = TRUE
    /\ counted' = [k \in Keys |-> IF k \in KeysOf(q)
                                  THEN [p \in DOMAIN counted[k] \cup {q} |-> IF p = q THEN clock ELSE counted[k][p]]
                                  ELSE counted[k]]
    /\ UNCHANGED <<deltaOf, clock, life, lastCheckpoint, writing, onDisk, lives>>

\* settle: the value stays, the marker goes.
Settle(q) ==
    /\ Running /\ q \in DOMAIN pending
    /\ pending' = Without(pending, {q}) /\ dirty' = TRUE
    /\ UNCHANGED <<deltaOf, clock, life, nets, lastCheckpoint, writing, onDisk, lives, counted>>

\* Reversals while the process runs recreate an aggregate that was offset to zero.
ReverseSet(S) ==
    /\ nets' = ReverseAll(nets, pending, S, TRUE) /\ pending' = Without(pending, S)
    /\ counted' = Uncounted(counted, S) /\ dirty' = TRUE
    /\ UNCHANGED <<deltaOf, clock, life, lastCheckpoint, writing, onDisk, lives>>

Release(q) == Running /\ q \in DOMAIN pending /\ ReverseSet({q})

ExpireStalePending ==
    /\ Running
    /\ LET stale == {q \in DOMAIN pending : pending[q] < clock - StaleAfter}
       IN  stale # {} /\ ReverseSet(stale)

\* sweep_decayed
Swept == [k \in Keys |-> IF Magnitude(ReadEntry(nets, k)) <= Epsilon THEN Absent ELSE nets[k]]

\* checkpoint_if_dirty: the snapshot is taken under the lock and written later, on
\* the blocking pool.
CheckpointIfDirty ==
    /\ Running /\ nets' = Swept
    /\ IF (dirty \/ Swept # nets) /\ clock - lastCheckpoint >= CheckpointEvery
       THEN /\ Cardinality(writing) < MaxWrites
            /\ dirty' = FALSE /\ lastCheckpoint' = clock /\ writing' = writing \cup {[Snapshot EXCEPT !.nets = Swept]}
       ELSE dirty' = (dirty \/ Swept # nets) /\ UNCHANGED <<lastCheckpoint, writing>>
    /\ UNCHANGED <<deltaOf, clock, life, pending, onDisk, lives, counted>>

\* Mutant: a checkpoint that was on its way lands after the shutdown's save.
WriteAnyway(s) ==
    /\ s \in writing /\ writing' = writing \ {s} /\ onDisk' = s
    /\ UNCHANGED <<deltaOf, clock, life, nets, pending, dirty, lastCheckpoint, lives, counted>>

\* The write takes the write lock, finds the final state saved, or writes; one that
\* fails leaves the state dirty.
WriteSnapshot(s) ==
    /\ s \in writing /\ writing' = writing \ {s}
    /\ \/ onDisk' = (IF life = "saved" THEN onDisk ELSE s) /\ dirty' = dirty
       \/ life # "saved" /\ onDisk' = onDisk /\ dirty' = TRUE
    /\ UNCHANGED <<deltaOf, clock, life, nets, pending, lastCheckpoint, lives, counted>>

\* save, at a graceful shutdown, after every task has ended: the snapshot, then the
\* write lock, the mark and the file.
Save == /\ Running /\ life' = "saving" /\ dirty' = FALSE
        /\ UNCHANGED <<deltaOf, clock, nets, pending, lastCheckpoint, writing, onDisk, lives, counted>>
SaveWrite == /\ life = "saving" /\ life' = "saved" /\ onDisk' = Snapshot
             /\ UNCHANGED <<deltaOf, clock, nets, pending, dirty, lastCheckpoint, writing, lives, counted>>

\* The process ends after its save, or anywhere before it.  What a crash had not
\* written is not what the next process answers for.
Exit == /\ life # "down" /\ life' = "down" /\ lives < MaxLives
        /\ counted' = IF life = "saved" THEN counted ELSE onDisk.counted
        /\ writing' = {} /\ nets' = Empty.nets /\ pending' = Nothing /\ dirty' = FALSE /\ lastCheckpoint' = 0
        /\ UNCHANGED <<deltaOf, clock, onDisk, lives>>

\* load_or_new: what is past the window goes, unless a pending quote may still need
\* it; what was pending for too long is reversed.
MaxAge == IF WindowAge > StaleAfter THEN WindowAge ELSE StaleAfter
Kept(k) == onDisk.nets[k] # Absent /\ clock - onDisk.nets[k].at <= MaxAge
DeadPending == {q \in DOMAIN onDisk.pending : clock - onDisk.pending[q] > StaleAfter}
LoadOrNew ==
    /\ life = "down" /\ life' = "up" /\ lives' = lives + 1
    /\ LET pruned == [k \in Keys |-> IF Kept(k) THEN onDisk.nets[k] ELSE Absent]
       IN  nets' = ReverseAll(pruned, onDisk.pending, DeadPending, FALSE)
    /\ pending' = Without(onDisk.pending, DeadPending)
    /\ dirty' = (\E q \in DeadPending : \E k \in KeysOf(q) : Kept(k)) /\ lastCheckpoint' = clock
    /\ counted' = [k \in Keys |-> IF Kept(k) \/ onDisk.nets[k] = Absent THEN Without(counted[k], DeadPending) ELSE Nothing]
    /\ UNCHANGED <<deltaOf, clock, writing, onDisk>>

Tick == clock < Horizon /\ clock' = clock + 1
        /\ UNCHANGED <<deltaOf, life, nets, pending, dirty, lastCheckpoint, writing, onDisk, lives, counted>>

NetNext ==
    \/ \E q \in NetQuotes : CheckAndRecord(q) \/ Settle(q) \/ Release(q)
    \/ ExpireStalePending \/ CheckpointIfDirty \/ (\E s \in writing : WriteSnapshot(s))
    \/ Save \/ SaveWrite \/ Exit \/ LoadOrNew \/ Tick

----------------------------------------------------------------------------

OneSided == (\A q \in NetQuotes : deltaOf[q] > 0) \/ (\A q \in NetQuotes : deltaOf[q] < 0)
StandsFor(k) == MapThenSumSet(LAMBDA q : Remaining(q, counted[k][q]), DOMAIN counted[k])

\* What net and desk_net read is the sum of the deltas that were counted and not
\* reversed, each as it stands after decay, to within what sweeping rounds off:
\* through offsets to zero, reversals of any age, a shutdown whose checkpoint is
\* still on its way, a crash and a reload that prunes and reverses.  A reload finds
\* no aggregate for flows that offset each other, so there it holds of a desk that
\* trades one way.
NetFollowsQuotes ==
    Running /\ (lives = 0 \/ OneSided) =>
        \A k \in Keys : Magnitude(ReadEntry(nets, k) - StandsFor(k)) <= 2 * Epsilon

=============================================================================
