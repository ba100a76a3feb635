---------------------------- MODULE MCSettlement ----------------------------
EXTENDS Settlement, TLC
CONSTANTS p1, p2

\* Two interchangeable proposals, so permuting them changes nothing.
Symmetry == Permutations(Proposals)

\* Without a crash nobody reads the state file again once a session has loaded
\* it, and nothing but NeverCancelsAllocated reads what was cancelled: states
\* that differ in those alone go on alike.
View == <<serverVars, trackerVars, liquidityVars, active, stage, retries, task,
          completed, rejected, shutting, v2only, restarts>>
=============================================================================
