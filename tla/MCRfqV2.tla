------------------------------- MODULE MCRfqV2 -------------------------------
EXTENDS RfqV2, TLC

CONSTANTS q1, q2, k1, k2, k3, k4, c1, c2, t1

\* Two confirms for each of two quotes
Twice == k1 :> q1 @@ k2 :> q1 @@ k3 :> q2 @@ k4 :> q2

\* Holdings are interchangeable, and so are the quotes with their confirms.
Same == q1 :> q1 @@ q2 :> q2 @@ k1 :> k1 @@ k2 :> k2 @@ k3 :> k3 @@ k4 :> k4
Swap == q1 :> q2 @@ q2 :> q1 @@ k1 :> k3 @@ k2 :> k4 @@ k3 :> k1 @@ k4 :> k2
Symmetry == {f @@ g : f \in Permutations(Cids), g \in {Same, Swap}}
=============================================================================
