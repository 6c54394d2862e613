----------------------------- MODULE MCJobQueue -----------------------------
(* Instances of JobQueue for TLC: a node with a general and the reserved    *)
(* worker, and a second node with one general worker.                       *)
EXTENDS JobQueue, TLC

CONSTANTS a, b, r, j1, j2, j3, k1, k2, k3

OneNode == (a :> "n1") @@ (r :> "n1")

TwoNodes == (a :> "n1") @@ (r :> "n1") @@ (b :> "n2")

JobSymmetry == Permutations(Ids) \cup Permutations(Keys)
=============================================================================
