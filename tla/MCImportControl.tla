--------------------------- MODULE MCImportControl ---------------------------
(* Instances of ImportControl for TLC.                                      *)
EXTENDS ImportControl, TLC

CONSTANTS w1, w2, r1, s1, s2, t1, t2

\* Sources are interchangeable, and so are tickets; workers are kept apart
\* only by what they do.
Symmetry == Permutations(Sources) \cup Permutations(Tickets) \cup Permutations(Workers)

\* A constraint: the sweep works on the first attempt.  With it at work, a
\* second one would take the state space out of reach.
SweepOnFirstAttempt == epoch = 0 \/ \A w \in Sweeps : pc[w] = "idle"
=============================================================================
