------------------------- MODULE MCInMemoryBackend -------------------------
(* Instances of InMemoryBackend small enough for TLC. *)
EXTENDS InMemoryBackend, TLC

CONSTANTS j1, j2, w1, w2

TwoJobs    == {j1, j2}
TwoWorkers == {w1, w2}
Delays     == {0, 1}

Symmetry == Permutations(Jobs) \cup Permutations(Workers)
=============================================================================
