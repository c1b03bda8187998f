--------------------------- MODULE MCRedisBackend ---------------------------
(* Instances of RedisBackend small enough for TLC. *)
EXTENDS RedisBackend, TLC

CONSTANTS j1, j2, c1, c2

OneJob     == {j1}
TwoJobs    == {j1, j2}
OneClient  == {c1}
TwoClients == {c1, c2}
None       == {}
NoDelay    == {0}
Delays     == {0, 1}
EqualPriority == [j \in Jobs |-> 5]

Symmetry == Permutations(Jobs) \cup Permutations(Clients)
=============================================================================
