--------------------------- MODULE MCQueueWorker ---------------------------
(* Instances of QueueWorker small enough for TLC. *)
EXTENDS QueueWorker

CONSTANTS j1, j2, j3, w1, w2

TwoJobs   == {j1, j2}
ThreeJobs == {j1, j2, j3}
OneWorker == {w1}
NoDelay   == {0}
=============================================================================
