---------------------------- MODULE JobLifecycle ----------------------------
(***************************************************************************)
(* What the trait EmailQueueBackend of src/src/queue.rs promises of every   *)
(* job, whatever the backend: a job waits, is claimed by one pop, and the   *)
(* claim ends in one way.  Either the job ends for good, or it waits again  *)
(* and its delivery is charged against max_retries.  RedisBackend and       *)
(* InMemoryBackend are shown to implement it.                              *)
(***************************************************************************)
EXTENDS Naturals

CONSTANTS Jobs,
          MaxDeliveries   \* max_retries + 1

VARIABLES state,          \* state[j]: where the job is
          deliveries      \* deliveries[j]: how many pops returned it

Ends   == {"sent", "dead", "dropped", "lost"}
States == {"new", "waiting", "claimed"} \cup Ends

Stay(j)    == state'[j] = state[j] /\ deliveries'[j] = deliveries[j]

(* push, push_batch *)
Enqueue(j) == state[j] = "new" /\ state'[j] = "waiting" /\ deliveries'[j] = deliveries[j]

(* pop *)
Deliver(j) == /\ state[j] = "waiting" /\ deliveries[j] < MaxDeliveries
              /\ state'[j] = "claimed"
              /\ deliveries'[j] = deliveries[j] + 1

(* fail, reclaim_stale: another delivery must be left *)
Requeue(j) == /\ state[j] = "claimed" /\ deliveries[j] < MaxDeliveries
              /\ state'[j] = "waiting" /\ deliveries'[j] = deliveries[j]

(* complete, dead_letter, discard, reclaim_stale; or the body was gone *)
Finish(j)  == /\ state[j] = "claimed"
              /\ state'[j] \in Ends /\ deliveries'[j] = deliveries[j]

Init == state = [j \in Jobs |-> "new"] /\ deliveries = [j \in Jobs |-> 0]

(* A call may move several jobs, each along its own life. *)
Next == \A j \in Jobs : Stay(j) \/ Enqueue(j) \/ Deliver(j) \/ Requeue(j) \/ Finish(j)

Spec == Init /\ [][Next]_<<state, deliveries>>
=============================================================================
