----------------------------- MODULE QueueWorker -----------------------------
(***************************************************************************)
(* EmailQueueWorker::run of src/src/queue.rs over an InMemoryBackend: the   *)
(* poll loop, which sweeps, pops and spawns a task per job, and the tasks,  *)
(* which wait for one of `concurrency` permits before they send.            *)
(* InMemoryBackend says what each call does; this module says when it is    *)
(* made.  Its pop and sweep answer no error, so the loop's error branches   *)
(* are out of reach.                                                       *)
(***************************************************************************)
EXTENDS Integers, Sequences, FiniteSets, Functions

CONSTANTS
  Jobs, Workers, Idle, MaxRetries, MaxDepth, VisTimeout, BatchSize,
  DeadLetterQueue, DeadMaxLen, DeadTTL, RetryDelays,
  PanicsUntil, MaxClock,        \* as in InMemoryBackend
  Concurrency, JobTimeout, PollInterval

(* EmailQueueConfig::validate: run refuses any other configuration. *)
ValidConfig ==
  /\ JobTimeout \in Nat /\ VisTimeout \in Nat /\ VisTimeout > 2 * JobTimeout
  /\ BatchSize \in Nat \ {0} /\ Concurrency \in Nat \ {0}
  /\ DeadTTL \in Nat \ {0} /\ DeadMaxLen \in Nat \ {0}
  /\ PollInterval \in Nat

ASSUME QueueWorkerConfig == ValidConfig

VARIABLES
  clock, queue, processing, claimSeq, dead, processed, cutoff, held,
  submitted, claims, outcome,   \* as in InMemoryBackend
  loop,       \* per worker: where run is
  wake,       \* per worker: when its sleep is over
  lastSweep,  \* per worker: when it last swept
  sending,    \* per worker: token -> when its task got the permit
  shutdown,   \* the shutdown signal was sent
  panicked    \* history: tokens of the tasks that panicked

Backend == INSTANCE InMemoryBackend

ASSUME BackendConfig == Backend!InMemoryConfig

backend == <<clock, queue, processing, claimSeq, dead, processed, cutoff, held,
             submitted, claims, outcome>>
worker  == <<loop, wake, lastSweep, sending, shutdown, panicked>>
vars    == <<backend, worker>>

Sending(w) == {h \in held[w] : h.token \in DOMAIN sending[w]}
Waiting(w) == held[w] \ Sending(w)
Permits(w) == Concurrency - Cardinality(Sending(w))

-----------------------------------------------------------------------------
(* The poll loop.  Each turn looks at the shutdown signal, then at          *)
(* sweep_interval = max(visibility_timeout / 4, poll_interval), then pops.  *)

SweepDue(w) == LET elapsed == clock - lastSweep[w] IN
               \/ 4 * elapsed >= VisTimeout /\ elapsed >= PollInterval
               \/ clock = MaxClock   \* no interval outlasts the bound on the clock

Goto(w, step) == loop' = [loop EXCEPT ![w] = step]

StopPolling(w) ==
  /\ loop[w] = "top" /\ shutdown
  /\ Goto(w, "drain")
  /\ UNCHANGED <<backend, wake, lastSweep, sending, shutdown, panicked>>

StartSweep(w) ==
  /\ loop[w] = "top" /\ ~shutdown /\ SweepDue(w)
  /\ lastSweep' = [lastSweep EXCEPT ![w] = clock]
  /\ Goto(w, "sweep")
  /\ Backend!SweepBegin(w)
  /\ UNCHANGED <<wake, sending, shutdown, panicked>>

EndSweep(w) ==
  /\ loop[w] = "sweep"
  /\ Goto(w, "pop")
  /\ Backend!Sweep(w)
  /\ UNCHANGED <<wake, lastSweep, sending, shutdown, panicked>>

(* A pop that finds jobs goes straight to the next turn: the tasks it       *)
(* spawns wait for their permits elsewhere.                                 *)
Poll(w) ==
  /\ loop[w] = "pop" \/ (loop[w] = "top" /\ ~shutdown /\ ~SweepDue(w))
  /\ \/ /\ Backend!Taken # {}
        /\ Backend!Pop(w)
        /\ Goto(w, "top")
        /\ UNCHANGED wake
     \/ /\ Backend!Taken = {}
        /\ wake' = [wake EXCEPT ![w] = clock + PollInterval]
        /\ Goto(w, "sleep")
        /\ UNCHANGED backend
  /\ UNCHANGED <<lastSweep, sending, shutdown, panicked>>

(* No sleep outlasts the bound on the clock. *)
Wake(w) ==
  /\ loop[w] = "sleep" /\ (clock >= wake[w] \/ clock = MaxClock)
  /\ Goto(w, "top")
  /\ wake' = [wake EXCEPT ![w] = 0]
  /\ UNCHANGED <<backend, lastSweep, sending, shutdown, panicked>>

(* A bug: the tasks are dropped at shutdown. *)
DrainedAtOnce(w) ==
  /\ loop[w] = "drain"
  /\ Goto(w, "stopped")
  /\ held' = [held EXCEPT ![w] = {}]
  /\ UNCHANGED <<clock, queue, processing, claimSeq, dead, processed, cutoff,
                 submitted, claims, outcome, wake, lastSweep, sending, shutdown, panicked>>

(* join_next until no task is left *)
Drained(w) ==
  /\ loop[w] = "drain" /\ held[w] = {}
  /\ Goto(w, "stopped")
  /\ UNCHANGED <<backend, wake, lastSweep, sending, shutdown, panicked>>

-----------------------------------------------------------------------------
(* The tasks. *)

Acquire(w) ==
  /\ Permits(w) > 0
  /\ \E h \in Waiting(w) :
       sending' = [sending EXCEPT ![w] =
         [t \in DOMAIN @ \cup {h.token} |-> IF t = h.token THEN clock ELSE @[t]]]
  /\ UNCHANGED <<backend, loop, wake, lastSweep, shutdown, panicked>>

(* A bug: a task that ends keeps its permit. *)
PermitLeaks(w) == UNCHANGED sending

(* The task that just ended gives its permit back. *)
PermitBack(w) ==
  sending' = [sending EXCEPT ![w] = Restrict(@, {h.token : h \in held'[w] \cap Sending(w)})]

Ended(w) == held[w] \ held'[w]

Finish(w) ==
  /\ Backend!TaskDone(w)
  /\ Ended(w) \subseteq Sending(w)
  /\ PermitBack(w)
  /\ UNCHANGED <<loop, wake, lastSweep, shutdown, panicked>>

Panic(w) ==
  /\ Backend!TaskPanics(w)
  /\ Ended(w) \subseteq Sending(w)
  /\ PermitBack(w)
  /\ panicked' = panicked \cup {h.token : h \in Ended(w)}
  /\ UNCHANGED <<loop, wake, lastSweep, shutdown>>

-----------------------------------------------------------------------------
(* EmailQueue: enqueue, enqueue_batch and stats *)
Facade ==
  /\ \/ \E j \in Jobs : Backend!Push(j)
     \/ \E S \in SUBSET Jobs : Backend!PushBatch(S)
     \/ Backend!Stats
  /\ UNCHANGED worker

Shutdown ==
  /\ ~shutdown /\ shutdown' = TRUE
  /\ UNCHANGED <<backend, loop, wake, lastSweep, sending, panicked>>

(* A bug: the send is not bounded by job_timeout. *)
NoTimeout(w) == TRUE

(* job_timeout ends a send in time, and a free permit is taken at once. *)
Prompt(w) ==
  /\ \A t \in DOMAIN sending[w] : clock - sending[w][t] < JobTimeout
  /\ Waiting(w) = {} \/ Permits(w) = 0

Tick == (\A w \in Workers : Prompt(w)) /\ Backend!Tick /\ UNCHANGED worker

Init ==
  /\ Backend!Init
  /\ loop = [w \in Workers |-> "top"] /\ wake = [w \in Workers |-> 0]
  /\ lastSweep = [w \in Workers |-> 0]
  /\ sending = [w \in Workers |-> [t \in {} |-> 0]]
  /\ shutdown = FALSE /\ panicked = {}

Run(w)  == StopPolling(w) \/ StartSweep(w) \/ EndSweep(w) \/ Poll(w) \/ Wake(w) \/ Drained(w)
Task(w) == Acquire(w) \/ Finish(w) \/ Panic(w)

Next == \/ \E w \in Workers : Run(w) \/ Task(w)
        \/ Facade \/ Shutdown \/ Tick

Spec == Init /\ [][Next]_vars

(* The runtime polls every ready future: the loop, a task with a permit to  *)
(* be had, and, at job_timeout, a task that sends.                          *)
Fairness ==
  /\ WF_vars(Tick)
  /\ \A w \in Workers : WF_vars(Run(w)) /\ WF_vars(Acquire(w)) /\ WF_vars(Finish(w))

FairSpec == Spec /\ Fairness

-----------------------------------------------------------------------------
(* Properties. *)

(* At most concurrency tasks of a worker send, and only tasks of live jobs  *)
(* hold permits.                                                           *)
TypeOK ==
  /\ Backend!TypeOK
  /\ loop \in [Workers -> {"top", "sweep", "pop", "sleep", "drain", "stopped"}]
  /\ wake \in [Workers -> Nat] /\ lastSweep \in [Workers -> Nat]
  /\ \A w \in Workers : /\ DOMAIN sending[w] \subseteq {h.token : h \in held[w]}
                        /\ Cardinality(DOMAIN sending[w]) <= Concurrency
                        /\ \A t \in DOMAIN sending[w] : sending[w][t] \in Nat
  /\ shutdown \in BOOLEAN /\ panicked \subseteq Nat

(* A worker that stopped left behind no claim but those of tasks that       *)
(* panicked ("drain remaining in-flight jobs rather than abandoning them"). *)
StopAbandonsNothing ==
  (\A w \in Workers : loop[w] = "stopped") =>
    \A j \in DOMAIN processing : processing[j].token \in panicked

(* Only a long wait for a permit costs a sending task its claim: if it      *)
(* began to send within visibility_timeout - job_timeout of its claim, no   *)
(* sweep takes the job from under it.                                      *)
PromptSendsKeepClaim ==
  [][\A w \in Workers : \A h \in Sending(w) :
       Backend!Owned(h) /\ h \in held'[w] /\ ~Backend!Owned(h)' =>
         sending[w][h.token] + JobTimeout >= processing[h.id].at + VisTimeout]_vars

(* A shutdown signal stops every worker, with all its tasks finished.       *)
ShutdownStops == shutdown ~> \A w \in Workers : loop[w] = "stopped"

(* While the worker is not told to stop, every job the queue accepted ends: *)
(* the one loop that pops also sweeps, so no claim of a panicked task and   *)
(* no reclaim deferred at max_queue_depth waits for ever.                   *)
EventuallySettled ==
  \A j \in Jobs : submitted[j] = "queued" ~> Backend!Settled(j) \/ shutdown

(* validate: a job_timeout below half of visibility_timeout keeps a job     *)
(* from being "redelivered while its first attempt is still in flight".     *)
LiveClaimsKept == \A w \in Workers : \A h \in held[w] : Backend!Owned(h)
=============================================================================
