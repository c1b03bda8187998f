-------------------------- MODULE QueueWorkerProofs --------------------------
(* What holds of QueueWorker for every number of jobs, workers and permits, *)
(* and every valid configuration.  Its steps are steps of InMemoryBackend,  *)
(* so what InMemoryProofs proves of that module is at hand.                 *)
EXTENDS QueueWorker, TLAPS, FiniteSetTheorems

Proved == INSTANCE InMemoryProofs

-----------------------------------------------------------------------------
(* The actions this module takes of InMemoryBackend are those the lemmas of *)
(* InMemoryProofs are about.                                               *)

LEMMA Configured == Proved!InMemoryConfig
BY BackendConfig DEF Proved!InMemoryConfig, Proved!IsFiniteSet, Backend!InMemoryConfig, Backend!IsFiniteSet

LEMMA SamePush ==
  ASSUME NEW j
  PROVE  Backend!Push(j) <=> Proved!Push(j)
BY DEF Backend!Push, Proved!Push, Backend!Enqueued, Proved!Enqueued, Backend!local, Proved!local

LEMMA SamePushBatch ==
  ASSUME NEW S
  PROVE  Backend!PushBatch(S) <=> Proved!PushBatch(S)
BY DEF Backend!PushBatch, Proved!PushBatch, Backend!Enqueued, Proved!Enqueued, Backend!local,
         Proved!local, Backend!Orders, Proved!Orders, Backend!Bijection, Proved!Bijection,
         Backend!Injection, Proved!Injection, Backend!Surjection, Proved!Surjection,
         Backend!IsInjective, Proved!IsInjective, Backend!Cardinality, Proved!Cardinality,
         Backend!IsFiniteSet, Proved!IsFiniteSet

LEMMA SameTaken ==
  Backend!Taken = Proved!Taken
BY DEF Backend!Taken, Proved!Taken, Backend!Due, Proved!Due, Backend!Cardinality,
         Proved!Cardinality, Backend!IsFiniteSet, Proved!IsFiniteSet

LEMMA SamePop ==
  ASSUME NEW w
  PROVE  Backend!Pop(w) <=> Proved!Pop(w)
BY DEF Backend!Pop, Proved!Pop, Backend!Taken, Proved!Taken, Backend!Due, Proved!Due,
         Backend!Token, Proved!Token, Backend!TokensMinted, Proved!TokensMinted, Backend!Kept,
         Proved!Kept, Backend!Orders, Proved!Orders, Backend!Bijection, Proved!Bijection,
         Backend!Injection, Proved!Injection, Backend!Surjection, Proved!Surjection,
         Backend!IsInjective, Proved!IsInjective, Backend!Cardinality, Proved!Cardinality,
         Backend!IsFiniteSet, Proved!IsFiniteSet

LEMMA SameTaskDone ==
  ASSUME NEW w
  PROVE  Backend!TaskDone(w) <=> Proved!TaskDone(w)
BY DEF Backend!TaskDone, Proved!TaskDone, Backend!Complete, Proved!Complete, Backend!Fail,
         Proved!Fail, Backend!DeadLetter, Proved!DeadLetter, Backend!Discard, Proved!Discard,
         Backend!ShouldRetry, Proved!ShouldRetry, Backend!Stale, Proved!Stale, Backend!Owned,
         Proved!Owned, Backend!Unclaim, Proved!Unclaim, Backend!Restrict, Proved!Restrict,
         Backend!End, Proved!End, Backend!PushDead, Proved!PushDead, Backend!Unexpired,
         Proved!Unexpired, Backend!LastOf, Proved!LastOf, Backend!Cardinality, Proved!Cardinality,
         Backend!IsFiniteSet, Proved!IsFiniteSet

LEMMA SameSweep ==
  ASSUME NEW w
  PROVE  Backend!Sweep(w) <=> Proved!Sweep(w)
BY DEF Backend!Sweep, Proved!Sweep, Backend!OldestFirst, Proved!OldestFirst, Backend!Spent,
         Proved!Spent, Backend!ShouldRetry, Proved!ShouldRetry, Backend!Room, Proved!Room,
         Backend!Kept, Proved!Kept, Backend!Unclaim, Proved!Unclaim, Backend!Restrict,
         Proved!Restrict, Backend!Range, Proved!Range, Backend!End, Proved!End, Backend!Orders,
         Proved!Orders, Backend!Bijection, Proved!Bijection, Backend!Injection, Proved!Injection,
         Backend!Surjection, Proved!Surjection, Backend!IsInjective, Proved!IsInjective,
         Backend!PushDead, Proved!PushDead, Backend!Unexpired, Proved!Unexpired, Backend!LastOf,
         Proved!LastOf, Backend!Cardinality, Proved!Cardinality, Backend!IsFiniteSet,
         Proved!IsFiniteSet

LEMMA SameRest ==
  ASSUME NEW w
  PROVE  /\ Backend!SweepBegin(w) <=> Proved!SweepBegin(w)
         /\ Backend!TaskPanics(w) <=> Proved!TaskPanics(w)
         /\ Backend!Stats <=> Proved!Stats
         /\ Backend!Tick <=> Proved!Tick
BY DEF Backend!SweepBegin, Proved!SweepBegin, Backend!TaskPanics, Proved!TaskPanics,
         Backend!Stats, Proved!Stats, Backend!Tick, Proved!Tick, Backend!state, Proved!state,
         Backend!local, Proved!local, Backend!history, Proved!history, Backend!Unexpired,
         Proved!Unexpired, Backend!Cardinality, Proved!Cardinality, Backend!IsFiniteSet,
         Proved!IsFiniteSet

LEMMA SameState ==
  /\ Backend!Init <=> Proved!Init
  /\ Backend!TypeOK <=> Proved!TypeOK
  /\ \A h : Backend!Owned(h) <=> Proved!Owned(h)
BY DEF Backend!Init, Proved!Init, Backend!TypeOK, Proved!TypeOK, Backend!Waiting, Proved!Waiting,
         Backend!Claim, Proved!Claim, Backend!Held, Proved!Held, Backend!Owned, Proved!Owned

LEMMA SameSets ==
  \A S : /\ Proved!IsFiniteSet(S) <=> IsFiniteSet(S)
         /\ Proved!Cardinality(S) = Cardinality(S)
BY DEF Proved!IsFiniteSet, Proved!Cardinality, IsFiniteSet, Cardinality

-----------------------------------------------------------------------------
(* The inductive invariant: what each worker's tasks hold. *)

(* The tasks hold different tokens. *)
HoldInv ==
  /\ DOMAIN sending = Workers
  /\ \A w \in Workers : IsFiniteSet(held[w])
  /\ \A v, w \in Workers : \A g \in held[v], h \in held[w] :
       g.token = h.token => v = w /\ g = h

StopInv == \A w \in Workers : loop[w] = "stopped" => held[w] = {}

(* Every claim has its task, unless that panicked. *)
ClaimInv ==
  \A j \in DOMAIN processing :
    \/ processing[j].token \in panicked
    \/ \E w \in Workers : \E h \in held[w] : h.id = j /\ h.token = processing[j].token

(* A sweep spares what was claimed within visibility_timeout of its start,  *)
(* and no send outlasts job_timeout.                                       *)
TimeInv ==
  /\ \A w \in Workers : cutoff[w] # Idle => cutoff[w] + VisTimeout <= clock
  /\ \A w \in Workers : \A t \in DOMAIN sending[w] : clock <= sending[w][t] + JobTimeout

Inv == Proved!Inv /\ TypeOK /\ HoldInv /\ StopInv /\ ClaimInv /\ TimeInv

-----------------------------------------------------------------------------
(* The steps, by what they do to the claims and to the tasks that hold them. *)

Idles == UNCHANGED <<clock, processing, held, cutoff, sending, panicked>>

Begins(w) ==
  /\ cutoff' = [cutoff EXCEPT ![w] = clock - VisTimeout]
  /\ UNCHANGED <<clock, processing, held, sending, panicked>>

Reclaims(w) ==
  /\ cutoff[w] # Idle /\ cutoff' = [cutoff EXCEPT ![w] = Idle]
  /\ DOMAIN processing' \subseteq DOMAIN processing
  /\ \A j \in DOMAIN processing' : processing'[j] = processing[j]
  /\ \A j \in DOMAIN processing \ DOMAIN processing' : processing[j].at <= cutoff[w]
  /\ UNCHANGED <<clock, held, sending, panicked>>

Pops(w) == Proved!Pop(w) /\ UNCHANGED <<sending, panicked>>

(* The task of h ends: its claim, if it owns it, goes unless it panicked. *)
Ends(w, h) ==
  /\ h \in Sending(w) /\ held' = [held EXCEPT ![w] = held[w] \ {h}]
  /\ sending' = [sending EXCEPT ![w] = Restrict(sending[w], {g.token : g \in Sending(w) \ {h}})]
  /\ \/ /\ panicked' = panicked
        /\ DOMAIN processing' = DOMAIN processing \ (IF Proved!Owned(h) THEN {h.id} ELSE {})
     \/ /\ panicked' = panicked \cup {h.token}
        /\ DOMAIN processing' = DOMAIN processing
  /\ \A j \in DOMAIN processing' : processing'[j] = processing[j]
  /\ UNCHANGED <<clock, cutoff>>

Ticks ==
  /\ \A w \in Workers : Prompt(w)
  /\ clock' = clock + 1 /\ UNCHANGED <<processing, held, cutoff, sending, panicked>>

Effect ==
  \/ Idles \/ Ticks
  \/ \E w \in Workers : Begins(w) \/ Reclaims(w) \/ Pops(w) \/ Acquire(w)
  \/ \E w \in Workers : \E h \in held[w] : Ends(w, h)

LEMMA ReclaimFacts ==
  ASSUME Proved!TypeOK, NEW w \in Workers, Proved!Sweep(w), UNCHANGED <<sending, panicked>>
  PROVE  Reclaims(w)
<1>1. PICK over, back : Proved!SweepsTo(w, over, back)
  BY Configured, Proved!SweepFacts
<1>2. /\ cutoff[w] # Idle /\ cutoff' = [cutoff EXCEPT ![w] = Idle] /\ UNCHANGED <<clock, held>>
      /\ Proved!Unclaim(Proved!Range(over) \cup Proved!Range(back))
      /\ over \in Seq(Proved!StaleJobs(w)) /\ back \in Seq(Proved!StaleJobs(w))
  BY <1>1 DEF Proved!SweepsTo, Proved!Divides
<1>3. /\ DOMAIN processing' = DOMAIN processing \ (Proved!Range(over) \cup Proved!Range(back))
      /\ \A j \in DOMAIN processing' : processing'[j] = processing[j]
  BY <1>2, Configured, Proved!UnclaimFacts
<1>4. \A j \in Proved!Range(over) \cup Proved!Range(back) : processing[j].at <= cutoff[w]
  <2>1. \A j \in Proved!Range(over) \cup Proved!Range(back) : j \in Proved!StaleJobs(w)
    BY <1>2 DEF Proved!Range
  <2> QED BY <2>1 DEF Proved!StaleJobs
<1> QED BY <1>2, <1>3, <1>4 DEF Reclaims

LEMMA PermitFacts ==
  ASSUME Proved!TypeOK, NEW w \in Workers, NEW h \in held[w],
         held' = [held EXCEPT ![w] = held[w] \ {h}], Ended(w) \subseteq Sending(w), PermitBack(w)
  PROVE  /\ h \in Sending(w) /\ Ended(w) = {h}
         /\ sending' = [sending EXCEPT ![w] = Restrict(sending[w], {g.token : g \in Sending(w) \ {h}})]
<1>1. held'[w] = held[w] \ {h}
  BY DEF Proved!TypeOK
<1>2. Ended(w) = {h} /\ held'[w] \cap Sending(w) = Sending(w) \ {h}
  BY <1>1 DEF Ended, Sending
<1>3. sending' = [sending EXCEPT ![w] = Restrict(sending[w], {g.token : g \in held'[w] \cap Sending(w)})]
  BY DEF PermitBack
<1> QED BY <1>2, <1>3

LEMMA FinishFacts ==
  ASSUME Proved!TypeOK, NEW w \in Workers, Finish(w)
  PROVE  \E h \in held[w] : Ends(w, h)
<1>1. PICK h \in held[w] : Proved!Finishes(w, h)
  BY Configured, SameTaskDone, Proved!TaskDoneFacts DEF Finish
<1>2. held' = [held EXCEPT ![w] = held[w] \ {h}] /\ UNCHANGED <<clock, cutoff>>
  BY <1>1 DEF Proved!Finishes
<1>3. Ended(w) \subseteq Sending(w) /\ PermitBack(w) /\ panicked' = panicked
  BY DEF Finish
<1>4. /\ h \in Sending(w)
      /\ sending' = [sending EXCEPT ![w] = Restrict(sending[w], {g.token : g \in Sending(w) \ {h}})]
  BY <1>2, <1>3, PermitFacts
<1>5. CASE ~Proved!Owned(h) /\ UNCHANGED processing
  BY <1>2, <1>3, <1>4, <1>5 DEF Ends
<1>6. CASE Proved!Owned(h) /\ Proved!Unclaim({h.id})
  <2>1. /\ DOMAIN processing' = DOMAIN processing \ {h.id}
        /\ \A j \in DOMAIN processing' : processing'[j] = processing[j]
    BY <1>6, Configured, Proved!UnclaimFacts
  <2> QED BY <1>2, <1>3, <1>4, <1>6, <2>1 DEF Ends
<1> QED BY <1>1, <1>5, <1>6 DEF Proved!Finishes, Proved!Releases

LEMMA PanicFacts ==
  ASSUME Proved!TypeOK, NEW w \in Workers, Panic(w)
  PROVE  \E h \in held[w] : Ends(w, h)
<1>1. PICK h \in held[w] : held' = [held EXCEPT ![w] = held[w] \ {h}]
  BY DEF Panic, Backend!TaskPanics
<1>2. UNCHANGED <<clock, cutoff, processing>>
  BY DEF Panic, Backend!TaskPanics, Backend!state
<1>3. /\ Ended(w) \subseteq Sending(w) /\ PermitBack(w)
      /\ panicked' = panicked \cup {g.token : g \in Ended(w)}
  BY DEF Panic
<1>4. /\ h \in Sending(w) /\ Ended(w) = {h}
      /\ sending' = [sending EXCEPT ![w] = Restrict(sending[w], {g.token : g \in Sending(w) \ {h}})]
  BY <1>1, <1>3, PermitFacts
<1>5. panicked' = panicked \cup {h.token}
  BY <1>3, <1>4
<1> QED BY <1>1, <1>2, <1>4, <1>5 DEF Ends

LEMMA StepEffect ==
  ASSUME Proved!TypeOK, [Next]_vars
  PROVE  Effect
<1>1. ASSUME NEW w \in Workers, Run(w) PROVE Effect
  <2>1. CASE StopPolling(w) \/ Wake(w) \/ Drained(w)
    BY <2>1 DEF StopPolling, Wake, Drained, backend, Effect, Idles
  <2>2. CASE StartSweep(w)
    BY <2>2 DEF StartSweep, Backend!SweepBegin, Backend!state, Effect, Begins
  <2>3. CASE EndSweep(w)
    BY <2>3, SameSweep, ReclaimFacts DEF EndSweep, Effect
  <2>4. CASE Poll(w)
    <3>1. CASE Backend!Pop(w)
      BY <2>4, <3>1, SamePop DEF Poll, Effect, Pops
    <3>2. CASE UNCHANGED backend
      BY <2>4, <3>2 DEF Poll, backend, Effect, Idles
    <3> QED BY <2>4, <3>1, <3>2 DEF Poll
  <2> QED BY <1>1, <2>1, <2>2, <2>3, <2>4 DEF Run
<1>2. ASSUME NEW w \in Workers, Task(w) PROVE Effect
  BY <1>2, FinishFacts, PanicFacts DEF Task, Effect
<1>3. CASE Facade
  BY <1>3 DEF Facade, Backend!Push, Backend!PushBatch, Backend!Stats, Backend!local, worker,
              Effect, Idles
<1>4. CASE Shutdown
  BY <1>4 DEF Shutdown, backend, Effect, Idles
<1>5. CASE Tick
  BY <1>5 DEF Tick, Backend!Tick, Backend!state, Backend!local, worker, Effect, Ticks
<1>6. CASE UNCHANGED vars
  BY <1>6 DEF vars, backend, worker, Effect, Idles
<1> QED BY <1>1, <1>2, <1>3, <1>4, <1>5, <1>6 DEF Next

(* Only a worker without a task stops, and a worker that stopped takes no job. *)
LEMMA LoopStep ==
  ASSUME TypeOK, Proved!TypeOK, [Next]_vars, NEW v \in Workers, loop'[v] = "stopped"
  PROVE  held'[v] \subseteq held[v] /\ (loop[v] = "stopped" \/ held[v] = {})
<1>0. loop \in [Workers -> {"top", "sweep", "pop", "sleep", "drain", "stopped"}]
      /\ held \in [Workers -> SUBSET Proved!Held]
  BY DEF TypeOK, Proved!TypeOK
<1>1. ASSUME NEW w \in Workers, Run(w)
      PROVE  held'[v] \subseteq held[v] /\ (loop[v] = "stopped" \/ held[v] = {})
  <2>1. CASE StopPolling(w) \/ Wake(w) \/ Drained(w)
    BY <1>0, <2>1 DEF StopPolling, Wake, Drained, Goto, backend
  <2>2. CASE StartSweep(w)
    BY <1>0, <2>2 DEF StartSweep, Goto, Backend!SweepBegin
  <2>3. CASE EndSweep(w)
    BY <1>0, <2>3 DEF EndSweep, Goto, Backend!Sweep
  <2>4. CASE Poll(w)
    <3>1. CASE Backend!Pop(w) /\ Goto(w, "top")
      <4>1. v # w /\ loop[v] = "stopped"
        BY <1>0, <3>1 DEF Goto
      <4>2. held'[v] = held[v]
        BY <1>0, <3>1, <4>1, SamePop, Configured, Proved!PopFacts
      <4> QED BY <4>1, <4>2
    <3>2. CASE UNCHANGED backend /\ Goto(w, "sleep")
      BY <1>0, <3>2 DEF Goto, backend
    <3> QED BY <2>4, <3>1, <3>2 DEF Poll
  <2> QED BY <1>1, <2>1, <2>2, <2>3, <2>4 DEF Run
<1>2. ASSUME NEW w \in Workers, Task(w)
      PROVE  held'[v] \subseteq held[v] /\ (loop[v] = "stopped" \/ held[v] = {})
  <2>1. UNCHANGED loop
    BY <1>2 DEF Task, Acquire, Finish, Panic
  <2>2. CASE Acquire(w)
    BY <2>1, <2>2 DEF Acquire, backend
  <2>3. CASE \E h \in held[w] : Ends(w, h)
    BY <1>0, <2>1, <2>3 DEF Ends
  <2> QED BY <1>2, <2>1, <2>2, <2>3, FinishFacts, PanicFacts DEF Task
<1>3. CASE Facade \/ Shutdown \/ Tick \/ UNCHANGED vars
  BY <1>3 DEF Facade, Backend!Push, Backend!PushBatch, Backend!Stats, Backend!local, worker,
              Shutdown, Tick, Backend!Tick, Backend!state, vars, backend
<1> QED BY <1>1, <1>2, <1>3 DEF Next

-----------------------------------------------------------------------------
(* Every step is a step of the backend, or none of its business. *)

LEMMA BackendStep ==
  ASSUME [Next]_vars
  PROVE  /\ [Backend!Next]_Backend!vars
         /\ [Proved!Next]_Proved!vars
<1>1. CASE UNCHANGED backend
  BY <1>1 DEF backend, Backend!vars, Backend!state, Backend!local, Backend!history,
              Proved!vars, Proved!state, Proved!local, Proved!history
<1>2. ASSUME NEW w \in Workers,
             \/ Backend!Pop(w) \/ Backend!SweepBegin(w) \/ Backend!Sweep(w)
             \/ Backend!TaskDone(w) \/ Backend!TaskPanics(w)
      PROVE  Backend!Next /\ Proved!Next
  <2>1. Backend!Next
    BY <1>2 DEF Backend!Next, Backend!Worker
  <2>2. \/ Proved!Pop(w) \/ Proved!SweepBegin(w) \/ Proved!Sweep(w)
        \/ Proved!TaskDone(w) \/ Proved!TaskPanics(w)
    BY <1>2, SamePop, SameSweep, SameTaskDone, SameRest
  <2>3. Proved!Next
    BY <2>2 DEF Proved!Next, Proved!Worker
  <2> QED BY <2>1, <2>3
<1>3. CASE Facade
  <2>1. Backend!Next
    BY <1>3 DEF Facade, Backend!Next
  <2>2. \/ \E j \in Jobs : Proved!Push(j)
        \/ \E S \in SUBSET Jobs : Proved!PushBatch(S)
        \/ Proved!Stats
    BY <1>3, SamePush, SamePushBatch, SameRest DEF Facade
  <2>3. Proved!Next
    BY <2>2 DEF Proved!Next
  <2> QED BY <2>1, <2>3
<1>4. CASE Tick
  <2>1. Backend!Tick /\ Proved!Tick
    BY <1>4, SameRest DEF Tick
  <2> QED BY <2>1 DEF Backend!Next, Proved!Next
<1>5. ASSUME NEW w \in Workers, Run(w)
      PROVE  [Backend!Next]_Backend!vars /\ [Proved!Next]_Proved!vars
  BY <1>1, <1>2, <1>5 DEF Run, StopPolling, StartSweep, EndSweep, Poll, Wake, Drained
<1>6. ASSUME NEW w \in Workers, Task(w)
      PROVE  [Backend!Next]_Backend!vars /\ [Proved!Next]_Proved!vars
  BY <1>1, <1>2, <1>6 DEF Task, Acquire, Finish, Panic
<1>7. CASE Shutdown \/ UNCHANGED vars
  BY <1>1, <1>7 DEF Shutdown, vars
<1> QED BY <1>3, <1>4, <1>5, <1>6, <1>7 DEF Next

LEMMA BackendInvStep ==
  ASSUME Proved!Inv, [Next]_vars
  PROVE  Proved!Inv'
BY BackendStep, Configured, Proved!InvStep

(* The worker drives the backend only through its operations, one at a      *)
(* time: whatever InMemoryBackend never does, it never does for a worker.   *)
THEOREM RunsTheBackend == Spec => Backend!Spec
<1>1. Init => Backend!Init
  BY DEF Init
<1>2. [Next]_vars => [Backend!Next]_Backend!vars
  BY BackendStep
<1> QED BY <1>1, <1>2, PTL DEF Spec, Backend!Spec

-----------------------------------------------------------------------------
(* Type correctness. *)

(* The tasks that send are at least as many as their tokens. *)
LEMMA SendingFacts ==
  ASSUME NEW w \in Workers, IsFiniteSet(held[w]), DOMAIN sending[w] \subseteq {h.token : h \in held[w]}
  PROVE  /\ IsFiniteSet(DOMAIN sending[w])
         /\ Cardinality(DOMAIN sending[w]) \in Nat /\ Cardinality(Sending(w)) \in Nat
         /\ Cardinality(DOMAIN sending[w]) <= Cardinality(Sending(w))
<1> DEFINE f == [h \in Sending(w) |-> h.token]
<1>1. IsFiniteSet(Sending(w))
  BY FS_Subset DEF Sending
<1>2. f \in Surjection(Sending(w), DOMAIN sending[w])
  BY DEF Sending, Surjection
<1> HIDE DEF f
<1>3. IsFiniteSet(DOMAIN sending[w]) /\ Cardinality(DOMAIN sending[w]) <= Cardinality(Sending(w))
  BY <1>1, <1>2, FS_Surjection
<1> QED BY <1>1, <1>3, FS_CardinalityType

SendTypes(w) ==
  /\ DOMAIN sending[w] \subseteq {h.token : h \in held[w]}
  /\ Cardinality(DOMAIN sending[w]) <= Concurrency
  /\ \A t \in DOMAIN sending[w] : sending[w][t] \in Nat

LEMMA AcquireTypes ==
  ASSUME Proved!TypeOK, HoldInv, \A w \in Workers : SendTypes(w), NEW v \in Workers, Acquire(v)
  PROVE  \A w \in Workers : SendTypes(w)'
<1>1. PICK h \in Waiting(v) :
        sending' = [sending EXCEPT ![v] =
          [t \in DOMAIN sending[v] \cup {h.token} |-> IF t = h.token THEN clock ELSE sending[v][t]]]
  BY DEF Acquire
<1>2. UNCHANGED held /\ Permits(v) > 0 /\ h \in held[v] /\ clock \in Nat /\ DOMAIN sending = Workers
  BY Configured DEF Acquire, backend, Waiting, HoldInv, Proved!TypeOK, Proved!InMemoryConfig
<1>3. SendTypes(v)'
  <2>1. sending'[v] = [t \in DOMAIN sending[v] \cup {h.token} |->
                         IF t = h.token THEN clock ELSE sending[v][t]]
    BY <1>1, <1>2
  <2>2. DOMAIN sending'[v] = DOMAIN sending[v] \cup {h.token}
    BY <2>1
  <2>3. /\ IsFiniteSet(DOMAIN sending[v])
        /\ Cardinality(DOMAIN sending[v]) \in Nat /\ Cardinality(Sending(v)) \in Nat
        /\ Cardinality(DOMAIN sending[v]) <= Cardinality(Sending(v))
    BY SendingFacts DEF HoldInv, SendTypes
  <2>4. /\ Cardinality(DOMAIN sending'[v]) <= Cardinality(DOMAIN sending[v]) + 1
        /\ Cardinality(DOMAIN sending'[v]) \in Nat
    <3> DEFINE D == DOMAIN sending[v]
    <3>1. IsFiniteSet(D) /\ Cardinality(D) \in Nat
      BY <2>3
    <3> HIDE DEF D
    <3>2. /\ IsFiniteSet(D \cup {h.token}) /\ Cardinality(D \cup {h.token}) <= Cardinality(D) + 1
      <4>1. IsFiniteSet(D \cup {h.token})
        BY <3>1, FS_AddElement
      <4>2. Cardinality(D \cup {h.token}) = IF h.token \in D THEN Cardinality(D) ELSE Cardinality(D) + 1
        BY <3>1, FS_AddElement
      <4> QED BY <3>1, <4>1, <4>2
    <3>3. Cardinality(D \cup {h.token}) \in Nat
      BY <3>2, FS_CardinalityType
    <3>4. DOMAIN sending'[v] = D \cup {h.token}
      BY <2>2 DEF D
    <3> QED BY <3>2, <3>3, <3>4 DEF D
  <2>5. Cardinality(DOMAIN sending'[v]) <= Concurrency
    BY <1>2, <2>3, <2>4, QueueWorkerConfig DEF ValidConfig, Permits
  <2>6. DOMAIN sending'[v] \subseteq {g.token : g \in held'[v]}
    BY <1>2, <2>2 DEF SendTypes
  <2>7. \A t \in DOMAIN sending'[v] : sending'[v][t] \in Nat
    BY <1>2, <2>1 DEF SendTypes
  <2> QED BY <2>5, <2>6, <2>7 DEF SendTypes
<1>4. ASSUME NEW w \in Workers, w # v PROVE SendTypes(w)'
  <2>1. sending'[w] = sending[w] /\ held'[w] = held[w]
    BY <1>1, <1>2, <1>4
  <2> QED BY <2>1 DEF SendTypes
<1> QED BY <1>3, <1>4

LEMMA EndsTypes ==
  ASSUME Proved!TypeOK, HoldInv, \A w \in Workers : SendTypes(w),
         NEW v \in Workers, NEW h \in held[v], Ends(v, h)
  PROVE  \A w \in Workers : SendTypes(w)'
<1> DEFINE T == {g.token : g \in Sending(v) \ {h}}
<1>1. /\ held' = [held EXCEPT ![v] = held[v] \ {h}] /\ DOMAIN sending = Workers
      /\ sending' = [sending EXCEPT ![v] = [t \in T |-> sending[v][t]]]
  BY DEF Ends, HoldInv, Restrict
<1>2. T \subseteq DOMAIN sending[v] /\ T \subseteq {g.token : g \in held[v] \ {h}}
  BY DEF Sending
<1> HIDE DEF T
<1>3. SendTypes(v)'
  <2>1. sending'[v] = [t \in T |-> sending[v][t]] /\ held'[v] = held[v] \ {h}
    BY <1>1 DEF Proved!TypeOK
  <2>2. /\ IsFiniteSet(DOMAIN sending[v]) /\ Cardinality(DOMAIN sending[v]) \in Nat
        /\ Cardinality(DOMAIN sending[v]) <= Concurrency
    BY SendingFacts DEF HoldInv, SendTypes
  <2>3. Cardinality(T) <= Cardinality(DOMAIN sending[v]) /\ Cardinality(T) \in Nat
    BY <1>2, <2>2, FS_Subset, FS_CardinalityType
  <2>4. Cardinality(DOMAIN sending'[v]) <= Concurrency
    BY <2>1, <2>2, <2>3, QueueWorkerConfig DEF ValidConfig
  <2>5. \A t \in DOMAIN sending'[v] : sending'[v][t] \in Nat
    BY <1>2, <2>1 DEF SendTypes
  <2> QED BY <1>2, <2>1, <2>4, <2>5 DEF SendTypes
<1>4. ASSUME NEW w \in Workers, w # v PROVE SendTypes(w)'
  <2>1. sending'[w] = sending[w] /\ held'[w] = held[w]
    BY <1>1, <1>4 DEF Proved!TypeOK
  <2> QED BY <2>1 DEF SendTypes
<1> QED BY <1>3, <1>4

LEMMA SendTypesStep ==
  ASSUME Proved!TypeOK, HoldInv, \A w \in Workers : SendTypes(w), Effect
  PROVE  \A w \in Workers : SendTypes(w)'
<1>1. ASSUME UNCHANGED <<sending, held>> PROVE \A w \in Workers : SendTypes(w)'
  BY <1>1 DEF SendTypes
<1>2. ASSUME NEW v \in Workers, Pops(v) PROVE \A w \in Workers : SendTypes(w)'
  <2>1. UNCHANGED sending
    BY <1>2 DEF Pops
  <2>2. \A w \in Workers : held[w] \subseteq held'[w]
    <3>1. held' = [held EXCEPT ![v] = held[v] \cup {Proved!PopHeld(i) : i \in Proved!Taken}]
      BY <1>2, Configured, Proved!PopFacts DEF Pops
    <3> QED BY <3>1 DEF Proved!TypeOK
  <2> QED BY <2>1, <2>2 DEF SendTypes
<1> QED BY <1>1, <1>2, AcquireTypes, EndsTypes DEF Effect, Idles, Ticks, Begins, Reclaims

LEMMA TypeStep ==
  ASSUME Proved!Inv, TypeOK, HoldInv, [Next]_vars
  PROVE  TypeOK'
<1>1. Backend!TypeOK'
  <2>1. Proved!TypeOK'
    BY BackendInvStep DEF Proved!Inv
  <2> QED BY <2>1 DEF Backend!TypeOK, Proved!TypeOK, Backend!Waiting, Proved!Waiting,
                      Backend!Claim, Proved!Claim, Backend!Held, Proved!Held
<1>2. \A w \in Workers : SendTypes(w)'
  BY StepEffect, SendTypesStep DEF Proved!Inv, TypeOK, SendTypes
<1> DEFINE Steps == {"top", "sweep", "pop", "sleep", "drain", "stopped"}
           Plain == /\ loop \in [Workers -> Steps]
                    /\ wake \in [Workers -> Nat] /\ lastSweep \in [Workers -> Nat]
                    /\ shutdown \in BOOLEAN /\ panicked \subseteq Nat
<1>3. Plain
  BY DEF TypeOK
<1>4. ASSUME NEW w \in Workers, Run(w) PROVE Plain'
  <2>1. clock \in Nat
    <3>1. clock \in 0 .. MaxClock /\ MaxClock \in Nat
      BY Configured DEF Proved!Inv, Proved!TypeOK, Proved!InMemoryConfig
    <3> QED BY <3>1
  <2>2. PollInterval \in Nat
    BY QueueWorkerConfig DEF ValidConfig
  <2>3. CASE StopPolling(w) \/ Wake(w) \/ Drained(w)
    BY <1>3, <2>3 DEF StopPolling, Wake, Drained, Goto
  <2>4. CASE StartSweep(w)
    BY <1>3, <2>1, <2>4 DEF StartSweep, Goto
  <2>5. CASE EndSweep(w)
    BY <1>3, <2>5 DEF EndSweep, Goto
  <2>6. CASE Poll(w)
    BY <1>3, <2>1, <2>2, <2>6 DEF Poll, Goto
  <2> QED BY <1>4, <2>3, <2>4, <2>5, <2>6 DEF Run
<1>5. ASSUME NEW w \in Workers, Task(w) PROVE Plain'
  <2>1. \A h \in held[w] : h.token \in Nat
    BY DEF Proved!Inv, Proved!TypeOK, Proved!Held
  <2>2. CASE Acquire(w) \/ Finish(w)
    BY <1>3, <2>2 DEF Acquire, Finish
  <2>3. CASE Panic(w)
    BY <1>3, <2>1, <2>3 DEF Panic, Ended
  <2> QED BY <1>5, <2>2, <2>3 DEF Task
<1>6. ASSUME Facade \/ Shutdown \/ Tick \/ UNCHANGED vars PROVE Plain'
  <2>1. CASE Facade
    BY <1>3, <2>1 DEF Facade, worker
  <2>2. CASE Shutdown
    BY <1>3, <2>2 DEF Shutdown
  <2>3. CASE Tick
    BY <1>3, <2>3 DEF Tick, worker
  <2>4. CASE UNCHANGED vars
    BY <1>3, <2>4 DEF vars, worker
  <2> QED BY <1>6, <2>1, <2>2, <2>3, <2>4
<1>7. Plain'
  BY <1>4, <1>5, <1>6 DEF Next
<1> QED BY <1>1, <1>2, <1>7 DEF TypeOK, SendTypes

-----------------------------------------------------------------------------
(* The invariant, part by part. *)

(* What a pop hands to the worker: a task per claim it makes, with a token   *)
(* above every one minted before.                                          *)
LEMMA PopTasks ==
  ASSUME Proved!Inv, NEW w \in Workers, Pops(w)
  PROVE  \E new : /\ held' = [held EXCEPT ![w] = held[w] \cup new]
                  /\ IsFiniteSet(new)
                  /\ \A h \in new : h.token \in Nat /\ h.token > claimSeq
                  /\ \A g, h \in new : g.token = h.token => g = h
                  /\ \A j \in DOMAIN processing' :
                       \/ j \in DOMAIN processing /\ processing'[j] = processing[j]
                       \/ \E h \in new : h.id = j /\ h.token = processing'[j].token
                  /\ \A j \in DOMAIN processing : j \in DOMAIN processing' /\ processing'[j] = processing[j]
<1> DEFINE new == {Proved!PopHeld(i) : i \in Proved!Taken}
<1>1. Proved!TypeOK /\ Proved!Pop(w)
  BY DEF Proved!Inv, Pops
<1>2. held' = [held EXCEPT ![w] = held[w] \cup new]
  BY <1>1, Configured, Proved!PopFacts
<1>3. /\ IsFiniteSet(Proved!Taken) /\ Proved!Taken \subseteq DOMAIN queue
      /\ Proved!Cardinality(Proved!Taken) \in Nat /\ claimSeq \in Nat
      /\ \A i \in Proved!Taken : Proved!Token(i) \in claimSeq + 1 .. claimSeq + Proved!Cardinality(Proved!Taken)
      /\ \A i, k \in Proved!Taken : Proved!Token(i) = Proved!Token(k) => i = k
  BY <1>1, Configured, Proved!TakenFacts, SameSets DEF Proved!TypeOK
<1>4. IsFiniteSet(new)
  <2> DEFINE f == [i \in Proved!Taken |-> Proved!PopHeld(i)]
  <2>1. f \in Surjection(Proved!Taken, new)
    BY DEF Surjection
  <2> HIDE DEF f, new
  <2> QED BY <1>3, <2>1, FS_Surjection
<1>5. \A i \in Proved!Taken : Proved!PopHeld(i).token = Proved!Token(i) /\ Proved!PopHeld(i).id = queue[i].id
  BY DEF Proved!PopHeld
<1>6. \A h \in new : h.token \in Nat /\ h.token > claimSeq
  BY <1>3, <1>5
<1>7. \A g, h \in new : g.token = h.token => g = h
  BY <1>3, <1>5
<1>8. \A j \in Proved!PopIds : \E i \in Proved!Taken :
        queue[i].id = j /\ processing'[j] = Proved!PopClaim(i)
  BY <1>1, Configured, Proved!PopFacts
<1>9. \A j \in Proved!PopIds : \E h \in new : h.id = j /\ h.token = processing'[j].token
  <2> SUFFICES ASSUME NEW j \in Proved!PopIds
               PROVE  \E h \in new : h.id = j /\ h.token = processing'[j].token
    OBVIOUS
  <2>1. PICK i \in Proved!Taken : queue[i].id = j /\ processing'[j] = Proved!PopClaim(i)
    BY <1>8
  <2>2. Proved!PopHeld(i) \in new
    OBVIOUS
  <2>3. Proved!PopClaim(i).token = Proved!Token(i)
    BY DEF Proved!PopClaim
  <2> HIDE DEF new
  <2> QED BY <1>5, <2>1, <2>2, <2>3
<1>10. DOMAIN processing' = DOMAIN processing \cup Proved!PopIds
  BY <1>1, Configured, Proved!PopFacts
<1>11. \A j \in DOMAIN processing \ Proved!PopIds : processing'[j] = processing[j]
  BY <1>1, Configured, Proved!PopFacts
<1>12. Proved!PopIds \cap DOMAIN processing = {}
  <2>1. Proved!PopIds \subseteq Proved!Ids(queue)
    BY <1>3 DEF Proved!PopIds, Proved!Ids
  <2> QED BY <2>1 DEF Proved!Inv, Proved!CopyInv
<1> HIDE DEF new
<1>13. \A j \in DOMAIN processing' : \/ j \in DOMAIN processing /\ processing'[j] = processing[j]
                                     \/ \E h \in new : h.id = j /\ h.token = processing'[j].token
  BY <1>9, <1>10, <1>11
<1>14. \A j \in DOMAIN processing : j \in DOMAIN processing' /\ processing'[j] = processing[j]
  BY <1>10, <1>11, <1>12
<1> QED BY <1>2, <1>4, <1>6, <1>7, <1>13, <1>14

LEMMA HoldStep ==
  ASSUME Inv, Effect
  PROVE  HoldInv'
<1>1. HoldInv /\ held \in [Workers -> SUBSET Proved!Held]
  BY DEF Inv, Proved!Inv, Proved!TypeOK
<1>2. ASSUME UNCHANGED <<sending, held>> PROVE HoldInv'
  BY <1>1, <1>2 DEF HoldInv
<1>3. ASSUME NEW v \in Workers, Acquire(v) PROVE HoldInv'
  BY <1>1, <1>3 DEF Acquire, backend, HoldInv
<1>4. ASSUME NEW v \in Workers, NEW h \in held[v], Ends(v, h) PROVE HoldInv'
  <2>1. /\ \A w \in Workers : held'[w] \in SUBSET held[w]
        /\ DOMAIN sending' = DOMAIN sending
    BY <1>1, <1>4 DEF Ends
  <2>2. \A w \in Workers : IsFiniteSet(held'[w])
    BY <1>1, <2>1, FS_Subset DEF HoldInv
  <2> QED BY <1>1, <2>1, <2>2 DEF HoldInv
<1>5. ASSUME NEW v \in Workers, Pops(v) PROVE HoldInv'
  <2>1. PICK new : /\ held' = [held EXCEPT ![v] = held[v] \cup new]
                   /\ IsFiniteSet(new)
                   /\ \A h \in new : h.token \in Nat /\ h.token > claimSeq
                   /\ \A g, h \in new : g.token = h.token => g = h
    BY <1>5, PopTasks DEF Inv
  <2>2. \A w \in Workers : held'[w] = IF w = v THEN held[v] \cup new ELSE held[w]
    BY <1>1, <2>1
  <2>3. IsFiniteSet(held[v] \cup new)
    BY <1>1, <2>1, FS_Union DEF HoldInv
  <2>4. \A w \in Workers : \A h \in held[w] : h.token \in Nat /\ h.token <= claimSeq
    BY <1>1 DEF Inv, Proved!Inv, Proved!TokenInv, Proved!Held
  <2>5. claimSeq \in Nat
    BY DEF Inv, Proved!Inv, Proved!TypeOK
  <2>6. \A u, w \in Workers : \A g \in held'[u], h \in held'[w] : g.token = h.token => u = w /\ g = h
    <3> SUFFICES ASSUME NEW u \in Workers, NEW w \in Workers, NEW g \in held'[u], NEW h \in held'[w],
                        g.token = h.token
                 PROVE  u = w /\ g = h
      OBVIOUS
    <3>1. /\ g \in held[u] \/ (u = v /\ g \in new)
          /\ h \in held[w] \/ (w = v /\ h \in new)
      BY <2>2
    <3>2. (g \in new => h \notin held[w]) /\ (h \in new => g \notin held[u])
      BY <2>1, <2>4, <2>5
    <3> QED BY <1>1, <2>1, <3>1, <3>2 DEF HoldInv
  <2> QED BY <1>1, <1>5, <2>2, <2>3, <2>6 DEF HoldInv, Pops
<1> QED BY <1>2, <1>3, <1>4, <1>5 DEF Effect, Idles, Ticks, Begins, Reclaims

LEMMA ClaimStep ==
  ASSUME Inv, Effect
  PROVE  ClaimInv'
<1>1. ClaimInv /\ held \in [Workers -> SUBSET Proved!Held]
  BY DEF Inv, Proved!Inv, Proved!TypeOK
<1>2. ASSUME UNCHANGED <<held, panicked>>, DOMAIN processing' \subseteq DOMAIN processing,
             \A j \in DOMAIN processing' : processing'[j] = processing[j]
      PROVE  ClaimInv'
  BY <1>1, <1>2 DEF ClaimInv
<1>3. ASSUME NEW v \in Workers, Acquire(v) PROVE ClaimInv'
  BY <1>2, <1>3 DEF Acquire, backend
<1>4. ASSUME NEW v \in Workers, NEW h \in held[v], Ends(v, h) PROVE ClaimInv'
  <2> SUFFICES ASSUME NEW j \in DOMAIN processing'
               PROVE  \/ processing'[j].token \in panicked'
                      \/ \E w \in Workers : \E g \in held'[w] : g.id = j /\ g.token = processing'[j].token
    BY DEF ClaimInv
  <2>1. /\ j \in DOMAIN processing /\ processing'[j] = processing[j]
        /\ panicked \subseteq panicked'
        /\ held' = [held EXCEPT ![v] = held[v] \ {h}]
    BY <1>4 DEF Ends
  <2>2. CASE processing[j].token \in panicked
    BY <2>1, <2>2
  <2>3. ASSUME NEW w \in Workers, NEW g \in held[w], g.id = j, g.token = processing[j].token
        PROVE  \/ processing'[j].token \in panicked'
               \/ \E u \in Workers : \E k \in held'[u] : k.id = j /\ k.token = processing'[j].token
    <3>1. CASE w = v /\ g = h
      <4>1. Proved!Owned(h)
        BY <2>1, <2>3, <3>1 DEF Proved!Owned
      <4>2. h.token \in panicked'
        BY <1>4, <2>3, <3>1, <4>1 DEF Ends
      <4> QED BY <2>1, <2>3, <3>1, <4>2
    <3>2. CASE ~(w = v /\ g = h)
      <4>1. g \in held'[w]
        BY <1>1, <2>1, <3>2
      <4> QED BY <2>1, <2>3, <4>1
    <3> QED BY <3>1, <3>2
  <2> QED BY <1>1, <2>1, <2>2, <2>3 DEF ClaimInv
<1>5. ASSUME NEW v \in Workers, Pops(v) PROVE ClaimInv'
  <2>1. PICK new : /\ held' = [held EXCEPT ![v] = held[v] \cup new]
                   /\ \A j \in DOMAIN processing' :
                        \/ j \in DOMAIN processing /\ processing'[j] = processing[j]
                        \/ \E h \in new : h.id = j /\ h.token = processing'[j].token
    BY <1>5, PopTasks DEF Inv
  <2>2. /\ \A w \in Workers : held[w] \subseteq held'[w]
        /\ new \subseteq held'[v] /\ panicked' = panicked
    BY <1>1, <1>5, <2>1 DEF Pops
  <2> QED BY <1>1, <2>1, <2>2 DEF ClaimInv
<1> QED BY <1>2, <1>3, <1>4, <1>5 DEF Effect, Idles, Ticks, Begins, Reclaims

LEMMA TimeStep ==
  ASSUME Inv, Effect
  PROVE  TimeInv'
<1>1. /\ clock \in Int /\ VisTimeout \in Nat /\ JobTimeout \in Nat /\ Idle \notin Int
      /\ cutoff \in [Workers -> Int \cup {Idle}] /\ DOMAIN sending = Workers
      /\ \A w \in Workers : \A t \in DOMAIN sending[w] : sending[w][t] \in Nat
  <2>1. Proved!TypeOK /\ TypeOK
    BY DEF Inv, Proved!Inv
  <2>2. clock \in Int /\ cutoff \in [Workers -> Int \cup {Idle}]
    <3>1. clock \in 0 .. MaxClock
      BY <2>1 DEF Proved!TypeOK
    <3>2. cutoff \in [Workers -> Int \cup {Idle}]
      BY <2>1 DEF Proved!TypeOK
    <3> QED BY <3>1, <3>2
  <2>3. VisTimeout \in Nat /\ JobTimeout \in Nat
    BY QueueWorkerConfig DEF ValidConfig
  <2>4. Idle \notin Int
    BY Configured DEF Proved!InMemoryConfig
  <2>5. DOMAIN sending = Workers /\ \A w \in Workers : \A t \in DOMAIN sending[w] : sending[w][t] \in Nat
    BY <2>1 DEF TypeOK, Inv, HoldInv
  <2> QED BY <2>2, <2>3, <2>4, <2>5
<1>2. TimeInv
  BY DEF Inv
<1> DEFINE Cut(w)  == cutoff[w] # Idle => cutoff[w] + VisTimeout <= clock
           Sent(w) == \A t \in DOMAIN sending[w] : clock <= sending[w][t] + JobTimeout
<1>3. ASSUME UNCHANGED <<clock, cutoff>> PROVE \A w \in Workers : Cut(w)'
  BY <1>2, <1>3 DEF TimeInv
<1>4. ASSUME UNCHANGED <<clock, sending>> PROVE \A w \in Workers : Sent(w)'
  BY <1>2, <1>4 DEF TimeInv
<1>5. CASE Ticks
  <2>1. \A w \in Workers : Cut(w)'
    BY <1>1, <1>2, <1>5 DEF Ticks, TimeInv
  <2>2. \A w \in Workers : Sent(w)'
    BY <1>1, <1>5 DEF Ticks, Prompt
  <2> QED BY <2>1, <2>2 DEF TimeInv
<1>6. ASSUME NEW v \in Workers, Begins(v) PROVE TimeInv'
  <2>1. \A w \in Workers : Cut(w)'
    BY <1>1, <1>2, <1>6 DEF Begins, TimeInv
  <2> QED BY <1>4, <1>6, <2>1 DEF Begins, TimeInv
<1>7. ASSUME NEW v \in Workers, Reclaims(v) PROVE TimeInv'
  <2>1. \A w \in Workers : Cut(w)'
    BY <1>1, <1>2, <1>7 DEF Reclaims, TimeInv
  <2> QED BY <1>4, <1>7, <2>1 DEF Reclaims, TimeInv
<1>8. ASSUME NEW v \in Workers, Pops(v) PROVE TimeInv'
  <2>1. UNCHANGED <<clock, cutoff, sending>>
    BY <1>8, Configured, Proved!PopFacts DEF Pops, Inv, Proved!Inv
  <2> QED BY <1>3, <1>4, <2>1 DEF TimeInv
<1>9. ASSUME NEW v \in Workers, Acquire(v) PROVE TimeInv'
  <2>1. UNCHANGED <<clock, cutoff>>
    BY <1>9 DEF Acquire, backend
  <2>2. PICK h \in Waiting(v) : sending' = [sending EXCEPT ![v] =
          [t \in DOMAIN sending[v] \cup {h.token} |-> IF t = h.token THEN clock ELSE sending[v][t]]]
    BY <1>9 DEF Acquire
  <2>3. ASSUME NEW w \in Workers PROVE Sent(w)'
    <3>1. CASE w # v
      BY <1>1, <1>2, <2>1, <2>2, <3>1 DEF TimeInv
    <3>2. CASE w = v
      <4>1. sending'[w] = [t \in DOMAIN sending[v] \cup {h.token} |->
                             IF t = h.token THEN clock ELSE sending[v][t]]
        BY <1>1, <2>2, <3>2
      <4>2. \A t \in DOMAIN sending'[w] : sending'[w][t] = clock
                                          \/ (t \in DOMAIN sending[w] /\ sending'[w][t] = sending[w][t])
        BY <3>2, <4>1
      <4> QED BY <1>1, <1>2, <2>1, <4>2 DEF TimeInv
    <3> QED BY <3>1, <3>2
  <2> QED BY <1>3, <2>1, <2>3 DEF TimeInv
<1>10. ASSUME NEW v \in Workers, NEW h \in held[v], Ends(v, h) PROVE TimeInv'
  <2>1. UNCHANGED <<clock, cutoff>>
    BY <1>10 DEF Ends
  <2> DEFINE T == {g.token : g \in Sending(v) \ {h}}
  <2>2. sending' = [sending EXCEPT ![v] = [t \in T |-> sending[v][t]]] /\ T \subseteq DOMAIN sending[v]
    BY <1>10 DEF Ends, Restrict, Sending
  <2> HIDE DEF T
  <2>3. \A w \in Workers : Sent(w)'
    BY <1>1, <1>2, <2>1, <2>2 DEF TimeInv
  <2> QED BY <1>3, <2>1, <2>3 DEF TimeInv
<1>11. CASE Idles
  BY <1>3, <1>4, <1>11 DEF Idles, TimeInv
<1> QED BY <1>5, <1>6, <1>7, <1>8, <1>9, <1>10, <1>11 DEF Effect

LEMMA InvInit == Init => Inv
<1> SUFFICES ASSUME Init PROVE Inv
  OBVIOUS
<1>1. Proved!Init /\ Backend!Init
  BY SameState DEF Init
<1>2. Proved!Inv
  BY <1>1, Configured, Proved!InvInit
<1>3. HoldInv /\ StopInv /\ ClaimInv /\ TimeInv
  BY <1>1, FS_EmptySet DEF Proved!Init, Init, HoldInv, StopInv, ClaimInv, TimeInv
<1>4. TypeOK
  <2>1. Backend!TypeOK
    BY <1>2, SameState DEF Proved!Inv
  <2>2. \A w \in Workers : DOMAIN sending[w] = {}
    BY DEF Init
  <2>3. ASSUME NEW w \in Workers
        PROVE  /\ DOMAIN sending[w] \subseteq {h.token : h \in held[w]}
               /\ Cardinality(DOMAIN sending[w]) <= Concurrency
               /\ \A t \in DOMAIN sending[w] : sending[w][t] \in Nat
    <3>1. DOMAIN sending[w] = {}
      BY <2>2
    <3>2. Concurrency \in Nat /\ Cardinality({}) = 0
      BY QueueWorkerConfig, FS_EmptySet DEF ValidConfig
    <3> QED BY <3>1, <3>2
  <2>4. /\ loop \in [Workers -> {"top", "sweep", "pop", "sleep", "drain", "stopped"}]
        /\ wake \in [Workers -> Nat] /\ lastSweep \in [Workers -> Nat]
        /\ shutdown \in BOOLEAN /\ panicked \subseteq Nat
    BY DEF Init
  <2> QED BY <2>1, <2>3, <2>4 DEF TypeOK
<1> QED BY <1>2, <1>3, <1>4 DEF Inv

LEMMA InvStep == Inv /\ [Next]_vars => Inv'
<1> SUFFICES ASSUME Inv, [Next]_vars PROVE Inv'
  OBVIOUS
<1>1. Effect
  BY StepEffect DEF Inv, Proved!Inv
<1>2. Proved!Inv' /\ TypeOK'
  BY BackendInvStep, TypeStep DEF Inv
<1>3. StopInv'
  <2>1. ASSUME NEW w \in Workers, loop'[w] = "stopped" PROVE held'[w] = {}
    BY <2>1, LoopStep DEF Inv, Proved!Inv, StopInv
  <2> QED BY <2>1 DEF StopInv
<1> QED BY <1>1, <1>2, <1>3, HoldStep, ClaimStep, TimeStep DEF Inv

THEOREM InvCorrect == Spec => []Inv
BY InvInit, InvStep, PTL DEF Spec

-----------------------------------------------------------------------------
(* The properties of the run. *)

(* At most Concurrency tasks of a worker send at once, each for a job it     *)
(* holds, and every variable stays in its type.                            *)
THEOREM TypeCorrect == Spec => []TypeOK
<1>1. Inv => TypeOK
  BY DEF Inv
<1> QED BY <1>1, InvCorrect, PTL

(* Workers that have all stopped leave no claim behind but those of tasks   *)
(* that panicked: run drains its tasks before it returns.                  *)
THEOREM StopCorrect == Spec => []StopAbandonsNothing
<1>1. Inv => StopAbandonsNothing
  BY DEF Inv, StopInv, ClaimInv, StopAbandonsNothing
<1> QED BY <1>1, InvCorrect, PTL

(* No task whose send began within visibility_timeout - job_timeout of its  *)
(* claim loses the claim while it sends: not to a sweep, not to a pop and   *)
(* not to another task.                                                    *)
THEOREM PromptSendsCorrect == Spec => PromptSendsKeepClaim
<1> DEFINE A == \A w \in Workers : \A h \in Sending(w) :
       Backend!Owned(h) /\ h \in held'[w] /\ ~Backend!Owned(h)' =>
         sending[w][h.token] + JobTimeout >= processing[h.id].at + VisTimeout
<1>1. ASSUME Inv, Effect PROVE A
  <2> SUFFICES ASSUME NEW w \in Workers, NEW h \in Sending(w),
                      Backend!Owned(h), h \in held'[w], ~Backend!Owned(h)'
               PROVE  sending[w][h.token] + JobTimeout >= processing[h.id].at + VisTimeout
    OBVIOUS
  <2>1. /\ h \in held[w] /\ h.token \in DOMAIN sending[w]
        /\ h.id \in DOMAIN processing /\ processing[h.id].token = h.token
        /\ h.id \in DOMAIN processing' => processing'[h.id].token # h.token
    BY DEF Sending, Backend!Owned
  <2>2. ASSUME UNCHANGED processing PROVE FALSE
    BY <2>1, <2>2
  <2>3. ASSUME NEW v \in Workers, Pops(v) PROVE FALSE
    <3>1. h.id \in DOMAIN processing' /\ processing'[h.id] = processing[h.id]
      BY <1>1, <2>1, <2>3, PopTasks DEF Inv
    <3> QED BY <2>1, <3>1
  <2>4. ASSUME NEW v \in Workers, NEW g \in held[v], Ends(v, g) PROVE FALSE
    <3>1. h.id \notin DOMAIN processing' /\ Proved!Owned(g) /\ g.id = h.id
      BY <2>1, <2>4 DEF Ends
    <3>2. g.token = h.token
      BY <2>1, <3>1 DEF Proved!Owned
    <3>3. v = w /\ g = h
      BY <1>1, <2>1, <3>2 DEF Inv, HoldInv
    <3>4. h \notin held'[w]
      BY <1>1, <2>4, <3>3 DEF Ends, Inv, Proved!Inv, Proved!TypeOK
    <3> QED BY <3>4
  <2>5. ASSUME NEW v \in Workers, Reclaims(v)
        PROVE  sending[w][h.token] + JobTimeout >= processing[h.id].at + VisTimeout
    <3>1. processing[h.id].at <= cutoff[v] /\ cutoff[v] # Idle
      BY <2>1, <2>5 DEF Reclaims
    <3>2. cutoff[v] + VisTimeout <= clock /\ clock <= sending[w][h.token] + JobTimeout
      BY <1>1, <2>1, <3>1 DEF Inv, TimeInv
    <3>3. /\ cutoff[v] \in Int /\ clock \in Int /\ processing[h.id].at \in Int
          /\ sending[w][h.token] \in Int /\ VisTimeout \in Int /\ JobTimeout \in Int
      <4>1. cutoff[v] \in Int /\ clock \in Int
        BY <1>1, <3>1, Configured DEF Inv, Proved!Inv, Proved!TypeOK, Proved!InMemoryConfig
      <4>2. processing[h.id].at \in Int
        BY <1>1, <2>1 DEF Inv, Proved!Inv, Proved!TypeOK, Proved!Claim
      <4>3. sending[w][h.token] \in Int
        BY <1>1, <2>1 DEF Inv, TypeOK
      <4> QED BY <4>1, <4>2, <4>3, QueueWorkerConfig DEF ValidConfig
    <3> QED BY <3>1, <3>2, <3>3
  <2> QED BY <1>1, <2>2, <2>3, <2>4, <2>5 DEF Effect, Idles, Ticks, Begins, Acquire, backend
<1>2. Inv /\ [Next]_vars => [A]_vars
  BY <1>1, StepEffect DEF Inv, Proved!Inv
<1> QED BY <1>2, InvCorrect, PTL DEF Spec, PromptSendsKeepClaim
=============================================================================
