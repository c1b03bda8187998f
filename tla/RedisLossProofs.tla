--------------------------- MODULE RedisLossProofs ---------------------------
(* What RedisBackend counts, keeps and reports, for every value of the      *)
(* constants.                                                              *)
EXTENDS RedisBackendProofs

-----------------------------------------------------------------------------
(* The count of processed jobs. *)

SentJobs == {j \in Jobs : outcome[j] = "sent"}

(* A step counts one more job and ends it as sent, or does neither. *)
CountStep ==
  \/ UNCHANGED processed /\ SentJobs' = SentJobs
  \/ /\ processed' = processed + 1
     /\ \E j \in Jobs \ SentJobs : SentJobs' = SentJobs \cup {j}

LEMMA ScriptCount ==
  ASSUME TypeOK, PlaceInv, NEW r, r.id \in Jobs, NEW score, NEW attempts,
         \/ CompleteIfOwned(r) \/ GiveUp(r) \/ ReleaseIfOwned(r)
         \/ FailIfOwned(r, attempts, score)
  PROVE  CountStep
<1>1. CASE UNCHANGED outcome /\ UNCHANGED processed
  BY <1>1 DEF CountStep, SentJobs
<1>2. CASE ~(UNCHANGED outcome /\ UNCHANGED processed)
  <2>1. Owned(r)
    BY <1>2 DEF CompleteIfOwned, GiveUp, DeadLetterIfOwned, DiscardIfOwned, ReleaseIfOwned,
                FailIfOwned, Stale
  <2>2. r.id \notin SentJobs
    BY <2>1 DEF Owned, PlaceInv, Settled, SentJobs
  <2>3. outcome \in [Jobs -> {"open", "sent", "dead", "dropped", "evicted"}]
    BY DEF TypeOK
  <2>4. CASE CompleteIfOwned(r)
    <3>1. processed' = processed + 1 /\ outcome' = [outcome EXCEPT ![r.id] = "sent"]
      BY <2>1, <2>4 DEF CompleteIfOwned, Stale, End
    <3>2. SentJobs' = SentJobs \cup {r.id}
      BY <2>3, <3>1 DEF SentJobs
    <3> QED BY <2>2, <3>1, <3>2 DEF CountStep
  <2>5. CASE ~CompleteIfOwned(r)
    <3>1. PICK how \in {"dropped", "dead", "evicted"} :
            UNCHANGED processed /\ outcome' = [outcome EXCEPT ![r.id] = how]
      BY <1>2, <2>5 DEF GiveUp, DeadLetterIfOwned, DiscardIfOwned, ReleaseIfOwned,
                        FailIfOwned, Stale, End
    <3>2. SentJobs' = SentJobs
      BY <2>2, <2>3, <3>1 DEF SentJobs
    <3> QED BY <3>1, <3>2 DEF CountStep
  <2> QED BY <2>4, <2>5
<1> QED BY <1>1, <1>2

LEMMA StepCount == ASSUME TypeOK, PlaceInv, [Next]_vars PROVE CountStep
<1>1. CASE UNCHANGED <<outcome, processed>>
  BY <1>1 DEF CountStep, SentJobs
<1>2. ASSUME NEW c \in Clients, SweepFinish(c) PROVE CountStep
  <2>1. PICK r \in work[c] : Reclaim(c, r) \/ SkipCorrupt(c, r) \/ ReleaseMissing(c, r)
    BY <1>2 DEF SweepFinish
  <2>2. r.id \in Jobs
    BY DEF TypeOK, Rec
  <2> QED BY <1>1, <2>1, <2>2, ScriptCount DEF Reclaim, SkipCorrupt, ReleaseMissing
<1>3. ASSUME NEW c \in Clients, TaskDone(c) PROVE CountStep
  <2>1. PICK h \in held[c] : TaskSent(c, h) \/ TaskFailed(c, h)
    BY <1>3 DEF TaskDone
  <2>2. h.id \in Jobs
    BY DEF TypeOK, Held
  <2> QED BY <2>1, <2>2, ScriptCount DEF TaskSent, TaskFailed
<1>4. ASSUME NEW c \in Clients, Client(c), ~SweepFinish(c), ~TaskDone(c)
      PROVE  UNCHANGED <<outcome, processed>>
  BY <1>4 DEF Client, PopStep, SweepStep, PopBegin, SweepBegin, Begin, ClaimRetry, ClaimPending,
              PopMget, DiscardZrem, DiscardHdel, DiscardLost, DiscardDead, DiscardDel, ClaimStale,
              SweepMget, SweepLost, SweepDead, TaskDropped, RedisError, Crash, redis, history
<1>5. CASE Push \/ Tick \/ UNCHANGED vars \/ \E j \in Jobs : Evict(j) \/ Garble(j)
  BY <1>1, <1>5 DEF Push, PushSet, PushZadd, PushError, PushBatch, Tick, Evict, Garble, vars,
                    redis, history
<1> QED BY <1>1, <1>2, <1>3, <1>4, <1>5 DEF Next

(* Spec => []ProcessedIsSent: stats().processed is the number of delivered  *)
(* jobs, whatever late finalizers do.                                      *)
THEOREM ProcessedIsSentCorrect == Spec => []ProcessedIsSent
<1>1. Init => ProcessedIsSent
  <2>1. Init => SentJobs = {}
    BY DEF Init, SentJobs
  <2> QED BY <2>1, FS_EmptySet DEF Init, ProcessedIsSent, SentJobs
<1>2. ASSUME TypeOK, PlaceInv, ProcessedIsSent, [Next]_vars PROVE ProcessedIsSent'
  <2>1. IsFiniteSet(SentJobs) /\ processed = Cardinality(SentJobs)
    BY <1>2, JobsAssumption, FS_Subset DEF SentJobs, ProcessedIsSent
  <2>2. processed' = Cardinality(SentJobs)'
    <3>1. CASE UNCHANGED processed /\ SentJobs' = SentJobs
      BY <2>1, <3>1
    <3>2. ASSUME NEW j \in Jobs \ SentJobs, SentJobs' = SentJobs \cup {j},
                 processed' = processed + 1
          PROVE  processed' = Cardinality(SentJobs)'
      BY <2>1, <3>2, FS_AddElement
    <3> QED BY <1>2, <3>1, <3>2, StepCount DEF CountStep
  <2> QED BY <2>2 DEF ProcessedIsSent, SentJobs
<1> QED BY <1>1, <1>2, TypeCorrect, PlaceCorrect, PTL DEF Spec

-----------------------------------------------------------------------------
(* What a job became, it stays; and a step is one client's. *)

LEMMA StepLasts ==
  ASSUME TypeOK, PlaceInv, [Next]_vars, NEW j \in Jobs
  PROVE  /\ submitted[j] = "queued" => submitted'[j] = "queued"
         /\ Settled(j) => outcome'[j] = outcome[j]
  BY StepEffect DEF Effect, Quiet, Submit, Take, Requeue, Finish, Leave, PlaceInv, Settled

(* The other clients stay where they are. *)
Only(c) ==
  \A d \in Clients \ {c} : /\ pc'[d] = pc[d] /\ cur'[d] = cur[d]
                           /\ work'[d] = work[d] /\ held'[d] = held[d]

LEMMA StepOnly ==
  ASSUME TypeOK, NEW c \in Clients, Client(c)
  PROVE  Only(c)
<1>1. ASSUME NEW S, Return(c, S) PROVE Only(c)
  BY <1>1 DEF Return, Only, TypeOK
<1>2. ASSUME NEW step, Goto(c, step), UNCHANGED <<work, cur, held>> PROVE Only(c)
  BY <1>2 DEF Goto, Only, TypeOK
<1>3. ASSUME NEW S, SweepRest(c, S) PROVE Only(c)
  BY <1>1, <1>3 DEF SweepRest, Goto, Only, TypeOK
<1>4. CASE PopBegin(c) \/ SweepBegin(c)
  BY <1>4 DEF PopBegin, SweepBegin, Begin, Only, TypeOK
<1>5. CASE ClaimRetry(c) \/ ClaimPending(c)
  <2>1. PICK step, S : Goto(c, step) /\ ClaimFresh(c, S) /\ UNCHANGED <<cur, held>>
    BY <1>5 DEF ClaimRetry, ClaimPending
  <2>2. \E W : work' = [work EXCEPT ![c] = W]
    BY <2>1 DEF ClaimFresh
  <2> QED BY <2>1, <2>2 DEF Goto, Only, TypeOK
<1>6. CASE PopMget(c)
  BY <1>1, <1>6 DEF PopMget, Goto, Only, TypeOK
<1>7. CASE DiscardZrem(c)
  BY <1>7 DEF DiscardZrem, Goto, Only, TypeOK
<1>8. CASE DiscardHdel(c) \/ DiscardLost(c) \/ DiscardDead(c)
  BY <1>2, <1>8 DEF DiscardHdel, DiscardLost, DiscardDead
<1>9. CASE DiscardDel(c)
  BY <1>1, <1>9 DEF DiscardDel, Goto, Only, TypeOK
<1>10. CASE ClaimStale(c)
  BY <1>1, <1>10 DEF ClaimStale, Goto, Only, TypeOK
<1>11. CASE SweepMget(c)
  BY <1>11 DEF SweepMget, Goto, Only, TypeOK
<1>12. CASE SweepFinish(c)
  BY <1>3, <1>12 DEF SweepFinish, Reclaim, SkipCorrupt, ReleaseMissing, Goto, Only, TypeOK
<1>13. CASE SweepLost(c) \/ SweepDead(c)
  BY <1>2, <1>3, <1>13 DEF SweepLost, SweepDead
<1>14. CASE TaskDone(c) \/ TaskDropped(c)
  BY <1>14 DEF TaskDone, TaskDropped, Only, TypeOK
<1>15. CASE RedisError(c)
  BY <1>1, <1>15 DEF RedisError
<1>16. CASE Crash(c)
  BY <1>16 DEF Crash, Only, TypeOK
<1> QED BY <1>4, <1>5, <1>6, <1>7, <1>8, <1>9, <1>10, <1>11, <1>12, <1>13, <1>14, <1>15, <1>16
        DEF Client, PopStep, SweepStep

-----------------------------------------------------------------------------
(* What the sweeper reports as lost. *)

LossSteps == {"sweep_lost", "sweep_dead"}

(* A client comes to the report only by releasing the claim of an evicted   *)
(* job in the same step.                                                   *)
LEMMA StepToLoss ==
  ASSUME TypeOK, NEW c \in Clients, Client(c), pc'[c] \in LossSteps
  PROVE  (pc[c] \in LossSteps /\ cur'[c] = cur[c]) \/ outcome'[cur'[c]] = "evicted"
<1>1. ASSUME NEW S, Return(c, S) PROVE FALSE
  BY <1>1 DEF Return, TypeOK, LossSteps
<1>2. ASSUME NEW step, Goto(c, step), step \notin LossSteps PROVE FALSE
  BY <1>2 DEF Goto, TypeOK, LossSteps
<1>3. ASSUME NEW S, SweepRest(c, S) PROVE FALSE
  BY <1>1, <1>2, <1>3 DEF SweepRest, LossSteps
<1>4. CASE PopBegin(c) \/ SweepBegin(c) \/ Crash(c)
  BY <1>4 DEF PopBegin, SweepBegin, Begin, Crash, TypeOK, LossSteps
<1>5. CASE PopStep(c) \/ ClaimStale(c) \/ SweepMget(c) \/ RedisError(c)
  BY <1>1, <1>2, <1>5 DEF PopStep, ClaimRetry, ClaimPending, PopMget, DiscardZrem, DiscardHdel,
       DiscardLost, DiscardDead, DiscardDel, ClaimStale, SweepMget, RedisError, LossSteps
<1>6. CASE SweepFinish(c)
  <2>1. PICK r \in work[c] : ReleaseMissing(c, r)
    BY <1>3, <1>6 DEF SweepFinish, Reclaim, SkipCorrupt
  <2>2. Owned(r) /\ cur'[c] = r.id /\ ReleaseIfOwned(r)
    BY <1>3, <2>1 DEF ReleaseMissing, TypeOK
  <2>3. outcome' = [outcome EXCEPT ![r.id] = "evicted"] /\ r.id \in Jobs
    BY <2>2 DEF ReleaseIfOwned, Stale, End, TypeOK, Rec
  <2> QED BY <2>2, <2>3 DEF TypeOK
<1>7. CASE SweepLost(c) \/ SweepDead(c)
  BY <1>3, <1>7 DEF SweepLost, SweepDead, LossSteps
<1>8. CASE TaskDone(c) \/ TaskDropped(c)
  BY <1>8 DEF TaskDone, TaskDropped
<1> QED BY <1>4, <1>5, <1>6, <1>7, <1>8 DEF Client, SweepStep

(* Spec => []SweepLossIsGenuine: no sweep reports a job that somebody       *)
(* finished, with any interleaving, crash or eviction.                     *)
THEOREM SweepLossIsGenuineCorrect == Spec => []SweepLossIsGenuine
<1>1. Init => SweepLossIsGenuine
  BY DEF Init, SweepLossIsGenuine
<1>2. ASSUME TypeOK, PlaceInv, SweepLossIsGenuine, [Next]_vars PROVE SweepLossIsGenuine'
  <2> SUFFICES ASSUME NEW d \in Clients, pc'[d] \in LossSteps
               PROVE  outcome'[cur'[d]] = "evicted"
    BY DEF SweepLossIsGenuine, LossSteps
  <2>1. ASSUME pc[d] \in LossSteps, cur'[d] = cur[d] PROVE outcome'[cur'[d]] = "evicted"
    <3>1. outcome[cur[d]] = "evicted" /\ cur[d] \in Jobs
      BY <1>2, <2>1 DEF SweepLossIsGenuine, LossSteps, TypeOK, CurSteps
    <3> QED BY <1>2, <2>1, <3>1, StepLasts DEF Settled
  <2>2. ASSUME NEW c \in Clients, Client(c) PROVE outcome'[cur'[d]] = "evicted"
    <3>1. CASE c = d
      BY <1>2, <2>1, <2>2, <3>1, StepToLoss
    <3>2. CASE c # d
      BY <1>2, <2>1, <2>2, <3>2, StepOnly DEF Only
    <3> QED BY <3>1, <3>2
  <2>3. CASE UNCHANGED local
    BY <2>1, <2>3 DEF local
  <2>4. CASE Push \/ Tick \/ UNCHANGED vars \/ \E j \in Jobs : Evict(j) \/ Garble(j)
    BY <2>3, <2>4 DEF Push, PushSet, PushZadd, PushError, PushBatch, Tick, Evict, Garble, vars
  <2> QED BY <1>2, <2>2, <2>4 DEF Next
<1> QED BY <1>1, <1>2, TypeCorrect, PlaceCorrect, PTL DEF Spec

-----------------------------------------------------------------------------
(* Where a job without a body is reported, when no call fails. *)

WaySteps == {"pop_hdel", "pop_lost", "sweep_lost"}

(* The lost list has the job, or a client is about to put it there. *)
OnItsWay(j) == j \in lost \/ \E c \in Clients : pc[c] \in WaySteps /\ cur[c] = j

Present(j) == j \in Waiting \/ j \in DOMAIN processing

Ended(j) == outcome[j] \in {"sent", "dead", "dropped"}

LEMMA StepOnItsWay ==
  ASSUME FaultsUntil = 0, TypeOK, [Next]_vars, NEW j, OnItsWay(j)
  PROVE  OnItsWay(j)'
<1>1. ~MayFail
  BY DEF MayFail, TypeOK
<1>2. lost \subseteq lost'
  <2>1. ASSUME NEW c \in Clients, DiscardLost(c) \/ SweepLost(c) PROVE lost \subseteq lost'
    BY <2>1 DEF DiscardLost, SweepLost
  <2>2. ASSUME NEW c \in Clients,
               \/ PopBegin(c) \/ SweepBegin(c) \/ ClaimRetry(c) \/ ClaimPending(c) \/ PopMget(c)
               \/ DiscardZrem(c) \/ DiscardHdel(c) \/ DiscardDead(c) \/ DiscardDel(c)
        PROVE  lost' = lost
    BY <2>2 DEF PopBegin, SweepBegin, Begin, ClaimRetry, ClaimPending, PopMget, DiscardZrem,
                DiscardHdel, DiscardDead, DiscardDel, redis
  <2>3. ASSUME NEW c \in Clients,
               \/ ClaimStale(c) \/ SweepMget(c) \/ SweepFinish(c) \/ SweepDead(c) \/ TaskDone(c)
               \/ TaskDropped(c) \/ RedisError(c) \/ Crash(c)
        PROVE  lost' = lost
    BY <2>3 DEF ClaimStale, SweepMget, SweepFinish, SweepDead, TaskDone, TaskDropped, RedisError,
                Crash, redis
  <2>4. CASE Push \/ Tick \/ UNCHANGED vars \/ \E k \in Jobs : Evict(k) \/ Garble(k)
    BY <2>4 DEF Push, PushSet, PushZadd, PushError, PushBatch, Tick, Evict, Garble, vars, redis
  <2> QED BY <2>1, <2>2, <2>3, <2>4 DEF Next, Client, PopStep, SweepStep
<1>3. ASSUME NEW c \in Clients, pc[c] \in WaySteps, cur[c] = j PROVE OnItsWay(j)'
  <2>1. CASE UNCHANGED <<pc, cur>>
    BY <1>3, <2>1 DEF OnItsWay
  <2>2. ASSUME NEW d \in Clients, Client(d) PROVE OnItsWay(j)'
    <3>1. CASE d # c
      <4>1. pc'[c] = pc[c] /\ cur'[c] = cur[c]
        BY <2>2, <3>1, StepOnly DEF Only
      <4> QED BY <1>3, <4>1 DEF OnItsWay
    <3>2. CASE d = c /\ (DiscardHdel(c) \/ DiscardLost(c))
      BY <1>3, <3>2 DEF DiscardHdel, DiscardLost, Goto, TypeOK, OnItsWay, WaySteps
    <3>3. CASE d = c /\ SweepLost(c)
      BY <1>3, <3>3 DEF SweepLost, OnItsWay
    <3>4. CASE d = c /\ TaskDone(c)
      BY <2>1, <3>4 DEF TaskDone
    <3> QED BY <1>1, <1>3, <2>2, <3>1, <3>2, <3>3, <3>4
            DEF Client, PopStep, SweepStep, PopBegin, SweepBegin, Begin, ClaimRetry, ClaimPending,
                PopMget, DiscardZrem, DiscardDead, DiscardDel, ClaimStale, SweepMget, SweepFinish,
                SweepDead, TaskDropped, RedisError, Crash, WaySteps
  <2>3. CASE Push \/ Tick \/ UNCHANGED vars \/ \E k \in Jobs : Evict(k) \/ Garble(k)
    BY <2>1, <2>3 DEF Push, PushSet, PushZadd, PushError, PushBatch, Tick, Evict, Garble, vars, local
  <2> QED BY <2>2, <2>3 DEF Next
<1> QED BY <1>2, <1>3 DEF OnItsWay

(* The scripts take a job out of the processing set by requeuing it, by      *)
(* ending it, or as evicted.                                               *)
LEMMA ScriptLeaves ==
  ASSUME TypeOK, NEW r, r.id \in Jobs, NEW score \in Nat, NEW attempts,
         CompleteIfOwned(r) \/ GiveUp(r) \/ FailIfOwned(r, attempts, score),
         NEW j \in Jobs, j \in DOMAIN processing
  PROVE  j \in DOMAIN processing' \/ j \in DOMAIN retry' \/ Ended(j)'
<1>1. CASE Stale(r)
  BY <1>1 DEF Stale
<1>2. CASE ~Stale(r)
  <2>1. processing' = ZRem(processing, {r.id})
    BY <1>2 DEF CompleteIfOwned, GiveUp, DeadLetterIfOwned, DiscardIfOwned, FailIfOwned, Release
  <2>2. j # r.id => j \in DOMAIN processing'
    BY <2>1 DEF ZRem, Restrict
  <2>3. CASE FailIfOwned(r, attempts, score)
    BY <1>2, <2>2, <2>3 DEF FailIfOwned, ZAdd
  <2>4. CASE ~FailIfOwned(r, attempts, score)
    BY <1>2, <2>2, <2>4 DEF CompleteIfOwned, GiveUp, DeadLetterIfOwned, DiscardIfOwned, End, Ended,
                            TypeOK
  <2> QED BY <2>3, <2>4
<1> QED BY <1>1, <1>2

LEMMA StepLeaves ==
  ASSUME TypeOK, [Next]_vars, NEW j \in Jobs, Present(j)
  PROVE  Present(j)' \/ Ended(j)' \/ OnItsWay(j)'
<1>1. CASE j \in Waiting
  BY <1>1, StepEffect
     DEF Effect, Quiet, Submit, Take, Requeue, Finish, Leave, Present, Waiting
<1>2. CASE j \in DOMAIN processing
  <2>1. ASSUME j \in DOMAIN processing' \/ j \in DOMAIN retry' \/ Ended(j)'
        PROVE  Present(j)' \/ Ended(j)' \/ OnItsWay(j)'
    BY <2>1 DEF Present, Waiting
  <2>2. ASSUME NEW c \in Clients, DiscardZrem(c) PROVE Present(j)' \/ OnItsWay(j)'
    <3>1. PICK r \in work[c] :
            processing' = ZRem(processing, {r.id}) /\ cur' = [cur EXCEPT ![c] = r.id]
      BY <2>2 DEF DiscardZrem
    <3>2. pc'[c] = "pop_hdel" /\ cur'[c] = r.id
      BY <2>2, <3>1 DEF DiscardZrem, Goto, TypeOK
    <3>3. CASE j = r.id
      BY <3>2, <3>3 DEF OnItsWay, WaySteps
    <3>4. CASE j # r.id
      BY <1>2, <3>1, <3>4 DEF ZRem, Restrict, Present
    <3> QED BY <3>3, <3>4
  <2>3. ASSUME NEW c \in Clients, ClaimRetry(c) \/ ClaimPending(c) \/ ClaimStale(c)
        PROVE  j \in DOMAIN processing'
    <3>1. CASE ClaimStale(c)
      BY <1>2, <3>1 DEF ClaimStale, ZAdd
    <3>2. CASE ClaimRetry(c) \/ ClaimPending(c)
      <4>1. PICK new : processing' = ZAdd(processing, new, now[c])
        BY <3>2 DEF ClaimRetry, ClaimPending, ClaimFresh
      <4> QED BY <1>2, <4>1 DEF ZAdd
    <3> QED BY <2>3, <3>1, <3>2
  <2>4. ASSUME NEW c \in Clients, SweepFinish(c)
        PROVE  j \in DOMAIN processing' \/ j \in DOMAIN retry' \/ Ended(j)' \/ OnItsWay(j)'
    <3>1. PICK r \in work[c] : Reclaim(c, r) \/ SkipCorrupt(c, r) \/ ReleaseMissing(c, r)
      BY <2>4 DEF SweepFinish
    <3>2. r.id \in Jobs /\ now[c] \in Nat
      BY DEF TypeOK, Rec
    <3>3. CASE Reclaim(c, r)
      BY <1>2, <3>2, <3>3, ScriptLeaves DEF Reclaim
    <3>4. CASE SkipCorrupt(c, r)
      BY <1>2, <3>4 DEF SkipCorrupt
    <3>5. CASE ReleaseMissing(c, r) /\ ~Owned(r)
      BY <1>2, <3>5 DEF ReleaseMissing, ReleaseIfOwned, Stale
    <3>6. CASE ReleaseMissing(c, r) /\ Owned(r)
      <4>1. processing' = ZRem(processing, {r.id}) /\ cur'[c] = r.id /\ pc'[c] = "sweep_lost"
        BY <3>6 DEF ReleaseMissing, ReleaseIfOwned, Stale, Release, Goto, TypeOK
      <4> QED BY <1>2, <4>1 DEF ZRem, Restrict, OnItsWay, WaySteps
    <3> QED BY <3>1, <3>3, <3>4, <3>5, <3>6
  <2>5. ASSUME NEW c \in Clients, TaskDone(c)
        PROVE  j \in DOMAIN processing' \/ j \in DOMAIN retry' \/ Ended(j)'
    <3>1. PICK h \in held[c] : TaskSent(c, h) \/ TaskFailed(c, h)
      BY <2>5 DEF TaskDone
    <3>2. h.id \in Jobs
      BY DEF TypeOK, Held
    <3>3. 0 \in Nat /\ \A delay \in RetryDelays : clock + delay \in Nat
      BY SMTT(30), ConfigAssumption DEF TypeOK
    <3> QED BY <1>2, <3>1, <3>2, <3>3, ScriptLeaves DEF TaskSent, TaskFailed
  <2>6. CASE UNCHANGED processing
    BY <1>2, <2>1, <2>6
  <2>7. CASE Push \/ Tick \/ UNCHANGED vars \/ \E k \in Jobs : Evict(k) \/ Garble(k)
    BY <2>6, <2>7 DEF Push, PushSet, PushZadd, PushError, PushBatch, Tick, Evict, Garble, vars, redis
  <2>8. ASSUME NEW c \in Clients,
               \/ PopBegin(c) \/ SweepBegin(c) \/ PopMget(c) \/ DiscardHdel(c) \/ DiscardLost(c)
               \/ DiscardDead(c) \/ DiscardDel(c) \/ SweepMget(c) \/ SweepLost(c) \/ SweepDead(c)
               \/ TaskDropped(c) \/ RedisError(c) \/ Crash(c)
        PROVE  UNCHANGED processing
    BY <2>8 DEF PopBegin, SweepBegin, Begin, PopMget, DiscardHdel, DiscardLost, DiscardDead,
                DiscardDel, SweepMget, SweepLost, SweepDead, TaskDropped, RedisError, Crash, redis
  <2> QED BY <2>1, <2>2, <2>3, <2>4, <2>5, <2>6, <2>7, <2>8 DEF Next, Client, PopStep, SweepStep
<1> QED BY <1>1, <1>2 DEF Present

(* LossIsReported for every configuration, when no call fails: with or       *)
(* without evictions, whichever of a pop and a sweep finds the body gone.    *)
THEOREM LossIsReportedCorrect ==
  ASSUME FaultsUntil = 0
  PROVE  Spec => []LossIsReported
<1> DEFINE Told == \A j \in Jobs : submitted[j] = "queued" /\ outcome[j] \in {"open", "evicted"} =>
                      Present(j) \/ OnItsWay(j)
<1>1. Init => Told
  BY DEF Init
<1>2. ASSUME TypeOK, PlaceInv, Told, [Next]_vars PROVE Told'
  <2> SUFFICES ASSUME NEW j \in Jobs, submitted'[j] = "queued", outcome'[j] \in {"open", "evicted"}
               PROVE  Present(j)' \/ OnItsWay(j)'
    OBVIOUS
  <2>1. CASE submitted[j] = "queued"
    <3>1. outcome[j] \in {"open", "evicted"}
      BY <1>2, StepLasts DEF Settled
    <3>2. ~Ended(j)'
      BY DEF Ended
    <3> QED BY <1>2, <2>1, <3>1, <3>2, StepLeaves, StepOnItsWay
  <2>2. CASE submitted[j] # "queued"
    BY <1>2, <2>2, StepEffect
       DEF Effect, Quiet, Submit, Take, Requeue, Finish, Leave, Present, Waiting
  <2> QED BY <2>1, <2>2
<1>3. Told => LossIsReported
  BY DEF LossIsReported, Present, OnItsWay, Places, Waiting, WaySteps
<1> HIDE DEF Told
<1> QED BY <1>1, <1>2, <1>3, TypeCorrect, PlaceCorrect, PTL DEF Spec

-----------------------------------------------------------------------------
(* While Redis keeps the bodies. *)

(* The jobs whose bodies Redis neither evicts nor garbles. *)
Sturdy == Jobs \ (Evictable \cup Corruptible)

(* The claim hash and the processing set agree on the job; it is never given *)
(* up as evicted; and while it has not ended it keeps its body and a place. *)
Safe(j) ==
  /\ j \in DOMAIN claim <=> j \in DOMAIN processing
  /\ outcome[j] # "evicted"
  /\ ~Settled(j) /\ submitted[j] \in {"stored", "queued"} => j \in DOMAIN body /\ body[j] \in Nat
  /\ ~Settled(j) /\ submitted[j] = "queued" => j \in Waiting \cup DOMAIN claim

FetchedSteps == {"pop_zrem", "pop_hdel", "pop_lost", "pop_dead", "pop_del",
                 "sweep_finish", "sweep_lost", "sweep_dead"}
DiscardSteps == {"pop_hdel", "pop_lost", "pop_dead", "pop_del"}

(* A record is of an accepted job; if MGET found no body for it, or its     *)
(* claim is being dropped, the job has ended.                              *)
RecordInv(c) ==
  /\ \A r \in RecordsOf(c) : submitted[r.id] = "queued"
  /\ pc[c] \in FetchedSteps =>
       \A r \in work[c] : r.id \in Sturdy /\ ~Readable(r) => Settled(r.id)
  /\ pc[c] \in DiscardSteps /\ cur[c] \in Sturdy => Settled(cur[c])

KeepInv == (\A j \in Sturdy : Safe(j)) /\ (\A c \in Clients : RecordInv(c))

(* What a step does to a client's records: it keeps them, ... *)
KeepsRecords(c) ==
  /\ RecordsOf(c)' \subseteq RecordsOf(c)
  /\ pc'[c] \in FetchedSteps => pc[c] \in FetchedSteps /\ work'[c] \subseteq work[c]
  /\ pc'[c] \in DiscardSteps => pc[c] \in DiscardSteps /\ cur'[c] = cur[c]

(* ... adds waiting or claimed jobs, not yet fetched, ... *)
AddsRecords(c) ==
  /\ pc'[c] \notin FetchedSteps
  /\ \A r \in RecordsOf(c)' : r \in RecordsOf(c) \/ r.id \in Waiting \cup DOMAIN processing

(* ... or fetches them. *)
FetchesRecords(c) ==
  /\ pc'[c] \notin DiscardSteps
  /\ RecordsOf(c)' \subseteq held[c] \cup Fetched(c) /\ work'[c] \subseteq Fetched(c)
  /\ UNCHANGED <<body, submitted, outcome>>

LEMMA StepMoves ==
  ASSUME TypeOK, NEW c \in Clients, Client(c)
  PROVE  KeepsRecords(c) \/ AddsRecords(c) \/ FetchesRecords(c) \/ DiscardZrem(c)
<1> USE DEF FetchedSteps, DiscardSteps
<1>1. ASSUME NEW S \in SUBSET work[c], Return(c, S) PROVE KeepsRecords(c)
  BY <1>1 DEF Return, KeepsRecords, RecordsOf, TypeOK
<1>2. ASSUME NEW step, Goto(c, step), UNCHANGED <<work, cur, held>>,
             step \in DiscardSteps => pc[c] \in DiscardSteps,
             step \in FetchedSteps => pc[c] \in FetchedSteps
      PROVE  KeepsRecords(c)
  BY <1>2 DEF Goto, KeepsRecords, RecordsOf, TypeOK
<1>3. ASSUME NEW S \in SUBSET work[c], SweepRest(c, S), pc[c] \in FetchedSteps
      PROVE  KeepsRecords(c)
  BY <1>1, <1>3 DEF SweepRest, Goto, KeepsRecords, RecordsOf, TypeOK
<1>4. CASE PopBegin(c) \/ SweepBegin(c)
  BY <1>4 DEF PopBegin, SweepBegin, Begin, KeepsRecords, RecordsOf, TypeOK
<1>5. CASE ClaimRetry(c) \/ ClaimPending(c)
  <2>1. PICK step \in {"pop_pending", "pop_mget", "idle"}, S \in SUBSET Waiting :
          Goto(c, step) /\ ClaimFresh(c, S) /\ UNCHANGED <<cur, held>>
    <3>1. CASE ClaimRetry(c)
      BY <3>1 DEF ClaimRetry, FirstByScore, Waiting
    <3>2. CASE ClaimPending(c)
      BY <3>2 DEF ClaimPending, FirstByScore, Waiting
    <3> QED BY <1>5, <3>1, <3>2
  <2>2. PICK token \in Bijection(S, claimSeq + 1 .. claimSeq + Cardinality(S)) :
          work' = [work EXCEPT ![c] = work[c] \cup
                     {[id |-> j, token |-> token[j], attempts |-> NoBody] : j \in S}]
    BY <2>1 DEF ClaimFresh
  <2>3. pc'[c] = step
    BY <2>1 DEF Goto, TypeOK
  <2>4. \A r \in work'[c] : r \in work[c] \/ r.id \in Waiting
    BY <2>2 DEF TypeOK
  <2> QED BY <2>1, <2>3, <2>4 DEF AddsRecords, RecordsOf
<1>6. CASE PopMget(c) \/ SweepMget(c)
  <2>1. CASE Return(c, Fetched(c))
    BY <1>6, <2>1 DEF PopMget, SweepMget, Return, FetchesRecords, RecordsOf, TypeOK, redis, history
  <2>2. CASE ~Return(c, Fetched(c))
    <3>1. PICK step \in {"pop_zrem", "sweep_finish"} :
            Goto(c, step) /\ work' = [work EXCEPT ![c] = Fetched(c)] /\ UNCHANGED held
      BY <1>6, <2>2 DEF PopMget, SweepMget
    <3> QED BY <1>6, <3>1
            DEF PopMget, SweepMget, Goto, FetchesRecords, RecordsOf, TypeOK, redis, history
  <2> QED BY <2>1, <2>2
<1>7. CASE DiscardHdel(c) \/ DiscardLost(c) \/ DiscardDead(c)
  BY <1>2, <1>7 DEF DiscardHdel, DiscardLost, DiscardDead
<1>8. CASE DiscardDel(c)
  <2> DEFINE rest == {r \in work[c] : r.id # cur[c]}
  <2>1. CASE Return(c, rest)
    BY <1>1, <2>1
  <2>2. CASE ~Return(c, rest)
    BY <1>8, <2>2 DEF DiscardDel, Goto, KeepsRecords, RecordsOf, TypeOK
  <2> QED BY <2>1, <2>2
<1>9. CASE ClaimStale(c)
  <2>1. CASE Return(c, {})
    BY <1>1, <2>1
  <2>2. CASE ~Return(c, {})
    <3>1. PICK S \in SUBSET DOMAIN processing :
            work' = [work EXCEPT ![c] =
                       {[id |-> j, token |-> TokenOf(j), attempts |-> NoBody] : j \in S}]
      BY <1>9, <2>2 DEF ClaimStale, FirstByScore
    <3>2. pc'[c] = "sweep_mget" /\ UNCHANGED held
      BY <1>9, <2>2 DEF ClaimStale, Goto, TypeOK
    <3>3. \A r \in work'[c] : r.id \in DOMAIN processing
      BY <3>1 DEF TypeOK
    <3> QED BY <3>2, <3>3 DEF AddsRecords, RecordsOf
  <2> QED BY <2>1, <2>2
<1>10. CASE SweepFinish(c)
  <2>1. CASE \E S \in SUBSET work[c] : SweepRest(c, S)
    BY <1>3, <1>10, <2>1 DEF SweepFinish
  <2>2. CASE ~\E S \in SUBSET work[c] : SweepRest(c, S)
    <3>1. PICK r \in work[c] : ReleaseMissing(c, r)
      BY <1>10, <2>2 DEF SweepFinish, Reclaim, SkipCorrupt
    <3>2. Goto(c, "sweep_lost") /\ UNCHANGED <<work, held>>
      BY <2>2, <3>1 DEF ReleaseMissing
    <3> QED BY <1>10, <3>2 DEF SweepFinish, Goto, KeepsRecords, RecordsOf, TypeOK
  <2> QED BY <2>1, <2>2
<1>11. CASE SweepLost(c) \/ SweepDead(c)
  BY <1>2, <1>3, <1>11 DEF SweepLost, SweepDead
<1>12. CASE TaskDone(c) \/ TaskDropped(c)
  BY <1>12 DEF TaskDone, TaskDropped, KeepsRecords, RecordsOf, TypeOK
<1>13. CASE RedisError(c)
  <2>1. PICK S \in SUBSET work[c] : Return(c, S)
    BY <1>13 DEF RedisError
  <2> QED BY <1>1, <2>1
<1>14. CASE Crash(c)
  BY <1>14 DEF Crash, KeepsRecords, RecordsOf, TypeOK
<1> QED BY <1>4, <1>5, <1>6, <1>7, <1>8, <1>9, <1>10, <1>11, <1>12, <1>13, <1>14
        DEF Client, PopStep, SweepStep

(* The records stay explained while the bodies of sturdy jobs stay. *)
LEMMA StepRecordInv ==
  ASSUME TypeOK, PlaceInv, KeepInv, [Next]_vars, NEW d \in Clients
  PROVE  RecordInv(d)'
<1>1. \A j \in Jobs : submitted[j] = "queued" => submitted'[j] = "queued"
  BY StepLasts
<1>2. \A j \in Jobs : Settled(j) => Settled(j)'
  BY StepLasts DEF Settled
<1>3. /\ \A r \in RecordsOf(d) : r.id \in Jobs
      /\ work[d] \subseteq RecordsOf(d) /\ (work[d] \subseteq RecordsOf(d))'
      /\ Sturdy \subseteq Jobs /\ RecordInv(d)
  BY DEF TypeOK, Rec, Held, RecordsOf, Sturdy, KeepInv
<1>4. ASSUME KeepsRecords(d) PROVE RecordInv(d)'
  BY <1>1, <1>2, <1>3, <1>4 DEF KeepsRecords, RecordInv, Readable
<1>5. ASSUME AddsRecords(d) PROVE RecordInv(d)'
  <2>1. \A j \in Waiting \cup DOMAIN processing : j \in Jobs /\ submitted[j] = "queued"
    BY DEF TypeOK, ZSet, Waiting, PlaceInv
  <2>2. pc'[d] \notin DiscardSteps
    BY <1>5 DEF AddsRecords, DiscardSteps, FetchedSteps
  <2> QED BY <1>1, <1>3, <1>5, <2>1, <2>2 DEF AddsRecords, RecordInv
<1>6. ASSUME FetchesRecords(d) PROVE RecordInv(d)'
  <2>1. ASSUME NEW q \in work[d], NEW r, r = [q EXCEPT !.attempts = BodyOf(q.id)]
        PROVE  /\ r.id \in Jobs /\ submitted[r.id] = "queued"
               /\ r.id \in Sturdy /\ ~Readable(r) => Settled(r.id)
    <3>1. r.id = q.id /\ r.attempts = BodyOf(q.id) /\ q \in RecordsOf(d)
      BY <2>1 DEF TypeOK, Rec, RecordsOf
    <3>2. submitted[r.id] = "queued"
      BY <1>3, <3>1 DEF RecordInv
    <3>3. r.id \in Sturdy /\ ~Settled(r.id) => BodyOf(r.id) \in Nat
      BY <3>2 DEF KeepInv, Safe, BodyOf
    <3> QED BY <1>3, <3>1, <3>2, <3>3, BodyAssumption DEF Readable
  <2>2. \A r \in Fetched(d) : /\ r.id \in Jobs /\ submitted[r.id] = "queued"
                              /\ r.id \in Sturdy /\ ~Readable(r) => Settled(r.id)
    BY <2>1 DEF Fetched
  <2>3. \A r \in held[d] : r.id \in Jobs /\ submitted[r.id] = "queued"
    BY <1>3 DEF RecordsOf, RecordInv
  <2> QED BY <1>1, <1>2, <1>6, <2>2, <2>3 DEF FetchesRecords, RecordInv, Readable
<1>7. ASSUME DiscardZrem(d) PROVE RecordInv(d)'
  <2>1. PICK r \in work[d] : ~Readable(r) /\ cur' = [cur EXCEPT ![d] = r.id]
    BY <1>7 DEF DiscardZrem
  <2>2. /\ pc[d] = "pop_zrem" /\ pc'[d] = "pop_hdel" /\ cur'[d] = r.id
        /\ UNCHANGED <<work, held, outcome>>
    BY <1>7, <2>1 DEF DiscardZrem, Goto, TypeOK, history
  <2>3. r.id \in Sturdy => Settled(r.id)
    BY <1>3, <2>1, <2>2 DEF RecordInv, FetchedSteps
  <2>4. \A q \in work[d] : q.id \in Sturdy /\ ~Readable(q) => Settled(q.id)
    BY <1>3, <2>2 DEF RecordInv, FetchedSteps
  <2>5. \A q \in RecordsOf(d)' : submitted'[q.id] = "queued"
    BY <1>1, <1>3, <2>2 DEF RecordInv, RecordsOf
  <2> QED BY <1>2, <1>3, <2>2, <2>3, <2>4, <2>5 DEF RecordInv, Readable
<1>8. ASSUME NEW c \in Clients, Client(c) PROVE RecordInv(d)'
  <2>1. CASE c = d
    BY <1>4, <1>5, <1>6, <1>7, <1>8, <2>1, StepMoves
  <2>2. CASE c # d
    <3>1. KeepsRecords(d)
      BY <1>8, <2>2, StepOnly DEF Only, KeepsRecords, RecordsOf
    <3> QED BY <1>4, <3>1
  <2> QED BY <2>1, <2>2
<1>9. CASE Push \/ Tick \/ UNCHANGED vars \/ \E j \in Jobs : Evict(j) \/ Garble(j)
  <2>1. UNCHANGED local
    BY <1>9 DEF Push, PushSet, PushZadd, PushError, PushBatch, Tick, Evict, Garble, vars
  <2>2. KeepsRecords(d)
    BY <2>1 DEF local, KeepsRecords, RecordsOf
  <2> QED BY <1>4, <2>2
<1> QED BY <1>8, <1>9 DEF Next

(* Nothing that could make the job unsafe is changed. *)
Untouched(j) ==
  /\ j \in DOMAIN claim' <=> j \in DOMAIN claim
  /\ j \in DOMAIN processing' <=> j \in DOMAIN processing
  /\ j \in DOMAIN body => j \in DOMAIN body' /\ body'[j] = body[j]
  /\ j \in Waiting => j \in Waiting'
  /\ outcome'[j] = outcome[j]
  /\ submitted'[j] # submitted[j] => submitted'[j] = "refused"

LEMMA UntouchedSafe ==
  ASSUME NEW j, Safe(j), Untouched(j) PROVE Safe(j)'
  BY DEF Untouched, Safe, Settled

(* A script leaves the jobs it is not about alone, and ends or requeues the *)
(* one it is about; only the release of a missing body gives it up.         *)
LEMMA ScriptSafe ==
  ASSUME TypeOK, PlaceInv, NEW r, r.id \in Jobs, NEW score, NEW attempts \in Nat,
         UNCHANGED <<pending, submitted>>,
         \/ CompleteIfOwned(r) \/ GiveUp(r) \/ FailIfOwned(r, attempts, score)
         \/ ReleaseIfOwned(r) /\ (r.id \in Sturdy => Settled(r.id)),
         NEW j \in Sturdy, Safe(j)
  PROVE  Safe(j)'
<1> USE DEF Sturdy
<1>1. CASE Stale(r)
  BY <1>1, UntouchedSafe DEF Stale, Untouched, Waiting
<1>2. CASE ~Stale(r)
  <2>1. /\ Owned(r) /\ processing' = ZRem(processing, {r.id}) /\ claim' = HDel(claim, r.id)
    BY <1>2 DEF CompleteIfOwned, GiveUp, DeadLetterIfOwned, DiscardIfOwned, FailIfOwned,
                ReleaseIfOwned, Release
  <2>2. r.id \in DOMAIN claim /\ ~Settled(r.id)
    BY <2>1 DEF Owned, PlaceInv
  <2>3. /\ DOMAIN claim' = DOMAIN claim \ {r.id}
        /\ DOMAIN processing' = DOMAIN processing \ {r.id}
    BY <2>1, HDelFacts, ZRemFacts DEF TypeOK
  <2>4. CASE FailIfOwned(r, attempts, score)
    <3>1. /\ body' = HSet(body, [k \in {r.id} |-> attempts])
          /\ retry' = ZAdd(retry, {r.id}, score) /\ UNCHANGED outcome
      BY <1>2, <2>4 DEF FailIfOwned
    <3>2. DOMAIN retry' = DOMAIN retry \cup {r.id}
      BY <3>1 DEF ZAdd
    <3>3. /\ DOMAIN body' = DOMAIN body \cup {r.id} /\ body'[r.id] = attempts
          /\ \A k \in DOMAIN body \ {r.id} : body'[k] = body[k]
      BY <3>1 DEF HSet
    <3>4. CASE j = r.id
      BY <2>3, <3>1, <3>2, <3>3, <3>4 DEF Safe, Settled, Waiting
    <3>5. CASE j # r.id
      BY <2>3, <3>1, <3>2, <3>3, <3>5, UntouchedSafe DEF Untouched, Waiting
    <3> QED BY <3>4, <3>5
  <2>5. CASE ~FailIfOwned(r, attempts, score)
    <3>1. PICK how \in {"sent", "dropped", "dead", "evicted"} :
            /\ outcome' = [outcome EXCEPT ![r.id] = how] /\ UNCHANGED retry
            /\ how = "evicted" => r.id \notin Sturdy
      BY <1>2, <2>2, <2>5 DEF CompleteIfOwned, GiveUp, DeadLetterIfOwned, DiscardIfOwned,
                              ReleaseIfOwned, End
    <3>2. UNCHANGED body \/ body' = HDel(body, r.id)
      BY <1>2, <2>5 DEF CompleteIfOwned, GiveUp, DeadLetterIfOwned, DiscardIfOwned, ReleaseIfOwned
    <3>3. outcome'[r.id] = how /\ \A k \in Jobs \ {r.id} : outcome'[k] = outcome[k]
      BY <3>1 DEF TypeOK
    <3>4. CASE j = r.id
      BY <2>3, <3>1, <3>3, <3>4 DEF Safe, Settled
    <3>5. CASE j # r.id
      <4>1. j \in DOMAIN body => j \in DOMAIN body' /\ body'[j] = body[j]
        BY <3>2, <3>5 DEF HDel, Restrict
      <4> QED BY <2>3, <3>1, <3>3, <3>5, <4>1, UntouchedSafe DEF Untouched, Waiting
    <3> QED BY <3>4, <3>5
  <2> QED BY <2>4, <2>5
<1> QED BY <1>1, <1>2

(* No step touches a job that Redis keeps, but for the claims and the ends  *)
(* of its life.                                                            *)
LEMMA StepSafe ==
  ASSUME TypeOK, PlaceInv, KeepInv, [Next]_vars, NEW j \in Sturdy
  PROVE  Safe(j)'
<1>0. Safe(j) /\ j \in Jobs /\ PlaceInv' /\ (Settled(j) => j \notin DOMAIN claim)
  BY PlaceStep DEF KeepInv, Sturdy, PlaceInv
<1>1. ASSUME Untouched(j) PROVE Safe(j)'
  BY <1>0, <1>1, UntouchedSafe
<1>2. ASSUME UNCHANGED <<body, pending, retry, claim, outcome, submitted>>,
             DOMAIN processing' = DOMAIN processing
      PROVE  Safe(j)'
  BY <1>1, <1>2 DEF Untouched, Waiting
<1>3. ASSUME NEW k \in Jobs, PushSet(k) PROVE Safe(j)'
  <2>1. /\ body' = HSet(body, [i \in {k} |-> 0]) /\ submitted' = [submitted EXCEPT ![k] = "stored"]
        /\ UNCHANGED <<pending, retry, processing, claim, outcome>>
    BY <1>3 DEF PushSet
  <2>2. j # k => (j \in DOMAIN body => j \in DOMAIN body' /\ body'[j] = body[j])
    BY <2>1 DEF HSet
  <2>3. k \in DOMAIN body' /\ body'[k] = 0
    BY <2>1 DEF HSet
  <2>4. submitted'[k] = "stored" /\ (j # k => submitted'[j] = submitted[j])
    BY <1>0, <2>1 DEF TypeOK
  <2> QED BY <1>0, <1>1, <2>1, <2>2, <2>3, <2>4 DEF Untouched, Waiting, Safe, Settled
<1>4. ASSUME NEW S \in SUBSET Jobs, PushBatch(S) PROVE Safe(j)'
  <2>1. /\ body' = HSet(body, [i \in S |-> 0])
        /\ pending' = pending \cup S
        /\ submitted'[j] = IF j \in S THEN "queued" ELSE submitted[j]
        /\ UNCHANGED <<retry, processing, claim, outcome>>
    BY <1>0, <1>4 DEF PushBatch
  <2>2. /\ j \in S => j \in DOMAIN body' /\ body'[j] = 0
        /\ j \notin S => (j \in DOMAIN body => j \in DOMAIN body' /\ body'[j] = body[j])
    BY <2>1 DEF HSet
  <2> QED BY <1>0, <1>1, <2>1, <2>2 DEF Untouched, Waiting, Safe, Settled
<1>5. ASSUME NEW k \in Jobs, PushZadd(k) PROVE Safe(j)'
  <2>1. /\ submitted[k] = "stored" /\ pending' = pending \cup {k}
        /\ submitted'[j] = IF j = k THEN "queued" ELSE submitted[j]
        /\ UNCHANGED <<body, retry, processing, claim, outcome>>
    BY <1>0, <1>5 DEF PushZadd, TypeOK
  <2> QED BY <1>0, <2>1 DEF Waiting, Safe, Settled
<1>6. ASSUME NEW k \in Jobs, PushError(k) PROVE Safe(j)'
  <2>1. submitted'[j] = (IF j = k THEN "refused" ELSE submitted[j]) /\ UNCHANGED <<redis, outcome>>
    BY <1>0, <1>6 DEF PushError, TypeOK
  <2> QED BY <1>1, <2>1 DEF redis, Untouched, Waiting
<1>7. ASSUME NEW k \in Jobs, Evict(k) \/ Garble(k) PROVE Safe(j)'
  <2>1. j # k
    BY <1>7 DEF Evict, Garble, Sturdy
  <2>2. j \in DOMAIN body => j \in DOMAIN body' /\ body'[j] = body[j]
    BY <1>7, <2>1 DEF Evict, Garble, HDel, Restrict
  <2> QED BY <1>1, <1>7, <2>2 DEF Evict, Garble, Untouched, Waiting, history
<1>8. ASSUME NEW c \in Clients, ClaimRetry(c) \/ ClaimPending(c) PROVE Safe(j)'
  <2>1. UNCHANGED <<body, submitted, outcome>>
    BY <1>8 DEF ClaimRetry, ClaimPending
  <2>2. PICK S : /\ ClaimFresh(c, S)
                 /\ \/ retry' = ZRem(retry, S) /\ UNCHANGED pending
                    \/ pending' = pending \ S /\ UNCHANGED retry
    <3>1. CASE ClaimRetry(c)
      BY <3>1 DEF ClaimRetry
    <3>2. CASE ClaimPending(c)
      BY <3>2 DEF ClaimPending
    <3> QED BY <1>8, <3>1, <3>2
  <2>3. DOMAIN processing' = DOMAIN processing \cup S /\ DOMAIN claim' = DOMAIN claim \cup S
    <3>1. PICK token \in Bijection(S, claimSeq + 1 .. claimSeq + Cardinality(S)) :
            processing' = ZAdd(processing, S, now[c]) /\ claim' = HSet(claim, token)
      BY <2>2 DEF ClaimFresh
    <3>2. DOMAIN token = S
      BY DEF Bijection, Injection, Surjection
    <3> QED BY <3>1, <3>2, HSetFacts DEF ZAdd
  <2>4. j \notin S => (j \in Waiting => j \in Waiting')
    BY <2>2 DEF Waiting, ZRem, Restrict
  <2> QED BY <1>0, <2>1, <2>3, <2>4 DEF Safe, Settled
<1>9. ASSUME NEW c \in Clients,
             DiscardZrem(c) \/ DiscardHdel(c) \/ DiscardLost(c) \/ DiscardDead(c) \/ DiscardDel(c)
      PROVE  Safe(j)'
  <2>1. RecordInv(c) /\ UNCHANGED <<pending, retry, submitted, outcome>>
    BY <1>9 DEF KeepInv, DiscardZrem, DiscardHdel, DiscardLost, DiscardDead, DiscardDel, history
  <2>2. CASE DiscardZrem(c)
    <3>1. PICK r \in work[c] : ~Readable(r) /\ processing' = ZRem(processing, {r.id})
      BY <2>2 DEF DiscardZrem
    <3>2. r.id \in Sturdy => Settled(r.id)
      BY <2>1, <2>2, <3>1 DEF RecordInv, DiscardZrem, FetchedSteps
    <3>3. Settled(j) => j \notin DOMAIN processing
      BY <1>0 DEF PlaceInv
    <3>4. j \in DOMAIN processing' <=> j \in DOMAIN processing
      BY <3>1, <3>2, <3>3 DEF ZRem, Restrict
    <3> QED BY <1>1, <2>1, <2>2, <3>4 DEF DiscardZrem, Untouched, Waiting
  <2>3. CASE ~DiscardZrem(c)
    <3>1. j = cur[c] => Settled(j)
      BY <1>9, <2>1, <2>3
         DEF RecordInv, DiscardHdel, DiscardLost, DiscardDead, DiscardDel, DiscardSteps
    <3>2. CASE Settled(j)
      <4>1. UNCHANGED processing /\ (UNCHANGED claim \/ claim' = HDel(claim, cur[c]))
        BY <1>9, <2>3 DEF DiscardHdel, DiscardLost, DiscardDead, DiscardDel
      <4>2. j \notin DOMAIN claim'
        BY <1>0, <3>2, <4>1 DEF HDel, Restrict
      <4> QED BY <1>0, <2>1, <3>2, <4>1, <4>2 DEF Safe, Settled
    <3>3. CASE j # cur[c]
      <4>1. /\ UNCHANGED processing
            /\ UNCHANGED claim \/ claim' = HDel(claim, cur[c])
            /\ UNCHANGED body \/ body' = HDel(body, cur[c])
        BY <1>9, <2>3 DEF DiscardHdel, DiscardLost, DiscardDead, DiscardDel
      <4>2. /\ j \in DOMAIN claim' <=> j \in DOMAIN claim
            /\ j \in DOMAIN body => j \in DOMAIN body' /\ body'[j] = body[j]
        BY <3>3, <4>1 DEF HDel, Restrict
      <4> QED BY <1>1, <2>1, <4>1, <4>2 DEF Untouched, Waiting
    <3> QED BY <3>1, <3>2, <3>3
  <2> QED BY <2>2, <2>3
<1>10. ASSUME NEW c \in Clients, ClaimStale(c) PROVE Safe(j)'
  <2>1. DOMAIN processing' = DOMAIN processing
    BY <1>10 DEF ClaimStale, FirstByScore, ZAdd
  <2> QED BY <1>2, <1>10, <2>1 DEF ClaimStale, history
<1>11. ASSUME NEW c \in Clients, SweepFinish(c) PROVE Safe(j)'
  <2>1. PICK r \in work[c] : Reclaim(c, r) \/ SkipCorrupt(c, r) \/ ReleaseMissing(c, r)
    BY <1>11 DEF SweepFinish
  <2>2. r \in Rec /\ r.id \in Jobs /\ RecordInv(c) /\ UNCHANGED <<pending, submitted>>
    BY <1>11 DEF TypeOK, Rec, KeepInv, SweepFinish
  <2>3. CASE Reclaim(c, r)
    <3>1. r.attempts + 1 \in Nat
      BY <2>2, <2>3 DEF Reclaim, Readable, Rec, Body
    <3> QED BY <1>0, <2>2, <2>3, <3>1, ScriptSafe DEF Reclaim
  <2>4. CASE SkipCorrupt(c, r)
    BY <1>2, <2>2, <2>4 DEF SkipCorrupt
  <2>5. CASE ReleaseMissing(c, r)
    <3>1. r.id \in Sturdy => Settled(r.id)
      BY <1>11, <2>2, <2>5 DEF RecordInv, ReleaseMissing, Readable, SweepFinish, FetchedSteps
    <3>2. 0 \in Nat
      OBVIOUS
    <3> QED BY <1>0, <2>2, <2>5, <3>1, <3>2, ScriptSafe DEF ReleaseMissing
  <2> QED BY <2>1, <2>3, <2>4, <2>5
<1>12. ASSUME NEW c \in Clients, TaskDone(c) PROVE Safe(j)'
  <2>1. PICK h \in held[c] : TaskSent(c, h) \/ TaskFailed(c, h)
    BY <1>12 DEF TaskDone
  <2>2. h.id \in Jobs /\ h.attempts + 1 \in Nat /\ UNCHANGED <<pending, submitted>>
    BY <1>12 DEF TypeOK, Held, TaskDone
  <2> QED BY <1>0, <2>1, <2>2, ScriptSafe DEF TaskSent, TaskFailed
<1>13. ASSUME NEW c \in Clients,
              \/ PopBegin(c) \/ SweepBegin(c) \/ PopMget(c) \/ SweepMget(c) \/ SweepLost(c)
              \/ SweepDead(c) \/ TaskDropped(c) \/ RedisError(c) \/ Crash(c)
       PROVE  Safe(j)'
  BY <1>2, <1>13 DEF PopBegin, SweepBegin, Begin, PopMget, SweepMget, SweepLost, SweepDead,
                     TaskDropped, RedisError, Crash, redis, history
<1>14. CASE Tick \/ UNCHANGED vars
  BY <1>2, <1>14 DEF Tick, vars, redis, history
<1> QED BY <1>3, <1>4, <1>5, <1>6, <1>7, <1>8, <1>9, <1>10, <1>11, <1>12, <1>13, <1>14
        DEF Next, Push, Client, PopStep, SweepStep

LEMMA KeepCorrect == Spec => []KeepInv
<1>1. Init => KeepInv
  BY DEF Init, KeepInv, Safe, RecordInv, RecordsOf, Settled, Sturdy, FetchedSteps, DiscardSteps
<1>2. ASSUME TypeOK, PlaceInv, KeepInv, [Next]_vars PROVE KeepInv'
  BY <1>2, StepSafe, StepRecordInv DEF KeepInv
<1> QED BY <1>1, <1>2, TypeCorrect, PlaceCorrect, PTL DEF Spec

(* A job of Sturdy that was accepted is never given up as evicted, and until *)
(* it ends it is waiting or claimed, with a readable body: nothing that     *)
(* happens to other jobs, to clients or to calls strands it.                *)
THEOREM SturdyJobsKept ==
  Spec => [](\A j \in Sturdy : submitted[j] = "queued" =>
               /\ outcome[j] # "evicted"
               /\ ~Settled(j) => Places(j) # {} /\ BodyOf(j) \in Nat)
<1>1. KeepInv => \A j \in Sturdy : submitted[j] = "queued" =>
                   /\ outcome[j] # "evicted"
                   /\ ~Settled(j) => Places(j) # {} /\ BodyOf(j) \in Nat
  BY DEF KeepInv, Safe, Places, BodyOf, Waiting
<1> QED BY <1>1, KeepCorrect, PTL

(* Spec => []NoSilentLoss where Redis neither evicts nor garbles bodies.    *)
THEOREM NoSilentLossCorrect ==
  ASSUME Jobs \cap (Evictable \cup Corruptible) = {}
  PROVE  Spec => []NoSilentLoss
<1>1. KeepInv => NoSilentLoss
  BY DEF KeepInv, Safe, Sturdy, NoSilentLoss, Places, BodyOf, Waiting
<1> QED BY <1>1, KeepCorrect, PTL

(* Spec => []ClaimsAgree likewise: only discard_lost, whose ZREM and HDEL    *)
(* are two commands, can make the hash and the set disagree.                *)
THEOREM ClaimsAgreeCorrect ==
  ASSUME Jobs \cap (Evictable \cup Corruptible) = {}
  PROVE  Spec => []ClaimsAgree
<1>1. TypeOK /\ KeepInv => ClaimsAgree
  BY DEF KeepInv, Safe, Sturdy, ClaimsAgree, TypeOK, ZSet
<1> QED BY <1>1, KeepCorrect, TypeCorrect, PTL
=============================================================================
