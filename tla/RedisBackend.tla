---------------------------- MODULE RedisBackend ----------------------------
(***************************************************************************)
(* The Redis email queue: RedisBackend of src/src/queue.rs, called by the  *)
(* worker processes of EmailQueueWorker.  One action is one Redis command  *)
(* or one EVAL script, which Redis runs to completion before the command   *)
(* of any other client; between two of them every other client may run.    *)
(*                                                                         *)
(* A client is a worker process.  Its poll loop is sequential, either in a *)
(* pop or in a sweep; the jobs a pop returned are held by concurrent tasks.*)
(* Job bodies are abstracted to the attempt count they carry.              *)
(***************************************************************************)
EXTENDS Integers, Sequences, FiniteSets, Functions

CONSTANTS
  Jobs,            \* job ids; fresh UUIDs, so no two jobs share one
  Clients,         \* worker processes
  NoBody, Corrupt, \* MGET's nil, and a body that does not deserialize
  NoJob,
  MaxRetries, VisTimeout, BatchSize, ReclaimBatch,
  DeadLetterQueue, DeadMaxLen, DeadTTL,
  RetryDelays,     \* the delays calculate_backoff may answer
  Priority,        \* Priority[j]: lower is served first
  Evictable,       \* jobs whose body Redis may evict under memory pressure
  Corruptible,     \* jobs whose body may stop deserializing
  FaultsUntil,     \* bound: errors and crashes happen before this time
  LossUntil,       \* bound: bodies are evicted or garbled before this time
  MaxClock         \* bound on the clock

ASSUME JobsAssumption   == IsFiniteSet(Jobs) /\ NoJob \notin Jobs
ASSUME BodyAssumption   == NoBody \notin Int /\ Corrupt \notin Int /\ NoBody # Corrupt
ASSUME ConfigAssumption ==
  /\ MaxRetries \in Nat /\ VisTimeout \in Nat
  /\ BatchSize \in Nat \ {0} /\ ReclaimBatch \in Nat \ {0}
  /\ DeadLetterQueue \in BOOLEAN
  /\ DeadMaxLen \in Nat \ {0} /\ DeadTTL \in Nat \ {0}
  /\ RetryDelays \subseteq Nat /\ RetryDelays # {}
  /\ Priority \in [Jobs -> Nat]
ASSUME BoundAssumption  == FaultsUntil \in Nat /\ LossUntil \in Nat /\ MaxClock \in Nat

VARIABLES
  clock,
  \* Redis: one string per job, the sorted sets, the claim hash, the lists
  body, pending, retry, processing, claim, claimSeq, processed,
  dead, deadExpiry, lost,
  \* each client: where its loop is, the clock it read, the jobs of the
  \* current pop or sweep, the id under discard, the jobs its tasks hold
  pc, now, work, cur, held,
  \* history: what the producer was told, claims minted, how a job ended
  submitted, claims, outcome

redis   == <<body, pending, retry, processing, claim, claimSeq, processed,
             dead, deadExpiry, lost>>
local   == <<pc, now, work, cur, held>>
history == <<submitted, claims, outcome>>
vars    == <<clock, redis, local, history>>

Body == Nat \cup {NoBody, Corrupt}
Rec  == [id : Jobs, token : Nat, attempts : Body]
Held == [id : Jobs, token : Nat, attempts : Nat]

PopSteps   == {"pop_retry", "pop_pending", "pop_mget", "pop_zrem", "pop_hdel",
               "pop_lost", "pop_dead", "pop_del"}
CurSteps   == {"pop_hdel", "pop_lost", "pop_dead", "pop_del", "sweep_lost", "sweep_dead"}
SweepSteps == {"sweep_claim", "sweep_mget", "sweep_finish", "sweep_lost", "sweep_dead"}

-----------------------------------------------------------------------------
(* Sorted sets and hashes are functions on the ids they hold. *)

ZAdd(z, S, score) == [j \in DOMAIN z \cup S |-> IF j \in S THEN score ELSE z[j]]
ZRem(z, S)        == Restrict(z, DOMAIN z \ S)
HSet(h, f)        == [j \in DOMAIN h \cup DOMAIN f |-> IF j \in DOMAIN f THEN f[j] ELSE h[j]]
HDel(h, j)        == Restrict(h, DOMAIN h \ {j})

(* The answers a "lowest score first, at most n" query over S may give: ids *)
(* of equal score come in the order of their random ids.                    *)
FirstByScore(S, n, score) ==
  {T \in SUBSET S :
     /\ Cardinality(T) = IF Cardinality(S) < n THEN Cardinality(S) ELSE n
     /\ \A j \in T, k \in S \ T : score[j] <= score[k]}

BodyOf(j)   == IF j \in DOMAIN body THEN body[j] ELSE NoBody
TokenOf(j)  == IF j \in DOMAIN claim THEN claim[j] ELSE 0
Owned(r)    == r.id \in DOMAIN claim /\ claim[r.id] = r.token
Readable(r) == r.attempts \notin {NoBody, Corrupt}

MayFail == clock < FaultsUntil

LTrim(s, n) == SubSeq(s, 1, IF Len(s) < n THEN Len(s) ELSE n)

(* LTRIM's last index is inclusive: forgetting the "- 1" keeps one too many. *)
PushDeadOffByOne(j) ==
  dead' = LTrim(<<j>> \o dead, DeadMaxLen + 1) /\ deadExpiry' = clock + DeadTTL

(* LPUSH, LTRIM and PEXPIRE of the dead-letter list, newest entry first. *)
PushDead(j) ==
  dead' = LTrim(<<j>> \o dead, DeadMaxLen) /\ deadExpiry' = clock + DeadTTL

-----------------------------------------------------------------------------
(* The scripts that end a claim.  Each acts only for the token on record.  *)

(* A bug: the token outlives the claim. *)
ReleaseKeepsToken(j) == processing' = ZRem(processing, {j}) /\ UNCHANGED claim

Release(j) == processing' = ZRem(processing, {j}) /\ claim' = HDel(claim, j)

Stale(r) ==
  /\ ~Owned(r)
  /\ UNCHANGED <<body, retry, processing, claim, processed, dead, deadExpiry, outcome>>

End(j, how) == outcome' = [outcome EXCEPT ![j] = how]

(* A bug: a stale complete is still counted. *)
CompleteCountsStale(r) ==
  /\ processed' = processed + 1
  /\ \/ /\ ~Owned(r)
        /\ UNCHANGED <<body, retry, processing, claim, dead, deadExpiry, outcome>>
     \/ /\ Owned(r)
        /\ Release(r.id)
        /\ body' = HDel(body, r.id)
        /\ End(r.id, "sent")
        /\ UNCHANGED <<retry, dead, deadExpiry>>

CompleteIfOwned(r) ==
  \/ Stale(r)
  \/ /\ Owned(r)
     /\ Release(r.id)
     /\ body' = HDel(body, r.id)
     /\ processed' = processed + 1
     /\ End(r.id, "sent")
     /\ UNCHANGED <<retry, dead, deadExpiry>>

DiscardIfOwned(r) ==
  \/ Stale(r)
  \/ /\ Owned(r)
     /\ Release(r.id)
     /\ body' = HDel(body, r.id)
     /\ End(r.id, "dropped")
     /\ UNCHANGED <<retry, processed, dead, deadExpiry>>

(* Bugs: ownership by id alone, no ownership test, a forgotten ZADD. *)
FailIfClaimed(r, attempts, score) ==
  \/ r.id \notin DOMAIN claim /\ Stale(r)
  \/ /\ r.id \in DOMAIN claim
     /\ Release(r.id)
     /\ body' = HSet(body, [j \in {r.id} |-> attempts])
     /\ retry' = ZAdd(retry, {r.id}, score)
     /\ UNCHANGED <<processed, dead, deadExpiry, outcome>>

FailAlways(r, attempts, score) ==
  /\ Release(r.id)
  /\ body' = HSet(body, [j \in {r.id} |-> attempts])
  /\ retry' = ZAdd(retry, {r.id}, score)
  /\ UNCHANGED <<processed, dead, deadExpiry, outcome>>

FailForgetsZadd(r, attempts, score) ==
  \/ Stale(r)
  \/ /\ Owned(r)
     /\ Release(r.id)
     /\ body' = HSet(body, [j \in {r.id} |-> attempts])
     /\ UNCHANGED <<retry, processed, dead, deadExpiry, outcome>>

FailIfOwned(r, attempts, score) ==
  \/ Stale(r)
  \/ /\ Owned(r)
     /\ Release(r.id)
     /\ body' = HSet(body, [j \in {r.id} |-> attempts])
     /\ retry' = ZAdd(retry, {r.id}, score)
     /\ UNCHANGED <<processed, dead, deadExpiry, outcome>>

(* A bug: no ownership test. *)
DeadLetterAlways(r) ==
  /\ Release(r.id)
  /\ body' = HDel(body, r.id)
  /\ PushDead(r.id)
  /\ End(r.id, "dead")
  /\ UNCHANGED <<retry, processed>>

DeadLetterIfOwned(r) ==
  \/ Stale(r)
  \/ /\ Owned(r)
     /\ Release(r.id)
     /\ body' = HDel(body, r.id)
     /\ PushDead(r.id)
     /\ End(r.id, "dead")
     /\ UNCHANGED <<retry, processed>>

ReleaseIfOwned(r) ==
  \/ Stale(r)
  \/ /\ Owned(r)
     /\ Release(r.id)
     /\ End(r.id, "evicted")
     /\ UNCHANGED <<body, retry, processed, dead, deadExpiry>>

(* A job that is out of attempts, or that cannot be retried. *)
GiveUp(r) == IF DeadLetterQueue THEN DeadLetterIfOwned(r) ELSE DiscardIfOwned(r)

ShouldRetry(attempts) == attempts < MaxRetries

-----------------------------------------------------------------------------
(* push: SET then ZADD, two commands; push_batch: one MULTI/EXEC. *)

PushSet(j) ==
  /\ submitted[j] = "new"
  /\ body' = HSet(body, [k \in {j} |-> 0])
  /\ submitted' = [submitted EXCEPT ![j] = "stored"]
  /\ UNCHANGED <<clock, pending, retry, processing, claim, claimSeq, processed,
                 dead, deadExpiry, lost, local, claims, outcome>>

PushZadd(j) ==
  /\ submitted[j] = "stored"
  /\ pending' = pending \cup {j}
  /\ submitted' = [submitted EXCEPT ![j] = "queued"]
  /\ UNCHANGED <<clock, body, retry, processing, claim, claimSeq, processed,
                 dead, deadExpiry, lost, local, claims, outcome>>

(* The producer dies, or gets an error, between the two commands. *)
PushError(j) ==
  /\ MayFail
  /\ submitted[j] = "stored"
  /\ submitted' = [submitted EXCEPT ![j] = "refused"]
  /\ UNCHANGED <<clock, redis, local, claims, outcome>>

PushBatch(S) ==
  /\ S # {} /\ \A j \in S : submitted[j] = "new"
  /\ body' = HSet(body, [j \in S |-> 0])
  /\ pending' = pending \cup S
  /\ submitted' = [j \in Jobs |-> IF j \in S THEN "queued" ELSE submitted[j]]
  /\ UNCHANGED <<clock, retry, processing, claim, claimSeq, processed,
                 dead, deadExpiry, lost, local, claims, outcome>>

-----------------------------------------------------------------------------
(* Moves of a client's loop. *)

Goto(c, step) == pc' = [pc EXCEPT ![c] = step] /\ UNCHANGED now

(* The call returns; jobs become the business of new tasks. *)
Return(c, jobs) ==
  /\ pc' = [pc EXCEPT ![c] = "idle"]
  /\ now' = [now EXCEPT ![c] = 0]
  /\ work' = [work EXCEPT ![c] = {}]
  /\ cur' = [cur EXCEPT ![c] = NoJob]
  /\ held' = [held EXCEPT ![c] = @ \cup jobs]

Begin(c, step) ==
  /\ pc[c] = "idle"
  /\ pc' = [pc EXCEPT ![c] = step]
  /\ now' = [now EXCEPT ![c] = clock]
  /\ UNCHANGED <<clock, redis, work, cur, held, history>>

(* pop *)

PopBegin(c) == Begin(c, "pop_retry")

(* A bug: the counter is read but not advanced. *)
ClaimReusesTokens(c, S) ==
  \E token \in Bijection(S, claimSeq + 1 .. claimSeq + Cardinality(S)) :
    /\ processing' = ZAdd(processing, S, now[c])
    /\ claim' = HSet(claim, token)
    /\ UNCHANGED claimSeq
    /\ claims' = [j \in Jobs |-> IF j \in S THEN claims[j] + 1 ELSE claims[j]]
    /\ work' = [work EXCEPT ![c] = @ \cup
                  {[id |-> j, token |-> token[j], attempts |-> NoBody] : j \in S}]

(* What CLAIM_RETRY and CLAIM_PENDING share: every id of S enters the      *)
(* processing set under a token of its own.                                *)
ClaimFresh(c, S) ==
  \E token \in Bijection(S, claimSeq + 1 .. claimSeq + Cardinality(S)) :
    /\ processing' = ZAdd(processing, S, now[c])
    /\ claim' = HSet(claim, token)
    /\ claimSeq' = claimSeq + Cardinality(S)
    /\ claims' = [j \in Jobs |-> IF j \in S THEN claims[j] + 1 ELSE claims[j]]
    /\ work' = [work EXCEPT ![c] = @ \cup
                  {[id |-> j, token |-> token[j], attempts |-> NoBody] : j \in S}]

(* A bug: the ids stay in the retry set. *)
ClaimRetryKeepsIds(c) ==
  /\ pc[c] = "pop_retry"
  /\ \E S \in FirstByScore({j \in DOMAIN retry : retry[j] <= now[c]}, BatchSize, retry) :
       /\ ClaimFresh(c, S)
       /\ Goto(c, IF Cardinality(S) < BatchSize THEN "pop_pending" ELSE "pop_mget")
  /\ UNCHANGED <<clock, body, pending, retry, processed, dead, deadExpiry, lost, cur,
                 held, submitted, outcome>>

ClaimRetry(c) ==
  /\ pc[c] = "pop_retry"
  /\ \E S \in FirstByScore({j \in DOMAIN retry : retry[j] <= now[c]}, BatchSize, retry) :
       /\ ClaimFresh(c, S)
       /\ retry' = ZRem(retry, S)
       /\ Goto(c, IF Cardinality(S) < BatchSize THEN "pop_pending" ELSE "pop_mget")
  /\ UNCHANGED <<clock, body, pending, processed, dead, deadExpiry, lost, cur, held,
                 submitted, outcome>>

ClaimPending(c) ==
  /\ pc[c] = "pop_pending"
  /\ \E S \in FirstByScore(pending, BatchSize - Cardinality(work[c]), Priority) :
       /\ ClaimFresh(c, S)
       /\ pending' = pending \ S
       /\ Goto(c, IF S = {} /\ work[c] = {} THEN "idle" ELSE "pop_mget")
  /\ UNCHANGED <<clock, body, retry, processed, dead, deadExpiry, lost, cur, held,
                 submitted, outcome>>

Fetched(c) == {[r EXCEPT !.attempts = BodyOf(r.id)] : r \in work[c]}

PopMget(c) ==
  /\ pc[c] = "pop_mget"
  /\ \/ /\ \A r \in Fetched(c) : Readable(r)
        /\ Return(c, Fetched(c))
     \/ /\ \E r \in Fetched(c) : ~Readable(r)
        /\ work' = [work EXCEPT ![c] = Fetched(c)]
        /\ Goto(c, "pop_zrem")
        /\ UNCHANGED <<cur, held>>
  /\ UNCHANGED <<clock, redis, history>>

(* discard_lost: a pipeline, not a transaction, so its commands are steps;  *)
(* none looks at the claim's token.  LPUSH, LTRIM and PEXPIRE of the        *)
(* dead-letter list stay one step: nothing else reads that list.           *)

DiscardZrem(c) ==
  /\ pc[c] = "pop_zrem"
  /\ \E r \in work[c] :
       /\ ~Readable(r)
       /\ processing' = ZRem(processing, {r.id})
       /\ cur' = [cur EXCEPT ![c] = r.id]
  /\ Goto(c, "pop_hdel")
  /\ UNCHANGED <<clock, body, pending, retry, claim, claimSeq, processed, dead,
                 deadExpiry, lost, work, held, history>>

DiscardHdel(c) ==
  /\ pc[c] = "pop_hdel"
  /\ claim' = HDel(claim, cur[c])
  /\ Goto(c, "pop_lost")
  /\ UNCHANGED <<clock, body, pending, retry, processing, claimSeq, processed, dead,
                 deadExpiry, lost, work, cur, held, history>>

DiscardLost(c) ==
  /\ pc[c] = "pop_lost"
  /\ lost' = lost \cup {cur[c]}
  /\ Goto(c, IF DeadLetterQueue THEN "pop_dead" ELSE "pop_del")
  /\ UNCHANGED <<clock, body, pending, retry, processing, claim, claimSeq, processed,
                 dead, deadExpiry, work, cur, held, history>>

DiscardDead(c) ==
  /\ pc[c] = "pop_dead"
  /\ PushDead(cur[c])
  /\ Goto(c, "pop_del")
  /\ UNCHANGED <<clock, body, pending, retry, processing, claim, claimSeq, processed,
                 lost, work, cur, held, history>>

DiscardDel(c) ==
  LET rest == {r \in work[c] : r.id # cur[c]} IN
  /\ pc[c] = "pop_del"
  /\ body' = HDel(body, cur[c])
  /\ \/ /\ \A r \in rest : Readable(r)
        /\ Return(c, rest)
     \/ /\ \E r \in rest : ~Readable(r)
        /\ work' = [work EXCEPT ![c] = rest]
        /\ Goto(c, "pop_zrem")
        /\ UNCHANGED <<cur, held>>
  /\ UNCHANGED <<clock, pending, retry, processing, claim, claimSeq, processed, dead,
                 deadExpiry, lost, history>>

-----------------------------------------------------------------------------
(* reclaim_stale: one batch.  Its loop, which goes round again after a full *)
(* batch, is the next SweepBegin of the same client.                        *)

SweepBegin(c) == Begin(c, "sweep_claim")

(* A bug: the sweep takes its batch out of the processing set. *)
ClaimStaleRemoves(c) ==
  /\ pc[c] = "sweep_claim"
  /\ \E S \in FirstByScore({j \in DOMAIN processing : processing[j] <= now[c] - VisTimeout},
                           ReclaimBatch, processing) :
       /\ S # {}
       /\ processing' = ZRem(processing, S)
       /\ work' = [work EXCEPT ![c] =
                     {[id |-> j, token |-> TokenOf(j), attempts |-> NoBody] : j \in S}]
       /\ Goto(c, "sweep_mget")
  /\ UNCHANGED <<clock, body, pending, retry, claim, claimSeq, processed, dead,
                 deadExpiry, lost, cur, held, history>>

(* CLAIM_STALE re-scores the claims it takes and leaves their tokens. *)
ClaimStale(c) ==
  /\ pc[c] = "sweep_claim"
  /\ \E S \in FirstByScore({j \in DOMAIN processing : processing[j] <= now[c] - VisTimeout},
                           ReclaimBatch, processing) :
       \/ /\ S = {}
          /\ Return(c, {})
          /\ UNCHANGED processing
       \/ /\ S # {}
          /\ processing' = ZAdd(processing, S, now[c])
          /\ work' = [work EXCEPT ![c] =
                        {[id |-> j, token |-> TokenOf(j), attempts |-> NoBody] : j \in S}]
          /\ Goto(c, "sweep_mget")
          /\ UNCHANGED <<cur, held>>
  /\ UNCHANGED <<clock, body, pending, retry, claim, claimSeq, processed, dead,
                 deadExpiry, lost, history>>

SweepMget(c) ==
  /\ pc[c] = "sweep_mget"
  /\ work' = [work EXCEPT ![c] = Fetched(c)]
  /\ Goto(c, "sweep_finish")
  /\ UNCHANGED <<clock, redis, cur, held, history>>

(* The batch is left with the jobs of rest. *)
SweepRest(c, rest) ==
  \/ /\ rest = {}
     /\ Return(c, {})
  \/ /\ rest # {}
     /\ work' = [work EXCEPT ![c] = rest]
     /\ cur' = [cur EXCEPT ![c] = NoJob]
     /\ Goto(c, "sweep_finish")
     /\ UNCHANGED held

(* A bug: a reclaim leaves the attempts as they are. *)
ReclaimIsFree(c, r) ==
  /\ Readable(r)
  /\ IF ShouldRetry(r.attempts) THEN FailIfOwned(r, r.attempts, now[c]) ELSE GiveUp(r)
  /\ SweepRest(c, work[c] \ {r})

(* A readable body: the reclaim is an attempt. *)
Reclaim(c, r) ==
  /\ Readable(r)
  /\ IF ShouldRetry(r.attempts + 1)
       THEN FailIfOwned(r, r.attempts + 1, now[c])
       ELSE GiveUp(r)
  /\ SweepRest(c, work[c] \ {r})

(* A corrupt body: logged, and left under its claim. *)
SkipCorrupt(c, r) ==
  /\ r.attempts = Corrupt
  /\ SweepRest(c, work[c] \ {r})
  /\ UNCHANGED <<body, retry, processing, claim, processed, dead, deadExpiry, outcome>>

(* Bugs: the script's answer is ignored; a loss is only logged. *)
ReleaseUnchecked(c, r) ==
  /\ r.attempts = NoBody
  /\ ReleaseIfOwned(r)
  /\ cur' = [cur EXCEPT ![c] = r.id]
  /\ Goto(c, "sweep_lost")
  /\ UNCHANGED <<work, held>>

ReleaseSilently(c, r) ==
  /\ r.attempts = NoBody
  /\ ReleaseIfOwned(r)
  /\ SweepRest(c, work[c] \ {r})

(* No body: either the owner finished, or the body was evicted. *)
ReleaseMissing(c, r) ==
  /\ r.attempts = NoBody
  /\ ReleaseIfOwned(r)
  /\ IF Owned(r)
       THEN /\ cur' = [cur EXCEPT ![c] = r.id]
            /\ Goto(c, "sweep_lost")
            /\ UNCHANGED <<work, held>>
       ELSE SweepRest(c, work[c] \ {r})

SweepFinish(c) ==
  /\ pc[c] = "sweep_finish"
  /\ \E r \in work[c] : Reclaim(c, r) \/ SkipCorrupt(c, r) \/ ReleaseMissing(c, r)
  /\ UNCHANGED <<clock, pending, claimSeq, lost, submitted, claims>>

SweepLost(c) ==
  /\ pc[c] = "sweep_lost"
  /\ lost' = lost \cup {cur[c]}
  /\ IF DeadLetterQueue
       THEN Goto(c, "sweep_dead") /\ UNCHANGED <<work, cur, held>>
       ELSE SweepRest(c, {r \in work[c] : r.id # cur[c]})
  /\ UNCHANGED <<clock, body, pending, retry, processing, claim, claimSeq, processed,
                 dead, deadExpiry, history>>

SweepDead(c) ==
  /\ pc[c] = "sweep_dead"
  /\ PushDead(cur[c])
  /\ SweepRest(c, {r \in work[c] : r.id # cur[c]})
  /\ UNCHANGED <<clock, body, pending, retry, processing, claim, claimSeq, processed,
                 lost, history>>

-----------------------------------------------------------------------------
(* The task of a held job: process_one_job after the send has answered. *)

TaskSent(c, h) == CompleteIfOwned(h)

TaskFailed(c, h) ==
  \/ /\ ShouldRetry(h.attempts)
     /\ \E delay \in RetryDelays : FailIfOwned(h, h.attempts + 1, clock + delay)
  \/ GiveUp(h)   \* not retryable, or out of attempts

TaskDone(c) ==
  /\ \E h \in held[c] :
       /\ TaskSent(c, h) \/ TaskFailed(c, h)
       /\ held' = [held EXCEPT ![c] = @ \ {h}]
  /\ UNCHANGED <<clock, pending, claimSeq, lost, pc, now, work, cur, submitted, claims>>

(* The task panics, or its last call to Redis fails: only logged. *)
TaskDropped(c) ==
  /\ MayFail
  /\ \E h \in held[c] : held' = [held EXCEPT ![c] = @ \ {h}]
  /\ UNCHANGED <<clock, redis, pc, now, work, cur, history>>

-----------------------------------------------------------------------------
(* Faults and time. *)

(* A command of a pop or sweep answers an error.  In discard_lost it is    *)
(* logged and the readable jobs are returned; elsewhere the call is over   *)
(* and what it claimed waits for a sweep.                                  *)
RedisError(c) ==
  /\ MayFail
  /\ pc[c] \in PopSteps \cup SweepSteps
  /\ Return(c, IF pc[c] \in {"pop_zrem", "pop_hdel", "pop_lost", "pop_dead", "pop_del"}
                 THEN {r \in work[c] : Readable(r)} ELSE {})
  /\ UNCHANGED <<clock, redis, history>>

(* The process dies and starts again with nothing held. *)
Crash(c) ==
  /\ MayFail
  /\ pc[c] # "idle" \/ held[c] # {}
  /\ pc' = [pc EXCEPT ![c] = "idle"]
  /\ now' = [now EXCEPT ![c] = 0]
  /\ work' = [work EXCEPT ![c] = {}]
  /\ cur' = [cur EXCEPT ![c] = NoJob]
  /\ held' = [held EXCEPT ![c] = {}]
  /\ UNCHANGED <<clock, redis, history>>

Evict(j) ==
  /\ clock < LossUntil
  /\ j \in Evictable \cap DOMAIN body
  /\ body' = HDel(body, j)
  /\ UNCHANGED <<clock, pending, retry, processing, claim, claimSeq, processed, dead,
                 deadExpiry, lost, local, history>>

Garble(j) ==
  /\ clock < LossUntil
  /\ j \in Corruptible \cap DOMAIN body
  /\ body' = [body EXCEPT ![j] = Corrupt]
  /\ UNCHANGED <<clock, pending, retry, processing, claim, claimSeq, processed, dead,
                 deadExpiry, lost, local, history>>

(* Time passes; the dead-letter list, whose PEXPIRE is on the whole key,    *)
(* goes when its time is up.                                               *)
Tick ==
  /\ clock < MaxClock
  /\ clock' = clock + 1
  /\ IF dead # <<>> /\ clock' >= deadExpiry
       THEN dead' = <<>> /\ deadExpiry' = 0
       ELSE UNCHANGED <<dead, deadExpiry>>
  /\ UNCHANGED <<body, pending, retry, processing, claim, claimSeq, processed, lost,
                 local, history>>

-----------------------------------------------------------------------------
Init ==
  /\ clock = 0
  /\ body = [j \in {} |-> 0] /\ pending = {}
  /\ retry = [j \in {} |-> 0] /\ processing = [j \in {} |-> 0]
  /\ claim = [j \in {} |-> 0] /\ claimSeq = 0 /\ processed = 0
  /\ dead = <<>> /\ deadExpiry = 0 /\ lost = {}
  /\ pc = [c \in Clients |-> "idle"] /\ now = [c \in Clients |-> 0]
  /\ work = [c \in Clients |-> {}] /\ cur = [c \in Clients |-> NoJob]
  /\ held = [c \in Clients |-> {}]
  /\ submitted = [j \in Jobs |-> "new"]
  /\ claims = [j \in Jobs |-> 0] /\ outcome = [j \in Jobs |-> "open"]

Push == (\E j \in Jobs : PushSet(j) \/ PushZadd(j) \/ PushError(j))
        \/ (\E S \in SUBSET Jobs : PushBatch(S))

PopStep(c) == \/ ClaimRetry(c) \/ ClaimPending(c) \/ PopMget(c)
              \/ DiscardZrem(c) \/ DiscardHdel(c) \/ DiscardLost(c)
              \/ DiscardDead(c) \/ DiscardDel(c)

SweepStep(c) == ClaimStale(c) \/ SweepMget(c) \/ SweepFinish(c) \/ SweepLost(c) \/ SweepDead(c)

Client(c) == \/ PopBegin(c) \/ PopStep(c) \/ SweepBegin(c) \/ SweepStep(c)
             \/ TaskDone(c) \/ TaskDropped(c) \/ RedisError(c) \/ Crash(c)

Next == \/ Push
        \/ \E c \in Clients : Client(c)
        \/ \E j \in Jobs : Evict(j) \/ Garble(j)
        \/ Tick

Spec == Init /\ [][Next]_vars

(* The poll loop of EmailQueueWorker::run sweeps whenever sweep_interval is *)
(* over and then pops, so neither call starves the other; a call goes on    *)
(* unless it fails; a task ends, at the latest by job_timeout.              *)
Fairness ==
  /\ WF_vars(Tick)
  /\ \A j \in Jobs : WF_vars(PushZadd(j))
  /\ \A c \in Clients :
       /\ SF_vars(PopBegin(c)) /\ SF_vars(SweepBegin(c))
       /\ WF_vars(PopStep(c)) /\ WF_vars(SweepStep(c)) /\ WF_vars(TaskDone(c))

FairSpec == Spec /\ Fairness
-----------------------------------------------------------------------------
(* Properties. *)

Owners(c) == held[c] \cup (IF pc[c] \in PopSteps THEN work[c] ELSE {})
Settled(j) == outcome[j] # "open"
Places(j) == {place \in {"pending", "retry", "processing"} :
                \/ place = "pending" /\ j \in pending
                \/ place = "retry" /\ j \in DOMAIN retry
                \/ place = "processing" /\ j \in DOMAIN processing}

ZSet(z) == DOMAIN z \subseteq Jobs /\ z \in [DOMAIN z -> Nat]

(* Every variable stays in its type, and the dead-letter list within        *)
(* dead_letter_max_len (LTRIM).                                            *)
TypeOK ==
  /\ clock \in Nat
  /\ DOMAIN body \subseteq Jobs /\ body \in [DOMAIN body -> Nat \cup {Corrupt}]
  /\ pending \subseteq Jobs
  /\ ZSet(retry) /\ ZSet(processing) /\ ZSet(claim)
  /\ claimSeq \in Nat /\ processed \in Nat
  /\ dead \in Seq(Jobs) /\ Len(dead) <= DeadMaxLen /\ deadExpiry \in Nat
  /\ lost \subseteq Jobs
  /\ pc \in [Clients -> {"idle"} \cup PopSteps \cup SweepSteps]
  /\ now \in [Clients -> Nat]
  /\ work \in [Clients -> SUBSET Rec] /\ held \in [Clients -> SUBSET Held]
  /\ cur \in [Clients -> Jobs \cup {NoJob}]
  /\ \A c \in Clients : pc[c] \in CurSteps => cur[c] \in Jobs
  /\ submitted \in [Jobs -> {"new", "stored", "queued", "refused"}]
  /\ claims \in [Jobs -> Nat]
  /\ outcome \in [Jobs -> {"open", "sent", "dead", "dropped", "evicted"}]

(* A job is never waiting and claimed, or waiting twice, whatever sweeps,   *)
(* late finalizers, crashes and evictions do (the claim scripts move ids in *)
(* one EVAL).                                                              *)
OnePlace == \A j \in Jobs : Cardinality(Places(j)) <= 1

(* No two tasks or pops ever hold the same claim: each claim has a token of *)
(* its own, so at most one of the holders of a job owns it.                 *)
SoleOwner ==
  \A c, d \in Clients : \A r \in Owners(c), s \in Owners(d) :
    r.token = s.token => c = d /\ r = s

(* However sweeps, retries and crashes interleave, a job is handed out at   *)
(* most max_retries + 1 times: neither a lost update of the attempt count   *)
(* nor a stale copy of it buys another delivery.                           *)
AttemptBound == \A j \in Jobs : claims[j] <= MaxRetries + 1

(* One delivery costs exactly one attempt: of the sweep and the late        *)
(* finalizer of the same claim only one is charged, and the stored count    *)
(* of a waiting job is the number of times it was handed out.              *)
OneAttemptPerClaim ==
  \A j \in pending \cup DOMAIN retry : BodyOf(j) \in Nat => BodyOf(j) = claims[j]

(* What a job ended as is final, and it ended once: no late finalizer ends  *)
(* it again.                                                               *)
OutcomeFinal == [][\A j \in Jobs : Settled(j) => outcome'[j] = outcome[j]]_vars

(* A job that ended is in no set and under no claim, so it is never handed  *)
(* out or recovered again.                                                 *)
NoResurrection ==
  \A j \in Jobs : Settled(j) => Places(j) = {} /\ j \notin DOMAIN claim

(* A stored attempt count never goes down (the comment in fail: a stale     *)
(* write "would resurrect a stale attempt count").                         *)
AttemptsNeverDrop ==
  [][\A j \in DOMAIN body \cap DOMAIN body' :
       body[j] \in Nat /\ body'[j] \in Nat => body'[j] >= body[j]]_vars

(* stats().processed counts each delivered job once and no other job.       *)
ProcessedIsSent == processed = Cardinality({j \in Jobs : outcome[j] = "sent"})

(* While Redis keeps the bodies, a job whose enqueue returned Ok and that   *)
(* has not ended is in a set with a readable body: no crash, error or race  *)
(* strands it.                                                             *)
NoSilentLoss ==
  \A j \in Jobs : submitted[j] = "queued" /\ ~Settled(j) =>
    Places(j) # {} /\ BodyOf(j) \in Nat

(* claim_key: the claim hash and the processing set "never disagree about   *)
(* which ids are claimed".                                                 *)
ClaimsAgree == DOMAIN claim = DOMAIN processing

(* The sweeper reports a loss only of a job that nobody finished            *)
(* ("Reporting the first as a loss is the fabricated failure").            *)
SweepLossIsGenuine ==
  \A c \in Clients : pc[c] \in {"sweep_lost", "sweep_dead"} => outcome[cur[c]] = "evicted"

(* Short of a crash or an error, a job whose body is gone is reported: it   *)
(* is in a set, on the lost list, or on its way there.                     *)
LossIsReported ==
  \A j \in Jobs : submitted[j] = "queued" /\ outcome[j] \in {"open", "evicted"} =>
    \/ Places(j) # {} \/ j \in lost
    \/ \E c \in Clients : pc[c] \in {"pop_hdel", "pop_lost", "sweep_lost"} /\ cur[c] = j

(* Every job whose enqueue returned Ok ends: no claim is left behind by a   *)
(* crash, an error or a panic, once those stop.                            *)
EventuallySettled == \A j \in Jobs : submitted[j] = "queued" ~> Settled(j)

(* The comment in pop: the ids discard_lost could not record "stay claimed  *)
(* and reclaim_stale will retry them".                                     *)
CorruptClaimsAreRetried ==
  \A j \in Jobs : (j \in DOMAIN claim /\ BodyOf(j) = Corrupt) ~>
                     (j \notin DOMAIN claim \/ BodyOf(j) # Corrupt)

(* A delivered email is never reported lost.                               *)
NoFabricatedLoss == \A j \in lost : outcome[j] # "sent"

(* Where EmailQueueBackend's promise sees a job: a claim dropped by          *)
(* discard_lost or release makes it lost.                                   *)
StateOf(j) ==
  CASE outcome[j] = "evicted"                        -> "lost"
    [] Settled(j) /\ outcome[j] # "evicted"          -> outcome[j]
    [] ~Settled(j) /\ submitted[j] # "queued"        -> "new"
    [] ~Settled(j) /\ submitted[j] = "queued" ->
         IF j \in pending \cup DOMAIN retry THEN "waiting"
         ELSE IF j \in DOMAIN claim THEN "claimed" ELSE "lost"

Lifecycle == INSTANCE JobLifecycle
               WITH MaxDeliveries <- MaxRetries + 1,
                    state <- [j \in Jobs |-> StateOf(j)], deliveries <- claims

(* RedisBackend implements the trait: whatever the interleaving of scripts, *)
(* pipelines, crashes and evictions, no job leaves the life JobLifecycle    *)
(* allows; none is delivered from two claims or brought back from the lost. *)
ImplementsLifecycle == Lifecycle!Spec
=============================================================================
