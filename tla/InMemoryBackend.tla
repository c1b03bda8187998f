-------------------------- MODULE InMemoryBackend --------------------------
(***************************************************************************)
(* The in-process email queue: InMemoryBackend of src/src/queue.rs, shared  *)
(* by the worker loops of one process.  Every operation runs under the one  *)
(* mutex, so it is one action; only reclaim_stale reads the clock before it *)
(* takes the lock.  A job body is abstracted to its attempts and due time.  *)
(***************************************************************************)
EXTENDS Integers, Sequences, FiniteSets, Functions

CONSTANTS
  Jobs,            \* job ids; fresh UUIDs, so no two jobs share one
  Workers,         \* poll loops over the shared backend
  Idle,            \* a worker that is not in reclaim_stale
  MaxRetries, MaxDepth, VisTimeout, BatchSize,
  DeadLetterQueue, DeadMaxLen, DeadTTL,
  RetryDelays,     \* the delays calculate_backoff may answer
  PanicsUntil,     \* bound: send tasks panic before this time
  MaxClock         \* bound on the clock

ASSUME InMemoryConfig ==
  /\ IsFiniteSet(Jobs) /\ Idle \notin Int
  /\ MaxRetries \in Nat /\ VisTimeout \in Nat
  /\ MaxDepth \in Nat \ {0} /\ BatchSize \in Nat \ {0}
  /\ DeadLetterQueue \in BOOLEAN
  /\ DeadMaxLen \in Nat \ {0} /\ DeadTTL \in Nat \ {0}
  /\ RetryDelays \subseteq Nat /\ RetryDelays # {}
  /\ PanicsUntil \in Nat /\ MaxClock \in Nat

VARIABLES
  clock,
  queue,           \* the VecDeque: jobs waiting, due or not
  processing,      \* the claims: id -> claim time, token, the job's attempts
  claimSeq,        \* last token minted; 0 is "unclaimed"
  dead,            \* dead letters with the time of each, oldest first
  processed,
  cutoff,          \* per worker: the cutoff reclaim_stale computed, or Idle
  held,            \* per worker: the jobs its send tasks hold
  submitted, claims, outcome   \* history, as in RedisBackend

state == <<queue, processing, claimSeq, dead, processed>>
local == <<cutoff, held>>
history == <<submitted, claims, outcome>>
vars  == <<clock, state, local, history>>

Waiting == [id : Jobs, attempts : Nat, due : Nat]
Claim   == [at : Nat, token : Nat, attempts : Nat]
Held    == [id : Jobs, token : Nat, attempts : Nat]

-----------------------------------------------------------------------------
(* A bug: ownership by id alone. *)
OwnedById(h) == h.id \in DOMAIN processing

Owned(h) == h.id \in DOMAIN processing /\ processing[h.id].token = h.token

ShouldRetry(attempts) == attempts < MaxRetries

Unclaim(S) == processing' = Restrict(processing, DOMAIN processing \ S)

End(S, how) == outcome' = [j \in Jobs |-> IF j \in S THEN how ELSE outcome[j]]

Enqueued(ids) == [i \in DOMAIN ids |-> [id |-> ids[i], attempts |-> 0, due |-> 0]]

(* S as a sequence, in every order; and the entries of s at the positions I, *)
(* in their order, which is one sequence.                                  *)
Orders(S) == Bijection(1 .. Cardinality(S), S)

Kept(s, I) == {[n \in DOMAIN f |-> s[f[n]]] :
                 f \in {f \in Orders(I) : \A a, b \in DOMAIN f : a < b => f[a] < f[b]}}

(* expire_dead_letters pops entries until the first that has not expired. *)
Unexpired ==
  SubSeq(dead, Cardinality({n \in DOMAIN dead : \A i \in 1 .. n : clock - dead[i].at >= DeadTTL}) + 1,
         Len(dead))

(* A bug: evicting while the list is longer than the cap, not as long. *)
LastOfOneMore(s, n) == SubSeq(s, IF Len(s) <= n + 1 THEN 1 ELSE Len(s) - n, Len(s))

LastOf(s, n) == SubSeq(s, IF Len(s) <= n THEN 1 ELSE Len(s) - n + 1, Len(s))

(* A bug: a full list refuses the newest entries. *)
PushDeadRejects(ids) ==
  dead' = IF ids = <<>> THEN dead
          ELSE LET all == Unexpired \o [i \in DOMAIN ids |-> [id |-> ids[i], at |-> clock]]
               IN  SubSeq(all, 1, IF Len(all) <= DeadMaxLen THEN Len(all) ELSE DeadMaxLen)

(* push_dead_letter of each of ids in turn: the oldest entries give way. *)
PushDead(ids) ==
  dead' = IF ids = <<>> THEN dead
          ELSE LastOf(Unexpired \o [i \in DOMAIN ids |-> [id |-> ids[i], at |-> clock]],
                      DeadMaxLen)

-----------------------------------------------------------------------------
Push(j) ==
  /\ submitted[j] = "new"
  /\ \/ /\ Len(queue) >= MaxDepth
        /\ submitted' = [submitted EXCEPT ![j] = "refused"]
        /\ UNCHANGED queue
     \/ /\ Len(queue) < MaxDepth
        /\ submitted' = [submitted EXCEPT ![j] = "queued"]
        /\ queue' = queue \o Enqueued(<<j>>)
  /\ UNCHANGED <<clock, processing, claimSeq, dead, processed, local, claims, outcome>>

(* All or nothing. *)
PushBatch(S) ==
  /\ S # {} /\ \A j \in S : submitted[j] = "new"
  /\ \/ /\ Len(queue) + Cardinality(S) > MaxDepth
        /\ submitted' = [j \in Jobs |-> IF j \in S THEN "refused" ELSE submitted[j]]
        /\ UNCHANGED queue
     \/ /\ Len(queue) + Cardinality(S) <= MaxDepth
        /\ submitted' = [j \in Jobs |-> IF j \in S THEN "queued" ELSE submitted[j]]
        /\ \E ids \in Orders(S) : queue' = queue \o Enqueued(ids)
  /\ UNCHANGED <<clock, processing, claimSeq, dead, processed, local, claims, outcome>>

(* The first BatchSize jobs that are due, in queue order. *)
Due   == {i \in DOMAIN queue : queue[i].due <= clock}
Taken == {i \in Due : Cardinality({k \in Due : k < i}) < BatchSize}
Token(i) == claimSeq + Cardinality({k \in Taken : k <= i})

(* next_claim_token, n times *)
TokensMinted(n) == claimSeq' = claimSeq + n

Pop(w) ==
  LET jobs  == {[id |-> queue[i].id, token |-> Token(i), attempts |-> queue[i].attempts] :
                  i \in Taken}
      ids   == {h.id : h \in jobs}
      job(j) == CHOOSE h \in jobs : h.id = j
  IN
  /\ cutoff[w] = Idle /\ Taken # {}
  /\ queue' \in Kept(queue, DOMAIN queue \ Taken)
  /\ processing' = [j \in DOMAIN processing \cup ids |->
       IF j \in ids THEN [at |-> clock, token |-> job(j).token, attempts |-> job(j).attempts]
                    ELSE processing[j]]
  /\ TokensMinted(Cardinality(Taken))
  /\ held' = [held EXCEPT ![w] = @ \cup jobs]
  /\ claims' = [j \in Jobs |-> IF j \in ids THEN claims[j] + 1 ELSE claims[j]]
  /\ UNCHANGED <<clock, dead, processed, cutoff, submitted, outcome>>

-----------------------------------------------------------------------------
(* The finalizers: each acts for the token on record and else does nothing. *)

Stale(h) == ~Owned(h) /\ UNCHANGED <<queue, processing, dead, processed, outcome>>

Complete(h) ==
  \/ Stale(h)
  \/ /\ Owned(h)
     /\ Unclaim({h.id})
     /\ processed' = processed + 1
     /\ End({h.id}, "sent")
     /\ UNCHANGED <<queue, dead>>

Discard(h) ==
  \/ Stale(h)
  \/ /\ Owned(h)
     /\ Unclaim({h.id})
     /\ End({h.id}, "dropped")
     /\ UNCHANGED <<queue, dead, processed>>

(* A bug: the claim is released and the job forgotten. *)
FailForgetsJob(h, delay) ==
  \/ Stale(h)
  \/ /\ Owned(h)
     /\ Unclaim({h.id})
     /\ UNCHANGED <<queue, dead, processed, outcome>>

(* No depth check: the job goes back whatever the length of the queue. *)
Fail(h, delay) ==
  \/ Stale(h)
  \/ /\ Owned(h)
     /\ Unclaim({h.id})
     /\ queue' = Append(queue, [id |-> h.id, attempts |-> h.attempts + 1, due |-> clock + delay])
     /\ UNCHANGED <<dead, processed, outcome>>

DeadLetter(h) ==
  \/ Stale(h)
  \/ /\ Owned(h)
     /\ Unclaim({h.id})
     /\ PushDead(<<h.id>>)
     /\ End({h.id}, "dead")
     /\ UNCHANGED <<queue, processed>>

(* process_one_job, once the send has answered or job_timeout is over *)
TaskDone(w) ==
  /\ \E h \in held[w] :
       /\ held' = [held EXCEPT ![w] = @ \ {h}]
       /\ \/ Complete(h)
          \/ ShouldRetry(h.attempts) /\ \E delay \in RetryDelays : Fail(h, delay)
          \/ DeadLetterQueue /\ DeadLetter(h)
          \/ ~DeadLetterQueue /\ Discard(h)
  /\ UNCHANGED <<clock, claimSeq, cutoff, submitted, claims>>

(* A panic in the send task: its claim stays. *)
TaskPanics(w) ==
  /\ clock < PanicsUntil
  /\ \E h \in held[w] : held' = [held EXCEPT ![w] = @ \ {h}]
  /\ UNCHANGED <<clock, state, cutoff, history>>

-----------------------------------------------------------------------------
(* reclaim_stale: the cutoff is read first, the lock taken later. *)

SweepBegin(w) ==
  /\ cutoff[w] = Idle
  /\ cutoff' = [cutoff EXCEPT ![w] = clock - VisTimeout]
  /\ UNCHANGED <<clock, state, held, history>>

(* Bugs: claims in the map's order; a reclaim that spends no attempt. *)
AnyOrder(S) == Orders(S)

Unspent(j) == processing[j].attempts

OldestFirst(S) ==
  {ids \in Orders(S) : \A a, b \in DOMAIN ids :
     a < b => processing[ids[a]].at <= processing[ids[b]].at}

(* The reclaim is the attempt. *)
Spent(j) == processing[j].attempts + 1

Room == IF Len(queue) < MaxDepth THEN MaxDepth - Len(queue) ELSE 0

(* Claims older than the cutoff: out of attempts, they end; else they go    *)
(* back while there is room, and the rest keep their claim as it was.       *)
Sweep(w) ==
  /\ cutoff[w] # Idle
  /\ \E ids \in OldestFirst({j \in DOMAIN processing : processing[j].at <= cutoff[w]}) :
     \E over \in Kept(ids, {i \in DOMAIN ids : ~ShouldRetry(Spent(ids[i]))}),
        left \in Kept(ids, {i \in DOMAIN ids : ShouldRetry(Spent(ids[i]))}) :
       LET back == SubSeq(left, 1, IF Len(left) < Room THEN Len(left) ELSE Room) IN
       /\ queue' = queue \o [i \in DOMAIN back |->
                               [id |-> back[i], attempts |-> Spent(back[i]), due |-> 0]]
       /\ Unclaim(Range(over) \cup Range(back))
       /\ IF DeadLetterQueue THEN PushDead(over) ELSE UNCHANGED dead
       /\ End(Range(over), IF DeadLetterQueue THEN "dead" ELSE "dropped")
  /\ cutoff' = [cutoff EXCEPT ![w] = Idle]
  /\ UNCHANGED <<clock, claimSeq, processed, held, submitted, claims>>

(* stats and dead_letter_jobs drop the expired entries first. *)
Stats ==
  /\ dead' = Unexpired
  /\ UNCHANGED <<clock, queue, processing, claimSeq, processed, local, history>>

Tick == clock < MaxClock /\ clock' = clock + 1 /\ UNCHANGED <<state, local, history>>

-----------------------------------------------------------------------------
Init ==
  /\ clock = 0 /\ queue = <<>> /\ processing = [j \in {} |-> 0]
  /\ claimSeq = 0 /\ dead = <<>> /\ processed = 0
  /\ cutoff = [w \in Workers |-> Idle] /\ held = [w \in Workers |-> {}]
  /\ submitted = [j \in Jobs |-> "new"]
  /\ claims = [j \in Jobs |-> 0] /\ outcome = [j \in Jobs |-> "open"]

Worker(w) == Pop(w) \/ SweepBegin(w) \/ Sweep(w) \/ TaskDone(w) \/ TaskPanics(w)

Next == \/ \E j \in Jobs : Push(j)
        \/ \E S \in SUBSET Jobs : PushBatch(S)
        \/ \E w \in Workers : Worker(w)
        \/ Stats \/ Tick

Spec == Init /\ [][Next]_vars

-----------------------------------------------------------------------------
(* Properties. *)

Settled(j) == outcome[j] # "open"
Copies(j)  == {i \in DOMAIN queue : queue[i].id = j}

(* Every variable stays in its type, and the dead-letter list within        *)
(* dead_letter_max_len (push_dead_letter).                                 *)
TypeOK ==
  /\ clock \in 0 .. MaxClock
  /\ queue \in Seq(Waiting)
  /\ DOMAIN processing \subseteq Jobs /\ processing \in [DOMAIN processing -> Claim]
  /\ claimSeq \in Nat /\ processed \in Nat
  /\ dead \in Seq([id : Jobs, at : Nat]) /\ Len(dead) <= DeadMaxLen
  /\ cutoff \in [Workers -> Int \cup {Idle}]
  /\ held \in [Workers -> SUBSET Held]
  /\ submitted \in [Jobs -> {"new", "queued", "refused"}]
  /\ claims \in [Jobs -> Nat]
  /\ outcome \in [Jobs -> {"open", "sent", "dead", "dropped"}]

(* An accepted job that has not ended is once in the queue or under one     *)
(* claim, and no other job is anywhere: sweeps, deferrals and late          *)
(* finalizers neither lose nor double it (the comment in fail: "or one      *)
(* crashed send becomes two live copies of the same email").                *)
OneCopy ==
  \A j \in Jobs :
    Cardinality(Copies(j)) + Cardinality(DOMAIN processing \cap {j})
      = IF submitted[j] = "queued" /\ ~Settled(j) THEN 1 ELSE 0

(* The attempts of a waiting job are its deliveries and those of a claimed  *)
(* one are one behind: each delivery is charged once, by the sweep or by    *)
(* the finalizer, and a deferred reclaim not at all ("attempt not spent").  *)
OneAttemptPerClaim ==
  /\ \A i \in DOMAIN queue : queue[i].attempts = claims[queue[i].id]
  /\ \A j \in DOMAIN processing : processing[j].attempts = claims[j] - 1

(* When a sweep finds no room for every claim it could requeue, those it    *)
(* leaves are no older than those it takes ("reclaims oldest-claim-first"). *)
OldestClaimFirst ==
  [][\A j, k \in DOMAIN processing :
       /\ \E w \in Workers : cutoff[w] # Idle /\ cutoff'[w] = Idle /\ processing[k].at <= cutoff[w]
       /\ j \notin DOMAIN processing' /\ ~Settled(j)' /\ k \in DOMAIN processing'
       => processing[j].at <= processing[k].at]_vars

(* A full dead-letter list gives up its oldest entries, never the failure   *)
(* just recorded ("must not start silently dropping the failures it exists  *)
(* to record").                                                            *)
NewFailuresKept ==
  [][\A j \in Jobs : outcome[j] # "dead" /\ outcome'[j] = "dead" =>
       \/ \E i \in DOMAIN dead' : dead'[i].id = j
       \/ \A i \in DOMAIN dead' : outcome[dead'[i].id] # "dead"]_vars

StateOf(j) == IF Settled(j) THEN outcome[j]
              ELSE IF submitted[j] # "queued" THEN "new"
              ELSE IF j \in DOMAIN processing THEN "claimed" ELSE "waiting"

Lifecycle == INSTANCE JobLifecycle
               WITH MaxDeliveries <- MaxRetries + 1,
                    state <- [j \in Jobs |-> StateOf(j)], deliveries <- claims

(* InMemoryBackend implements the promise of the trait, as RedisBackend     *)
(* does, and loses no job on the way.                                      *)
ImplementsLifecycle == Lifecycle!Spec
=============================================================================
