------------------------ MODULE RedisLifecycleProofs ------------------------
(* RedisBackend implements JobLifecycle for every value of the constants. *)
EXTENDS RedisBackendProofs

Moves(j) == \/ Lifecycle!Stay(j) \/ Lifecycle!Enqueue(j) \/ Lifecycle!Deliver(j)
            \/ Lifecycle!Requeue(j) \/ Lifecycle!Finish(j)

(* The abstract state, from the places of the job. *)
LEMMA StateFacts ==
  ASSUME TypeOK, PlaceInv, NEW j \in Jobs
  PROVE  /\ submitted[j] # "queued" => StateOf(j) = "new"
         /\ j \in Waiting => StateOf(j) = "waiting"
         /\ j \in DOMAIN claim => StateOf(j) = "claimed"
         /\ Settled(j) => StateOf(j) = IF outcome[j] = "evicted" THEN "lost" ELSE outcome[j]
         /\ submitted[j] = "queued" /\ ~Settled(j) /\ j \notin Waiting /\ j \notin DOMAIN claim
              => StateOf(j) = "lost"
<1>1. Settled(j) \/ outcome[j] = "open"
  BY DEF Settled
<1> QED BY <1>1 DEF StateOf, Settled, PlaceInv, Waiting

LEMMA LifecycleInit == Init => Lifecycle!Init
<1> SUFFICES ASSUME Init PROVE Lifecycle!Init
  OBVIOUS
<1>1. \A j \in Jobs : StateOf(j) = "new"
  BY DEF Init, StateOf, Settled
<1> QED BY <1>1 DEF Init, Lifecycle!Init

LEMMA LifecycleStep ==
  ASSUME TypeOK, PlaceInv, TokenInv, AttemptInv, [Next]_vars, NEW j \in Jobs
  PROVE  Moves(j)
<1>0. TypeOK' /\ PlaceInv' /\ AttemptInv' /\ Effect
  BY TypeStep, PlaceStep, AttemptStep, StepEffect
<1> DEFINE s == StateOf(j)
           t == StateOf(j)'
<1> DEFINE Legal ==
  \/ s = t /\ claims'[j] = claims[j]
  \/ s = "new" /\ t = "waiting" /\ claims'[j] = claims[j]
  \/ s = "waiting" /\ claims[j] < MaxRetries + 1 /\ t = "claimed" /\ claims'[j] = claims[j] + 1
  \/ s = "claimed" /\ claims[j] < MaxRetries + 1 /\ t = "waiting" /\ claims'[j] = claims[j]
  \/ s = "claimed" /\ t \in Lifecycle!Ends /\ claims'[j] = claims[j]
<1>1. [k \in Jobs |-> StateOf(k)][j] = s /\ [k \in Jobs |-> StateOf(k)]'[j] = t
  OBVIOUS
<1>a. /\ submitted[j] # "queued" => s = "new"
      /\ j \in Waiting => s = "waiting"
      /\ j \in DOMAIN claim => s = "claimed"
      /\ Settled(j) => s = IF outcome[j] = "evicted" THEN "lost" ELSE outcome[j]
      /\ submitted[j] = "queued" /\ ~Settled(j) /\ j \notin Waiting /\ j \notin DOMAIN claim
           => s = "lost"
  BY StateFacts
<1>b. /\ submitted'[j] # "queued" => t = "new"
      /\ j \in Waiting' => t = "waiting"
      /\ j \in DOMAIN claim' => t = "claimed"
      /\ Settled(j)' => t = IF outcome'[j] = "evicted" THEN "lost" ELSE outcome'[j]
      /\ submitted'[j] = "queued" /\ ~Settled(j)' /\ j \notin Waiting' /\ j \notin DOMAIN claim'
           => t = "lost"
  BY <1>0 DEF StateOf, Settled, PlaceInv, Waiting, TypeOK
<1>c. /\ \A z \in {"sent", "dead", "dropped", "lost"} : z \in Lifecycle!Ends
      /\ outcome'[j] \in {"open", "sent", "dead", "dropped", "evicted"}
      /\ j \in Waiting => claims[j] < MaxRetries + 1
      /\ j \in Waiting' => claims'[j] < MaxRetries + 1
  <2>1. ASSUME NEW k \in Jobs PROVE k \in Waiting => claims[k] < MaxRetries + 1
    BY ConfigAssumption DEF AttemptInv, Waiting, TypeOK
  <2>2. ASSUME NEW k \in Jobs PROVE k \in Waiting' => claims'[k] < MaxRetries + 1
    <3>1. (claims'[k] \in Nat /\ claims'[k] <= MaxRetries) \/ k \notin Waiting'
      <4>1. claims' \in [Jobs -> Nat]
        BY <1>0 DEF TypeOK
      <4> QED BY <1>0, <4>1, ConfigAssumption DEF AttemptInv, Waiting
    <3> QED BY <3>1, ConfigAssumption
  <2> QED BY <1>0, <2>1, <2>2 DEF Lifecycle!Ends, TypeOK
<1>d. /\ submitted[j] # "queued" => ~Settled(j) /\ j \notin Waiting /\ j \notin DOMAIN claim
      /\ Settled(j) => j \notin Waiting /\ j \notin DOMAIN claim
      /\ j \in Waiting => j \notin DOMAIN claim
  BY DEF PlaceInv, Waiting
<1>e. /\ Settled(j) <=> outcome[j] # "open"
      /\ Settled(j)' <=> outcome'[j] # "open"
  BY DEF Settled
<1>f. Settled(j)' /\ j \in Jobs => t \in Lifecycle!Ends
  BY <1>b, <1>c, <1>e
<1> HIDE DEF s, t
<1>2. ASSUME Quiet PROVE Legal
  <2>1. /\ j \in Waiting' <=> j \in Waiting
        /\ j \in DOMAIN claim' => j \in DOMAIN claim
        /\ claims'[j] = claims[j] /\ outcome'[j] = outcome[j]
        /\ submitted'[j] = "queued" <=> submitted[j] = "queued"
    BY <1>2 DEF Quiet, SubsetClaims, Waiting
  <2> QED BY <2>1, <1>a, <1>b, <1>c, <1>d, <1>e
<1>3. ASSUME NEW S \in SUBSET Jobs, Submit(S) PROVE Legal
  <2>1. /\ j \in Waiting' <=> j \in Waiting \/ j \in S
        /\ DOMAIN claim' = DOMAIN claim
        /\ claims'[j] = claims[j] /\ outcome'[j] = outcome[j]
        /\ j \in S => submitted[j] # "queued"
        /\ j \notin S => submitted'[j] = submitted[j]
    BY <1>3 DEF Submit, Waiting
  <2> QED BY <2>1, <1>a, <1>b, <1>c, <1>d, <1>e
<1>4. ASSUME NEW S \in SUBSET Jobs, Take(S) PROVE Legal
  <2>1. /\ j \in S => j \in Waiting /\ j \in DOMAIN claim' /\ claims'[j] = claims[j] + 1
        /\ j \notin S => /\ j \in Waiting' <=> j \in Waiting
                         /\ j \in DOMAIN claim' <=> j \in DOMAIN claim
                         /\ claims'[j] = claims[j]
        /\ outcome'[j] = outcome[j] /\ submitted'[j] = submitted[j]
    BY <1>0, <1>4 DEF Take, Waiting
  <2> QED BY <2>1, <1>a, <1>b, <1>c, <1>d, <1>e
<1>5. ASSUME NEW k \in Jobs, Requeue(k) PROVE Legal
  <2>1. /\ k = j => j \in Waiting' /\ j \in DOMAIN claim
        /\ k # j => /\ j \in Waiting' <=> j \in Waiting
                    /\ j \in DOMAIN claim' <=> j \in DOMAIN claim
        /\ claims'[j] = claims[j] /\ outcome'[j] = outcome[j] /\ submitted'[j] = submitted[j]
    BY <1>5 DEF Requeue, Leave, Waiting
  <2> QED BY <2>1, <1>a, <1>b, <1>c, <1>d, <1>e
<1>6. ASSUME NEW k \in Jobs, Finish(k) PROVE Legal
  <2>1. /\ k = j => j \in DOMAIN claim /\ j \notin DOMAIN claim'
        /\ k # j => /\ j \in DOMAIN claim' <=> j \in DOMAIN claim
                    /\ outcome'[j] = outcome[j]
        /\ j \in Waiting' <=> j \in Waiting
        /\ claims'[j] = claims[j] /\ submitted'[j] = submitted[j]
    BY <1>6 DEF Finish, Leave, Waiting
  <2>2. CASE k # j
    BY <2>1, <2>2, <1>a, <1>b, <1>c, <1>d, <1>e
  <2>3. CASE k = j
    <3>1. s = "claimed" /\ j \notin Waiting' /\ j \notin DOMAIN claim' /\ submitted'[j] = "queued"
      BY <2>1, <2>3, <1>a, <1>d
    <3>2. t \in Lifecycle!Ends
      BY <3>1, <1>b, <1>c, <1>f
    <3> QED BY <2>1, <3>1, <3>2
  <2> QED BY <2>2, <2>3
<1>7. Legal
  BY <1>0, <1>2, <1>3, <1>4, <1>5, <1>6 DEF Effect
<1> QED BY <1>1, <1>7
        DEF Moves, Lifecycle!Stay, Lifecycle!Enqueue, Lifecycle!Deliver, Lifecycle!Requeue,
            Lifecycle!Finish

(* Spec => ImplementsLifecycle: RedisBackend keeps the trait's promise. *)
THEOREM LifecycleCorrect == Spec => ImplementsLifecycle
<1>1. TypeOK /\ PlaceInv /\ TokenInv /\ AttemptInv /\ [Next]_vars
        => [Lifecycle!Next]_<<[j \in Jobs |-> StateOf(j)], claims>>
  BY LifecycleStep DEF Moves, Lifecycle!Next
<1> QED BY LifecycleInit, <1>1, TypeCorrect, PlaceCorrect, TokenCorrect, AttemptCorrect, PTL
        DEF Spec, ImplementsLifecycle, Lifecycle!Spec
=============================================================================
