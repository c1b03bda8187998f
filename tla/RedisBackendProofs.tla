------------------------ MODULE RedisBackendProofs ------------------------
(* What holds of RedisBackend for every number of jobs, clients and retries. *)
EXTENDS RedisBackend, TLAPS, FiniteSetTheorems, SequenceTheorems

-----------------------------------------------------------------------------
(* Sorted sets, hashes and the dead-letter list. *)

(* ZADD and ZREM keep a sorted set's shape and change exactly the ids given. *)
LEMMA ZAddFacts ==
  ASSUME NEW z, ZSet(z), NEW S \in SUBSET Jobs, NEW score \in Nat
  PROVE  /\ ZSet(ZAdd(z, S, score))
         /\ DOMAIN ZAdd(z, S, score) = DOMAIN z \cup S
         /\ \A j \in S : ZAdd(z, S, score)[j] = score
         /\ \A j \in DOMAIN z \ S : ZAdd(z, S, score)[j] = z[j]
  BY DEF ZSet, ZAdd

LEMMA ZRemFacts ==
  ASSUME NEW z, ZSet(z), NEW S
  PROVE  /\ ZSet(ZRem(z, S))
         /\ DOMAIN ZRem(z, S) = DOMAIN z \ S
         /\ \A j \in DOMAIN z \ S : ZRem(z, S)[j] = z[j]
  BY DEF ZSet, ZRem, Restrict

(* HSET of several fields and HDEL of one, likewise. *)
LEMMA HSetFacts ==
  ASSUME NEW h, NEW f
  PROVE  /\ DOMAIN HSet(h, f) = DOMAIN h \cup DOMAIN f
         /\ \A j \in DOMAIN f : HSet(h, f)[j] = f[j]
         /\ \A j \in DOMAIN h \ DOMAIN f : HSet(h, f)[j] = h[j]
  BY DEF HSet

LEMMA HDelFacts ==
  ASSUME NEW h, NEW j
  PROVE  /\ DOMAIN HDel(h, j) = DOMAIN h \ {j}
         /\ \A k \in DOMAIN h \ {j} : HDel(h, j)[k] = h[k]
  BY DEF HDel, Restrict

(* LTRIM bounds the list; it neither invents nor corrupts entries. *)
LEMMA PushDeadType ==
  ASSUME NEW j \in Jobs, dead \in Seq(Jobs), clock \in Nat, PushDead(j)
  PROVE  dead' \in Seq(Jobs) /\ Len(dead') <= DeadMaxLen /\ deadExpiry' \in Nat
<1> DEFINE s == <<j>> \o dead
           n == IF Len(s) < DeadMaxLen THEN Len(s) ELSE DeadMaxLen
<1>1. s \in Seq(Jobs) /\ Len(s) = Len(dead) + 1 /\ Len(dead) \in Nat
  <2>1. <<j>> \in Seq(Jobs) /\ Len(<<j>>) = 1
    OBVIOUS
  <2> QED BY <2>1, ConcatProperties, LenProperties
<1>2. n \in 0 .. Len(s) /\ n <= DeadMaxLen
  BY <1>1, ConfigAssumption
<1>3. dead' = SubSeq(s, 1, n)
  BY DEF PushDead, LTrim
<1>4. SubSeq(s, 1, n) \in Seq(Jobs) /\ Len(SubSeq(s, 1, n)) = n
  <2> HIDE DEF s, n
  <2>1. \A i \in 1 .. n : i \in 1 .. Len(s)
    BY <1>1, <1>2
  <2> QED BY <1>1, <1>2, <2>1, SubSeqProperties
<1>5. deadExpiry' \in Nat
  BY ConfigAssumption DEF PushDead
<1> QED BY <1>2, <1>3, <1>4, <1>5

(* What a "lowest score first, at most n" query answers. *)
LEMMA FirstByScoreFacts ==
  ASSUME NEW X \in SUBSET Jobs, NEW n, NEW score, NEW S \in FirstByScore(X, n, score)
  PROVE  S \subseteq X /\ S \subseteq Jobs /\ IsFiniteSet(S) /\ Cardinality(S) \in Nat
<1>1. S \subseteq X
  BY DEF FirstByScore
<1>2. IsFiniteSet(S)
  BY <1>1, JobsAssumption, FS_Subset
<1> QED BY <1>1, <1>2, FS_CardinalityType

-----------------------------------------------------------------------------
(* The gated scripts and the minting of claims, once for all their callers. *)

ScriptVars == <<body, retry, processing, claim, processed, dead, deadExpiry, outcome>>

ScriptTypes ==
  /\ DOMAIN body \subseteq Jobs /\ body \in [DOMAIN body -> Nat \cup {Corrupt}]
  /\ ZSet(retry) /\ ZSet(processing) /\ ZSet(claim) /\ processed \in Nat
  /\ dead \in Seq(Jobs) /\ Len(dead) <= DeadMaxLen /\ deadExpiry \in Nat
  /\ outcome \in [Jobs -> {"open", "sent", "dead", "dropped", "evicted"}]

LEMMA ReleaseType ==
  ASSUME ScriptTypes, NEW j, Release(j)
  PROVE  ZSet(processing') /\ ZSet(claim')
  BY DEF ScriptTypes, ZSet, Release, ZRem, HDel, Restrict

(* Every script that ends a claim keeps the types of what it touches. *)
LEMMA ScriptType ==
  ASSUME TypeOK, NEW r \in Rec, NEW score \in Nat, NEW attempts \in Nat,
         \/ CompleteIfOwned(r) \/ GiveUp(r) \/ ReleaseIfOwned(r)
         \/ FailIfOwned(r, attempts, score)
  PROVE  ScriptTypes'
<1> USE DEF ScriptTypes, Rec
<1>0. ScriptTypes /\ clock \in Nat
  BY DEF TypeOK
<1>1. CASE Stale(r)
  BY <1>0, <1>1 DEF Stale, ZSet
<1>2. CASE ~Stale(r) /\ CompleteIfOwned(r)
  <2>1. /\ Release(r.id) /\ body' = HDel(body, r.id) /\ processed' = processed + 1
        /\ outcome' = [outcome EXCEPT ![r.id] = "sent"]
        /\ UNCHANGED <<retry, dead, deadExpiry>>
    BY <1>2 DEF CompleteIfOwned, End
  <2>2. DOMAIN body' \subseteq Jobs /\ body' \in [DOMAIN body' -> Nat \cup {Corrupt}]
    BY <1>0, <2>1 DEF HDel, Restrict
  <2>3. outcome' \in [Jobs -> {"open", "sent", "dead", "dropped", "evicted"}]
    BY <1>0, <2>1
  <2>4. ZSet(processing') /\ ZSet(claim')
    BY <1>0, <2>1, ReleaseType
  <2>5. ZSet(retry') /\ processed' \in Nat
    BY <1>0, <2>1 DEF ZSet
  <2>6. dead' \in Seq(Jobs) /\ Len(dead') <= DeadMaxLen /\ deadExpiry' \in Nat
    BY <1>0, <2>1
  <2> QED BY <2>2, <2>3, <2>4, <2>5, <2>6
<1>3. CASE ~Stale(r) /\ DeadLetterIfOwned(r)
  BY <1>0, <1>3, ReleaseType, PushDeadType DEF DeadLetterIfOwned, End, HDel, Restrict, ZSet
<1>4. CASE ~Stale(r) /\ DiscardIfOwned(r)
  BY <1>0, <1>4, ReleaseType DEF DiscardIfOwned, End, HDel, Restrict, ZSet
<1>5. CASE ~Stale(r) /\ ReleaseIfOwned(r)
  BY <1>0, <1>5, ReleaseType DEF ReleaseIfOwned, End, ZSet
<1>6. CASE ~Stale(r) /\ FailIfOwned(r, attempts, score)
  <2>1. /\ Release(r.id) /\ retry' = ZAdd(retry, {r.id}, score)
        /\ body' = HSet(body, [j \in {r.id} |-> attempts])
        /\ UNCHANGED <<processed, dead, deadExpiry, outcome>>
    BY <1>6 DEF FailIfOwned
  <2>2. ZSet(retry')
    <3>1. {r.id} \in SUBSET Jobs
      OBVIOUS
    <3> QED BY <1>0, <2>1, <3>1, ZAddFacts
  <2> QED BY <1>0, <2>1, <2>2, ReleaseType DEF HSet
<1> QED BY <1>1, <1>2, <1>3, <1>4, <1>5, <1>6 DEF GiveUp

(* Claiming ids of a set gives each a positive token above every older one. *)
LEMMA ClaimFreshFacts ==
  ASSUME TypeOK, NEW c \in Clients, NEW S \in SUBSET Jobs, IsFiniteSet(S), ClaimFresh(c, S)
  PROVE  /\ ZSet(processing') /\ DOMAIN processing' = DOMAIN processing \cup S
         /\ ZSet(claim') /\ DOMAIN claim' = DOMAIN claim \cup S
         /\ claimSeq' \in Nat /\ claimSeq <= claimSeq'
         /\ claims' = [j \in Jobs |-> IF j \in S THEN claims[j] + 1 ELSE claims[j]]
         /\ \A j \in S : claim'[j] \in claimSeq + 1 .. claimSeq'
         /\ \A j, k \in S : claim'[j] = claim'[k] => j = k
         /\ \A j \in DOMAIN claim \ S : claim'[j] = claim[j]
         /\ work' = [work EXCEPT ![c] = @ \cup
                       {[id |-> j, token |-> claim'[j], attempts |-> NoBody] : j \in S}]
<1>1. PICK token \in Bijection(S, claimSeq + 1 .. claimSeq + Cardinality(S)) :
        /\ processing' = ZAdd(processing, S, now[c])
        /\ claim' = HSet(claim, token)
        /\ claimSeq' = claimSeq + Cardinality(S)
        /\ claims' = [j \in Jobs |-> IF j \in S THEN claims[j] + 1 ELSE claims[j]]
        /\ work' = [work EXCEPT ![c] = @ \cup
                      {[id |-> j, token |-> token[j], attempts |-> NoBody] : j \in S}]
  BY DEF ClaimFresh
<1>2. claimSeq \in Nat /\ Cardinality(S) \in Nat /\ now[c] \in Nat /\ ZSet(processing) /\ ZSet(claim)
  BY FS_CardinalityType DEF TypeOK
<1>3. token \in [S -> claimSeq + 1 .. claimSeq'] /\ \A j, k \in S : token[j] = token[k] => j = k
  BY <1>1 DEF Bijection, Injection, IsInjective
<1>4. ZSet(processing') /\ DOMAIN processing' = DOMAIN processing \cup S
  BY <1>1, <1>2, ZAddFacts
<1>5. claim' = [j \in DOMAIN claim \cup S |-> IF j \in S THEN token[j] ELSE claim[j]]
  BY <1>1, <1>3 DEF HSet
<1>6. /\ DOMAIN claim' = DOMAIN claim \cup S
      /\ \A j \in S : claim'[j] = token[j]
      /\ \A j \in DOMAIN claim \ S : claim'[j] = claim[j]
  BY <1>5
<1>7. ZSet(claim')
  BY <1>1, <1>2, <1>3, <1>5 DEF ZSet
<1>8. {[id |-> j, token |-> token[j], attempts |-> NoBody] : j \in S}
        = {[id |-> j, token |-> claim'[j], attempts |-> NoBody] : j \in S}
  BY <1>6
<1>9. claimSeq' \in Nat /\ claimSeq <= claimSeq'
  BY <1>1, <1>2
<1>10. /\ \A j \in S : claim'[j] \in claimSeq + 1 .. claimSeq'
       /\ \A j, k \in S : claim'[j] = claim'[k] => j = k
  BY <1>3, <1>6
<1>11. work' = [work EXCEPT ![c] = @ \cup
                  {[id |-> j, token |-> claim'[j], attempts |-> NoBody] : j \in S}]
  BY <1>1, <1>8
<1> QED BY <1>1, <1>4, <1>6, <1>7, <1>9, <1>10, <1>11

-----------------------------------------------------------------------------
(* Type correctness. *)

LocalTypes ==
  /\ pc \in [Clients -> {"idle"} \cup PopSteps \cup SweepSteps]
  /\ now \in [Clients -> Nat]
  /\ work \in [Clients -> SUBSET Rec] /\ held \in [Clients -> SUBSET Held]
  /\ cur \in [Clients -> Jobs \cup {NoJob}]
  /\ \A c \in Clients : pc[c] \in CurSteps => cur[c] \in Jobs

LEMMA ReturnType ==
  ASSUME LocalTypes, NEW c \in Clients, NEW S \in SUBSET Held, Return(c, S)
  PROVE  LocalTypes'
  BY DEF LocalTypes, Return, CurSteps

LEMMA ReadableHeld == \A r \in Rec : Readable(r) => r \in Held
  BY DEF Rec, Held, Body, Readable

LEMMA FetchedType ==
  ASSUME TypeOK, NEW c \in Clients
  PROVE  Fetched(c) \in SUBSET Rec
<1>1. ASSUME NEW r \in work[c] PROVE [r EXCEPT !.attempts = BodyOf(r.id)] \in Rec
  <2>1. r \in Rec
    BY DEF TypeOK
  <2>2. BodyOf(r.id) \in Body
    BY <2>1 DEF TypeOK, BodyOf, Body
  <2> QED BY <2>1, <2>2 DEF Rec
<1> QED BY <1>1 DEF Fetched

LEMMA SweepRestType ==
  ASSUME LocalTypes, NEW c \in Clients, NEW S \in SUBSET Rec, SweepRest(c, S)
  PROVE  LocalTypes'
<1>1. CASE Return(c, {})
  BY <1>1, ReturnType
<1>2. CASE ~Return(c, {})
  BY <1>2 DEF SweepRest, Goto, LocalTypes, SweepSteps, CurSteps
<1> QED BY <1>1, <1>2

LEMMA TypeStep == ASSUME TypeOK, [Next]_vars PROVE TypeOK'
<1>0. LocalTypes /\ ScriptTypes
  BY DEF TypeOK, LocalTypes, ScriptTypes
<1>1. ASSUME NEW j \in Jobs, PushSet(j) PROVE TypeOK'
  BY <1>1 DEF PushSet, TypeOK, HSet, ZSet, local, Rec, Body
<1>2. ASSUME NEW j \in Jobs, PushZadd(j) PROVE TypeOK'
  BY <1>2 DEF PushZadd, TypeOK, ZSet, local
<1>3. ASSUME NEW j \in Jobs, PushError(j) PROVE TypeOK'
  BY <1>3 DEF PushError, TypeOK, ZSet, local, redis
<1>4. ASSUME NEW S \in SUBSET Jobs, PushBatch(S) PROVE TypeOK'
  BY <1>4 DEF PushBatch, TypeOK, HSet, ZSet, local
<1>5. ASSUME NEW c \in Clients, PopBegin(c) \/ SweepBegin(c) PROVE TypeOK'
  BY <1>5 DEF PopBegin, SweepBegin, Begin, TypeOK, ZSet, redis, history, PopSteps, SweepSteps, CurSteps
<1>6. ASSUME NEW c \in Clients, ClaimRetry(c) PROVE TypeOK'
  <2>1. PICK S \in FirstByScore({j \in DOMAIN retry : retry[j] <= now[c]}, BatchSize, retry) :
          /\ ClaimFresh(c, S)
          /\ retry' = ZRem(retry, S)
          /\ Goto(c, IF Cardinality(S) < BatchSize THEN "pop_pending" ELSE "pop_mget")
    BY <1>6 DEF ClaimRetry
  <2>2. S \in SUBSET Jobs /\ IsFiniteSet(S)
    <3>1. {j \in DOMAIN retry : retry[j] <= now[c]} \in SUBSET Jobs
      BY DEF TypeOK, ZSet
    <3> QED BY <3>1, FirstByScoreFacts
  <2>3. /\ ZSet(processing') /\ ZSet(claim') /\ claimSeq' \in Nat
        /\ \A j \in S : claim'[j] \in claimSeq + 1 .. claimSeq'
        /\ claims' = [j \in Jobs |-> IF j \in S THEN claims[j] + 1 ELSE claims[j]]
        /\ work' = [work EXCEPT ![c] = @ \cup
                      {[id |-> j, token |-> claim'[j], attempts |-> NoBody] : j \in S}]
    BY <2>1, <2>2, ClaimFreshFacts
  <2>4. ZSet(retry')
    BY <2>1, ZRemFacts DEF TypeOK
  <2>5. work' \in [Clients -> SUBSET Rec]
    BY <2>2, <2>3 DEF TypeOK, Rec, Body
  <2>6. pc' \in [Clients -> {"idle"} \cup PopSteps \cup SweepSteps] /\ now' = now
    BY <2>1 DEF Goto, TypeOK, PopSteps, CurSteps
  <2>7. claims' \in [Jobs -> Nat]
    BY <2>3 DEF TypeOK
  <2>8. \A d \in Clients : pc'[d] \in CurSteps => cur'[d] \in Jobs
    BY <1>6, <2>1 DEF ClaimRetry, Goto, TypeOK, CurSteps
  <2> QED BY <1>6, <2>3, <2>4, <2>5, <2>6, <2>7, <2>8 DEF ClaimRetry, TypeOK
<1>7. ASSUME NEW c \in Clients, ClaimPending(c) PROVE TypeOK'
  <2>1. PICK S \in FirstByScore(pending, BatchSize - Cardinality(work[c]), Priority) :
          /\ ClaimFresh(c, S)
          /\ pending' = pending \ S
          /\ Goto(c, IF S = {} /\ work[c] = {} THEN "idle" ELSE "pop_mget")
    BY <1>7 DEF ClaimPending
  <2>2. S \in SUBSET Jobs /\ IsFiniteSet(S)
    <3>1. pending \in SUBSET Jobs
      BY DEF TypeOK
    <3> QED BY <3>1, FirstByScoreFacts
  <2>3. /\ ZSet(processing') /\ ZSet(claim') /\ claimSeq' \in Nat
        /\ \A j \in S : claim'[j] \in claimSeq + 1 .. claimSeq'
        /\ claims' = [j \in Jobs |-> IF j \in S THEN claims[j] + 1 ELSE claims[j]]
        /\ work' = [work EXCEPT ![c] = @ \cup
                      {[id |-> j, token |-> claim'[j], attempts |-> NoBody] : j \in S}]
    BY <2>1, <2>2, ClaimFreshFacts
  <2>4. pending' \subseteq Jobs
    BY <2>1 DEF TypeOK
  <2>5. work' \in [Clients -> SUBSET Rec]
    BY <2>2, <2>3 DEF TypeOK, Rec, Body
  <2>6. pc' \in [Clients -> {"idle"} \cup PopSteps \cup SweepSteps] /\ now' = now
    BY <2>1 DEF Goto, TypeOK, PopSteps, CurSteps
  <2>7. claims' \in [Jobs -> Nat]
    BY <2>3 DEF TypeOK
  <2>8. \A d \in Clients : pc'[d] \in CurSteps => cur'[d] \in Jobs
    BY <1>7, <2>1 DEF ClaimPending, Goto, TypeOK, CurSteps
  <2> QED BY <1>7, <2>3, <2>4, <2>5, <2>6, <2>7, <2>8 DEF ClaimPending, TypeOK, ZSet
<1>8. ASSUME NEW c \in Clients, PopMget(c) PROVE TypeOK'
  <2>1. LocalTypes'
    <3>1. CASE \A r \in Fetched(c) : Readable(r)
      <4>1. Return(c, Fetched(c))
        BY <1>8, <3>1 DEF PopMget
      <4>2. Fetched(c) \in SUBSET Held
        BY <3>1, FetchedType, ReadableHeld
      <4> QED BY <1>0, <4>1, <4>2, ReturnType
    <3>2. CASE ~\A r \in Fetched(c) : Readable(r)
      BY <1>0, <1>8, <3>2, FetchedType DEF PopMget, Goto, LocalTypes, PopSteps, CurSteps
    <3> QED BY <3>1, <3>2
  <2> QED BY <1>8, <2>1 DEF PopMget, TypeOK, LocalTypes, ZSet, redis, history
<1>9. ASSUME NEW c \in Clients, DiscardZrem(c) PROVE TypeOK'
  <2>1. PICK r \in work[c] : processing' = ZRem(processing, {r.id})
                             /\ cur' = [cur EXCEPT ![c] = r.id]
    BY <1>9 DEF DiscardZrem
  <2>2. r.id \in Jobs
    BY DEF TypeOK, Rec
  <2>3. ZSet(processing')
    BY <2>1, ZRemFacts DEF TypeOK
  <2> QED BY <1>9, <2>1, <2>2, <2>3 DEF DiscardZrem, Goto, TypeOK, ZSet, history, PopSteps, CurSteps
<1>10. ASSUME NEW c \in Clients, DiscardHdel(c) PROVE TypeOK'
  BY <1>10 DEF DiscardHdel, Goto, TypeOK, HDel, Restrict, ZSet, history, PopSteps, CurSteps
<1>11. ASSUME NEW c \in Clients, DiscardLost(c) PROVE TypeOK'
  BY <1>11 DEF DiscardLost, Goto, TypeOK, ZSet, history, PopSteps, CurSteps
<1>12. ASSUME NEW c \in Clients, DiscardDead(c) PROVE TypeOK'
  BY <1>12, PushDeadType DEF DiscardDead, Goto, TypeOK, ZSet, history, PopSteps, CurSteps
<1>13. ASSUME NEW c \in Clients, DiscardDel(c) PROVE TypeOK'
  <2> DEFINE rest == {r \in work[c] : r.id # cur[c]}
  <2>1. LocalTypes'
    <3>1. CASE \A r \in rest : Readable(r)
      <4>1. Return(c, rest)
        BY <1>13, <3>1 DEF DiscardDel
      <4>2. rest \in SUBSET Held
        BY <1>0, <3>1, ReadableHeld DEF LocalTypes
      <4> QED BY <1>0, <4>1, <4>2, ReturnType
    <3>2. CASE ~\A r \in rest : Readable(r)
      BY <1>0, <1>13, <3>2 DEF DiscardDel, Goto, LocalTypes, PopSteps, CurSteps
    <3> QED BY <3>1, <3>2
  <2> QED BY <1>13, <2>1 DEF DiscardDel, TypeOK, LocalTypes, ZSet, HDel, Restrict, history
<1>14. ASSUME NEW c \in Clients, ClaimStale(c) PROVE TypeOK'
  <2> DEFINE old == {j \in DOMAIN processing : processing[j] <= now[c] - VisTimeout}
  <2>1. PICK S \in FirstByScore(old, ReclaimBatch, processing) :
          \/ S = {} /\ Return(c, {}) /\ UNCHANGED processing
          \/ /\ processing' = ZAdd(processing, S, now[c])
             /\ work' = [work EXCEPT ![c] =
                           {[id |-> j, token |-> TokenOf(j), attempts |-> NoBody] : j \in S}]
             /\ Goto(c, "sweep_mget")
             /\ UNCHANGED <<cur, held>>
    BY <1>14 DEF ClaimStale
  <2>2. S \in SUBSET Jobs
    <3>1. old \in SUBSET Jobs
      BY DEF TypeOK, ZSet
    <3> QED BY <3>1, FirstByScoreFacts
  <2>3. ZSet(processing')
    <3>1. ZSet(processing) /\ now[c] \in Nat
      BY DEF TypeOK
    <3>2. ZSet(ZAdd(processing, S, now[c]))
      BY <2>2, <3>1, ZAddFacts
    <3>3. CASE UNCHANGED processing
      BY <3>1, <3>3 DEF ZSet
    <3> QED BY <2>1, <3>2, <3>3
  <2>4. LocalTypes'
    <3>1. CASE Return(c, {})
      BY <1>0, <3>1, ReturnType
    <3>2. CASE ~Return(c, {})
      <4>1. {[id |-> j, token |-> TokenOf(j), attempts |-> NoBody] : j \in S} \in SUBSET Rec
        BY <2>2 DEF TypeOK, ZSet, TokenOf, Rec, Body
      <4> QED BY <1>0, <2>1, <3>2, <4>1 DEF Goto, LocalTypes, SweepSteps, CurSteps
    <3> QED BY <3>1, <3>2
  <2> QED BY <1>14, <2>3, <2>4 DEF ClaimStale, TypeOK, LocalTypes, ZSet, history
<1>15. ASSUME NEW c \in Clients, SweepMget(c) PROVE TypeOK'
  BY <1>15, FetchedType DEF SweepMget, Goto, TypeOK, ZSet, redis, history, SweepSteps, CurSteps
<1>16. ASSUME NEW c \in Clients, SweepFinish(c) PROVE TypeOK'
  <2>1. PICK r \in work[c] : Reclaim(c, r) \/ SkipCorrupt(c, r) \/ ReleaseMissing(c, r)
    BY <1>16 DEF SweepFinish
  <2>2. r \in Rec /\ work[c] \ {r} \in SUBSET Rec /\ now[c] \in Nat
    BY <1>0 DEF LocalTypes
  <2>3. CASE Reclaim(c, r)
    <3>1. r.attempts \in Nat
      BY <2>2, <2>3 DEF Reclaim, Readable, Rec, Body
    <3>2. FailIfOwned(r, r.attempts + 1, now[c]) \/ GiveUp(r)
      BY <2>3 DEF Reclaim
    <3>3. ScriptTypes'
      BY <2>2, <3>1, <3>2, ScriptType
    <3>4. LocalTypes'
      BY <1>0, <2>2, <2>3, SweepRestType DEF Reclaim
    <3> QED BY <1>16, <3>3, <3>4 DEF SweepFinish, TypeOK, ScriptTypes, LocalTypes
  <2>4. CASE SkipCorrupt(c, r)
    <3>1. LocalTypes'
      BY <1>0, <2>2, <2>4, SweepRestType DEF SkipCorrupt
    <3> QED BY <1>16, <2>4, <3>1 DEF SweepFinish, SkipCorrupt, TypeOK, LocalTypes, ZSet
  <2>5. CASE ReleaseMissing(c, r)
    <3>1. ScriptTypes'
      BY <2>2, <2>5, ScriptType DEF ReleaseMissing
    <3>2. LocalTypes'
      <4>1. CASE Owned(r)
        BY <1>0, <2>2, <2>5, <4>1 DEF ReleaseMissing, Goto, LocalTypes, SweepSteps, Rec
      <4>2. CASE ~Owned(r)
        BY <1>0, <2>2, <2>5, <4>2, SweepRestType DEF ReleaseMissing
      <4> QED BY <4>1, <4>2
    <3> QED BY <1>16, <3>1, <3>2 DEF SweepFinish, TypeOK, ScriptTypes, LocalTypes
  <2> QED BY <2>1, <2>3, <2>4, <2>5
<1>17. ASSUME NEW c \in Clients, SweepLost(c) \/ SweepDead(c) PROVE TypeOK'
  <2> DEFINE rest == {r \in work[c] : r.id # cur[c]}
  <2>1. cur[c] \in Jobs /\ rest \in SUBSET Rec
    BY <1>0, <1>17 DEF SweepLost, SweepDead, LocalTypes, CurSteps
  <2>2. LocalTypes'
    <3>1. CASE SweepRest(c, rest)
      BY <1>0, <2>1, <3>1, SweepRestType
    <3>2. CASE ~SweepRest(c, rest)
      BY <1>0, <1>17, <2>1, <3>2 DEF SweepLost, SweepDead, Goto, LocalTypes, SweepSteps
    <3> QED BY <3>1, <3>2
  <2>3. ScriptTypes' /\ lost' \subseteq Jobs
    BY <1>0, <1>17, <2>1, PushDeadType
       DEF SweepLost, SweepDead, TypeOK, ScriptTypes, ZSet, history
  <2> QED BY <1>17, <2>2, <2>3
          DEF SweepLost, SweepDead, TypeOK, ScriptTypes, LocalTypes, history
<1>18. ASSUME NEW c \in Clients, TaskDone(c) PROVE TypeOK'
  <2>1. PICK h \in held[c] :
          (TaskSent(c, h) \/ TaskFailed(c, h)) /\ held' = [held EXCEPT ![c] = @ \ {h}]
    BY <1>18 DEF TaskDone
  <2>2. h \in Held /\ h \in Rec
    BY <1>0 DEF LocalTypes, Held, Rec, Body
  <2>3. ScriptTypes'
    <3>1. CASE CompleteIfOwned(h) \/ GiveUp(h)
      BY <2>2, <3>1, ScriptType
    <3>2. ASSUME NEW delay \in RetryDelays, FailIfOwned(h, h.attempts + 1, clock + delay),
                 ShouldRetry(h.attempts)
          PROVE  ScriptTypes'
      <4>1. h.attempts + 1 \in Nat /\ clock + delay \in Nat
        <5>1. delay \in Nat /\ clock \in Nat /\ h.attempts \in Nat
          BY <2>2, ConfigAssumption DEF Held, TypeOK
        <5> QED BY <5>1
      <4> QED BY <2>2, <3>2, <4>1, ScriptType
    <3> QED BY <2>1, <3>1, <3>2 DEF TaskSent, TaskFailed
  <2> QED BY <1>18, <2>1, <2>3 DEF TaskDone, TypeOK, ScriptTypes
<1>19. ASSUME NEW c \in Clients, TaskDropped(c) PROVE TypeOK'
  BY <1>19 DEF TaskDropped, TypeOK, ZSet, redis, history
<1>20. ASSUME NEW c \in Clients, RedisError(c) PROVE TypeOK'
  <2>1. PICK S \in SUBSET Held : Return(c, S)
    BY <1>0, <1>20, ReadableHeld DEF RedisError, LocalTypes
  <2>2. LocalTypes'
    BY <1>0, <2>1, ReturnType
  <2> QED BY <1>20, <2>2 DEF RedisError, TypeOK, LocalTypes, ZSet, redis, history
<1>21. ASSUME NEW c \in Clients, Crash(c) PROVE TypeOK'
  BY <1>21 DEF Crash, TypeOK, ZSet, redis, history, CurSteps
<1>22. ASSUME NEW j \in Jobs, Evict(j) \/ Garble(j) PROVE TypeOK'
  BY <1>22 DEF Evict, Garble, TypeOK, HDel, Restrict, ZSet, local, history
<1>23. CASE Tick
  <2>1. clock' \in Nat
    BY <1>23 DEF Tick, TypeOK
  <2>2. dead' \in Seq(Jobs) /\ Len(dead') <= DeadMaxLen /\ deadExpiry' \in Nat
    <3>1. DeadMaxLen \in Nat /\ <<>> \in Seq(Jobs) /\ Len(<<>>) = 0
      BY ConfigAssumption, EmptySeq
    <3>2. CASE dead' = <<>> /\ deadExpiry' = 0
      BY <3>1, <3>2
    <3>3. CASE UNCHANGED <<dead, deadExpiry>>
      BY <3>3 DEF TypeOK
    <3> QED BY <1>23, <3>2, <3>3 DEF Tick
  <2> QED BY <1>23, <2>1, <2>2 DEF Tick, TypeOK, ZSet, local, history
<1>24. CASE UNCHANGED vars
  BY <1>24 DEF TypeOK, ZSet, vars, redis, local, history
<1> QED
  BY <1>1, <1>2, <1>3, <1>4, <1>5, <1>6, <1>7, <1>8, <1>9, <1>10, <1>11, <1>12, <1>13,
     <1>14, <1>15, <1>16, <1>17, <1>18, <1>19, <1>20, <1>21, <1>22, <1>23, <1>24
     DEF Next, Push, Client, PopStep, SweepStep

LEMMA TypeInit == Init => TypeOK
  BY ConfigAssumption, EmptySeq DEF Init, TypeOK, ZSet, CurSteps

(* TypeOK holds in every reachable state, for every value of the constants. *)
THEOREM TypeCorrect == Spec => []TypeOK
<1>1. TypeOK /\ [Next]_vars => TypeOK'
  BY TypeStep
<1> QED BY TypeInit, <1>1, PTL DEF Spec

-----------------------------------------------------------------------------
(* What a step does to the places of the jobs: one of five things. *)

SubsetClaims == /\ DOMAIN claim' \subseteq DOMAIN claim /\ claimSeq' = claimSeq
                /\ \A j \in DOMAIN claim' : claim'[j] = claim[j]

Quiet == /\ UNCHANGED <<pending, retry, claims, outcome>>
         /\ DOMAIN processing' \subseteq DOMAIN processing
         /\ SubsetClaims
         /\ \A j \in Jobs : submitted'[j] # submitted[j] =>
                              submitted[j] # "queued" /\ submitted'[j] # "queued"

Submit(S) == /\ \A j \in S : submitted[j] \in {"new", "stored"}
             /\ \A j \in Jobs : submitted'[j] = IF j \in S THEN "queued" ELSE submitted[j]
             /\ pending' = pending \cup S
             /\ UNCHANGED <<retry, processing, claim, claimSeq, claims, outcome>>

Take(S) == /\ \/ /\ S \subseteq DOMAIN retry /\ DOMAIN retry' = DOMAIN retry \ S
                 /\ UNCHANGED pending
              \/ S \subseteq pending /\ pending' = pending \ S /\ UNCHANGED retry
           /\ DOMAIN processing' = DOMAIN processing \cup S
           /\ DOMAIN claim' = DOMAIN claim \cup S
           /\ claimSeq <= claimSeq'
           /\ \A j \in S : claim'[j] \in claimSeq + 1 .. claimSeq'
           /\ \A j \in DOMAIN claim \ S : claim'[j] = claim[j]
           /\ claims' = [j \in Jobs |-> IF j \in S THEN claims[j] + 1 ELSE claims[j]]
           /\ UNCHANGED <<body, submitted, outcome>>

Leave(j) == /\ j \in DOMAIN claim
            /\ DOMAIN processing' = DOMAIN processing \ {j}
            /\ DOMAIN claim' = DOMAIN claim \ {j} /\ SubsetClaims
            /\ UNCHANGED <<pending, submitted, claims>>

Requeue(j) == Leave(j) /\ DOMAIN retry' = DOMAIN retry \cup {j} /\ UNCHANGED outcome

Finish(j) == /\ Leave(j) /\ UNCHANGED retry
             /\ \A k \in Jobs \ {j} : outcome'[k] = outcome[k]

Effect == \/ Quiet
          \/ \E S \in SUBSET Jobs : Submit(S) \/ Take(S)
          \/ \E j \in Jobs : Requeue(j) \/ Finish(j)

(* A script that ends a claim requeues the job, finishes it, or does nothing. *)
LEMMA ScriptEffect ==
  ASSUME TypeOK, NEW r \in Rec, NEW score \in Nat, NEW attempts \in Nat,
         UNCHANGED <<pending, claimSeq, submitted, claims>>,
         \/ CompleteIfOwned(r) \/ GiveUp(r) \/ ReleaseIfOwned(r)
         \/ FailIfOwned(r, attempts, score)
  PROVE  Quiet \/ Requeue(r.id) \/ Finish(r.id)
<1>1. CASE Stale(r)
  BY <1>1 DEF Stale, Quiet, SubsetClaims
<1>2. CASE ~Stale(r)
  <2>1. r.id \in DOMAIN claim /\ r.id \in Jobs
    BY <1>2 DEF CompleteIfOwned, GiveUp, DeadLetterIfOwned, DiscardIfOwned, ReleaseIfOwned,
                FailIfOwned, Owned, Rec
  <2>2. Release(r.id)
    BY <1>2 DEF CompleteIfOwned, GiveUp, DeadLetterIfOwned, DiscardIfOwned, ReleaseIfOwned,
                FailIfOwned
  <2>3. Leave(r.id)
    <3>1. ZSet(processing) /\ processing' = ZRem(processing, {r.id}) /\ claim' = HDel(claim, r.id)
      BY <2>2 DEF TypeOK, Release
    <3>2. DOMAIN processing' = DOMAIN processing \ {r.id}
      BY <3>1, ZRemFacts
    <3>3. /\ DOMAIN claim' = DOMAIN claim \ {r.id}
          /\ \A k \in DOMAIN claim \ {r.id} : claim'[k] = claim[k]
      BY <3>1, HDelFacts
    <3> QED BY <2>1, <3>2, <3>3 DEF Leave, SubsetClaims
  <2>4. CASE FailIfOwned(r, attempts, score)
    <3>1. retry' = ZAdd(retry, {r.id}, score) /\ UNCHANGED outcome
      BY <1>2, <2>4 DEF FailIfOwned
    <3>2. {r.id} \in SUBSET Jobs /\ ZSet(retry)
      BY <2>1 DEF TypeOK
    <3>3. DOMAIN retry' = DOMAIN retry \cup {r.id}
      BY <3>1, <3>2, ZAddFacts
    <3> QED BY <2>3, <3>1, <3>3 DEF Requeue
  <2>5. CASE ~FailIfOwned(r, attempts, score)
    <3>1. UNCHANGED retry /\ \E how : outcome' = [outcome EXCEPT ![r.id] = how]
      BY <1>2, <2>5 DEF CompleteIfOwned, GiveUp, DeadLetterIfOwned, DiscardIfOwned,
                        ReleaseIfOwned, End
    <3> QED BY <2>3, <3>1 DEF Finish, TypeOK
  <2> QED BY <2>4, <2>5
<1> QED BY <1>1, <1>2

LEMMA StepEffect == ASSUME TypeOK, [Next]_vars PROVE Effect
<1>1. ASSUME NEW j \in Jobs, PushSet(j) \/ PushError(j) PROVE Quiet
  BY <1>1 DEF PushSet, PushError, Quiet, SubsetClaims, TypeOK, redis, local
<1>2. ASSUME NEW j \in Jobs, PushZadd(j) PROVE Submit({j})
  BY <1>2 DEF PushZadd, Submit, TypeOK
<1>3. ASSUME NEW S \in SUBSET Jobs, PushBatch(S) PROVE Submit(S)
  BY <1>3 DEF PushBatch, Submit
<1>4. ASSUME NEW c \in Clients, PopBegin(c) \/ SweepBegin(c) \/ PopMget(c) \/ SweepMget(c)
             \/ TaskDropped(c) \/ RedisError(c) \/ Crash(c)
      PROVE  Quiet
  BY <1>4 DEF PopBegin, SweepBegin, Begin, PopMget, SweepMget, TaskDropped, RedisError, Crash,
              Quiet, SubsetClaims, redis, history
<1>5. ASSUME NEW c \in Clients, ClaimRetry(c) PROVE \E S \in SUBSET Jobs : Take(S)
  <2>1. PICK S \in FirstByScore({j \in DOMAIN retry : retry[j] <= now[c]}, BatchSize, retry) :
          ClaimFresh(c, S) /\ retry' = ZRem(retry, S)
    BY <1>5 DEF ClaimRetry
  <2>2. S \in SUBSET Jobs /\ S \subseteq DOMAIN retry /\ IsFiniteSet(S)
    <3>1. {j \in DOMAIN retry : retry[j] <= now[c]} \in SUBSET Jobs
      BY DEF TypeOK, ZSet
    <3> QED BY <3>1, FirstByScoreFacts
  <2>3. DOMAIN retry' = DOMAIN retry \ S
    BY <2>1, ZRemFacts DEF TypeOK
  <2>4. UNCHANGED <<pending, body, submitted, outcome>>
    BY <1>5 DEF ClaimRetry
  <2>5. Take(S)
    BY <2>1, <2>2, <2>3, <2>4, ClaimFreshFacts DEF Take
  <2> QED BY <2>2, <2>5
<1>6. ASSUME NEW c \in Clients, ClaimPending(c) PROVE \E S \in SUBSET Jobs : Take(S)
  <2>1. PICK S \in FirstByScore(pending, BatchSize - Cardinality(work[c]), Priority) :
          ClaimFresh(c, S) /\ pending' = pending \ S
    BY <1>6 DEF ClaimPending
  <2>2. S \in SUBSET Jobs /\ S \subseteq pending /\ IsFiniteSet(S)
    <3>1. pending \in SUBSET Jobs
      BY DEF TypeOK
    <3> QED BY <3>1, FirstByScoreFacts
  <2>3. UNCHANGED <<retry, body, submitted, outcome>>
    BY <1>6 DEF ClaimPending
  <2>4. Take(S)
    BY <2>1, <2>2, <2>3, ClaimFreshFacts DEF Take
  <2> QED BY <2>2, <2>4
<1>7. ASSUME NEW c \in Clients, DiscardZrem(c) PROVE Quiet
  <2>1. PICK j : processing' = ZRem(processing, {j})
    BY <1>7 DEF DiscardZrem
  <2>2. DOMAIN processing' \subseteq DOMAIN processing
    BY <2>1 DEF ZRem, Restrict
  <2> QED BY <1>7, <2>2 DEF DiscardZrem, Quiet, SubsetClaims, history
<1>8. ASSUME NEW c \in Clients, DiscardHdel(c) PROVE Quiet
  <2>1. DOMAIN claim' \subseteq DOMAIN claim /\ \A j \in DOMAIN claim' : claim'[j] = claim[j]
    BY <1>8 DEF DiscardHdel, HDel, Restrict
  <2> QED BY <1>8, <2>1 DEF DiscardHdel, Quiet, SubsetClaims, history
<1>9. ASSUME NEW c \in Clients, DiscardLost(c) \/ DiscardDead(c) \/ DiscardDel(c)
             \/ SweepLost(c) \/ SweepDead(c)
      PROVE  Quiet
  BY <1>9 DEF DiscardLost, DiscardDead, DiscardDel, SweepLost, SweepDead, Quiet, SubsetClaims,
              history
<1>10. ASSUME NEW c \in Clients, ClaimStale(c) PROVE Quiet
  <2> DEFINE old == {j \in DOMAIN processing : processing[j] <= now[c] - VisTimeout}
  <2>1. PICK S \in FirstByScore(old, ReclaimBatch, processing) :
          processing' = ZAdd(processing, S, now[c]) \/ UNCHANGED processing
    BY <1>10 DEF ClaimStale
  <2>2. S \subseteq DOMAIN processing
    BY DEF FirstByScore
  <2>3. DOMAIN processing' = DOMAIN processing
    BY <2>1, <2>2 DEF ZAdd
  <2> QED BY <1>10, <2>3 DEF ClaimStale, Quiet, SubsetClaims, history
<1>11. ASSUME NEW c \in Clients, SweepFinish(c)
       PROVE  Quiet \/ \E j \in Jobs : Requeue(j) \/ Finish(j)
  <2>1. PICK r \in work[c] : Reclaim(c, r) \/ SkipCorrupt(c, r) \/ ReleaseMissing(c, r)
    BY <1>11 DEF SweepFinish
  <2>2. r \in Rec /\ now[c] \in Nat /\ UNCHANGED <<pending, claimSeq, submitted, claims>>
    BY <1>11 DEF TypeOK, SweepFinish
  <2>3. CASE Reclaim(c, r)
    <3>1. r.attempts + 1 \in Nat /\ (FailIfOwned(r, r.attempts + 1, now[c]) \/ GiveUp(r))
      BY <2>2, <2>3 DEF Reclaim, Readable, Rec, Body
    <3> QED BY <2>2, <3>1, ScriptEffect DEF Rec
  <2>4. CASE SkipCorrupt(c, r)
    BY <2>2, <2>4 DEF SkipCorrupt, Quiet, SubsetClaims
  <2>5. CASE ReleaseMissing(c, r)
    BY <2>2, <2>5, ScriptEffect DEF ReleaseMissing, Rec
  <2> QED BY <2>1, <2>3, <2>4, <2>5
<1>12. ASSUME NEW c \in Clients, TaskDone(c)
       PROVE  Quiet \/ \E j \in Jobs : Requeue(j) \/ Finish(j)
  <2>1. PICK h \in held[c] : TaskSent(c, h) \/ TaskFailed(c, h)
    BY <1>12 DEF TaskDone
  <2>2. /\ h \in Rec /\ h.id \in Jobs /\ h.attempts \in Nat /\ clock \in Nat
        /\ UNCHANGED <<pending, claimSeq, submitted, claims>>
    BY <1>12 DEF TypeOK, TaskDone, Held, Rec, Body
  <2>3. CASE CompleteIfOwned(h) \/ GiveUp(h)
    BY <2>2, <2>3, ScriptEffect
  <2>4. ASSUME NEW delay \in RetryDelays, FailIfOwned(h, h.attempts + 1, clock + delay)
        PROVE  Quiet \/ Requeue(h.id) \/ Finish(h.id)
    <3>1. delay \in Nat
      BY ConfigAssumption
    <3> QED BY <2>2, <2>4, <3>1, ScriptEffect
  <2> QED BY <2>1, <2>2, <2>3, <2>4 DEF TaskSent, TaskFailed
<1>13. ASSUME NEW j \in Jobs, Evict(j) \/ Garble(j) PROVE Quiet
  BY <1>13 DEF Evict, Garble, Quiet, SubsetClaims, history
<1>14. CASE Tick
  <2>1. UNCHANGED <<pending, retry, processing, claim, claimSeq, submitted, claims, outcome>>
    BY <1>14 DEF Tick, history
  <2> QED BY <2>1 DEF Quiet, SubsetClaims, Effect
<1>15. CASE UNCHANGED vars
  <2>1. UNCHANGED <<pending, retry, processing, claim, claimSeq, submitted, claims, outcome>>
    BY <1>15 DEF vars, redis, history
  <2> QED BY <2>1 DEF Quiet, SubsetClaims, Effect
<1>16. \A j \in Jobs : {j} \in SUBSET Jobs
  OBVIOUS
<1> QED
  BY <1>1, <1>2, <1>3, <1>4, <1>5, <1>6, <1>7, <1>8, <1>9, <1>10, <1>11, <1>12, <1>13, <1>14,
     <1>15, <1>16 DEF Next, Push, Client, PopStep, SweepStep, Effect

-----------------------------------------------------------------------------
(* Where a job can be: the invariant of the places. *)

PlaceInv ==
  /\ pending \cap DOMAIN retry = {}
  /\ (pending \cup DOMAIN retry) \cap (DOMAIN processing \cup DOMAIN claim) = {}
  /\ \A j \in Jobs : submitted[j] # "queued" =>
       /\ j \notin pending \cup DOMAIN retry \cup DOMAIN processing \cup DOMAIN claim
       /\ ~Settled(j) /\ claims[j] = 0
  /\ \A j \in Jobs : Settled(j) =>
       j \notin pending \cup DOMAIN retry \cup DOMAIN processing \cup DOMAIN claim

LEMMA PlaceStep == ASSUME TypeOK, PlaceInv, [Next]_vars PROVE PlaceInv'
<1>0. TypeOK' /\ Effect
  BY TypeStep, StepEffect
<1>1. CASE Quiet
  BY <1>0, <1>1 DEF Quiet, SubsetClaims, PlaceInv, Settled
<1>2. ASSUME NEW S \in SUBSET Jobs, Submit(S) PROVE PlaceInv'
  BY <1>0, <1>2 DEF Submit, PlaceInv, Settled
<1>3. ASSUME NEW S \in SUBSET Jobs, Take(S) PROVE PlaceInv'
  BY <1>0, <1>3 DEF Take, PlaceInv, Settled
<1>4. ASSUME NEW j \in Jobs, Requeue(j) PROVE PlaceInv'
  BY <1>0, <1>4 DEF Requeue, Leave, SubsetClaims, PlaceInv, Settled
<1>5. ASSUME NEW j \in Jobs, Finish(j) PROVE PlaceInv'
  BY <1>0, <1>5 DEF Finish, Leave, SubsetClaims, PlaceInv, Settled
<1> QED BY <1>0, <1>1, <1>2, <1>3, <1>4, <1>5 DEF Effect

LEMMA PlaceInit == Init => PlaceInv
  BY DEF Init, PlaceInv, Settled

LEMMA PlaceCorrect == Spec => []PlaceInv
<1>1. PlaceInv /\ TypeOK /\ [Next]_vars => PlaceInv'
  BY PlaceStep
<1> QED BY PlaceInit, <1>1, TypeCorrect, PTL DEF Spec

(* Spec => []OnePlace: no job waits twice, or waits while it is claimed. *)
THEOREM PlacesCorrect == Spec => []OnePlace
<1>1. ASSUME PlaceInv, NEW j \in Jobs PROVE Cardinality(Places(j)) <= 1
  <2>1. Places(j) = {} \/ \E place : Places(j) = {place}
    BY <1>1 DEF PlaceInv, Places
  <2>2. CASE Places(j) = {}
    BY <2>2, FS_EmptySet
  <2>3. ASSUME NEW place, Places(j) = {place} PROVE Cardinality(Places(j)) <= 1
    <3>1. Cardinality({place}) = 1
      BY FS_Singleton
    <3> QED BY <2>3, <3>1
  <2> QED BY <2>1, <2>2, <2>3
<1>2. PlaceInv => OnePlace
  BY <1>1 DEF OnePlace
<1> QED BY <1>2, PlaceCorrect, PTL

(* Spec => []NoResurrection: nothing brings back a job that ended. *)
THEOREM NoResurrectionCorrect == Spec => []NoResurrection
<1>1. PlaceInv => NoResurrection
  BY DEF PlaceInv, NoResurrection, Places
<1> QED BY <1>1, PlaceCorrect, PTL

(* Spec => OutcomeFinal: a job ends once. *)
THEOREM OutcomeCorrect == Spec => OutcomeFinal
<1>1. ASSUME TypeOK, PlaceInv, [Next]_vars
      PROVE  [\A j \in Jobs : Settled(j) => outcome'[j] = outcome[j]]_vars
  <2>1. Effect
    BY <1>1, StepEffect
  <2> QED BY <1>1, <2>1
          DEF Effect, Quiet, Submit, Take, Requeue, Finish, Leave, PlaceInv
<1> QED BY <1>1, TypeCorrect, PlaceCorrect, PTL DEF Spec, OutcomeFinal

-----------------------------------------------------------------------------
(* Who holds which claim. *)

(* Between calls a client has no batch; before MGET no body was read. *)
BatchInv ==
  \A c \in Clients :
    /\ pc[c] \in {"idle", "pop_retry", "sweep_claim"} => work[c] = {}
    /\ pc[c] \in {"pop_pending", "pop_mget"} => \A r \in work[c] : r.attempts = NoBody

(* The records of a step: kept, read from Redis, or newly claimed. *)
RecordsOf(c) == work[c] \cup held[c]

NewRecords ==
  \A c \in Clients : \A r \in RecordsOf(c)' :
    \/ r \in RecordsOf(c)
    \/ /\ \E q \in work[c] : r = [q EXCEPT !.attempts = BodyOf(q.id)]
       /\ UNCHANGED <<body, claim, claimSeq, claims>>
    \/ r.attempts = NoBody /\ r.token <= claimSeq'

KeepOwners == \A c \in Clients : Owners(c)' \subseteq Owners(c)

FetchOwners(c) ==
  /\ \A d \in Clients \ {c} : Owners(d)' = Owners(d)
  /\ Owners(c)' = held[c] \cup Fetched(c)
  /\ Owners(c) = held[c] \cup work[c]
  /\ \A r \in work[c] : r.attempts = NoBody

MintOwners(c) ==
  /\ \A d \in Clients \ {c} : Owners(d)' = Owners(d)
  /\ \A r \in Owners(c)' \ Owners(c) :
       /\ r.token = claim'[r.id] /\ r.attempts = NoBody
       /\ r.token > claimSeq
       /\ \A s \in Owners(c)' \ Owners(c) : r.token = s.token => r.id = s.id

OwnersEffect == KeepOwners \/ \E c \in Clients : FetchOwners(c) \/ MintOwners(c)

RecordStep == BatchInv' /\ NewRecords /\ OwnersEffect

LEMMA ReturnRecords ==
  ASSUME TypeOK, BatchInv, NEW c \in Clients, NEW S \in SUBSET work[c],
         pc[c] \in PopSteps \/ S = {}, Return(c, S)
  PROVE  RecordStep
  BY DEF Return, RecordStep, BatchInv, NewRecords, RecordsOf, KeepOwners, OwnersEffect, Owners,
         PopSteps, TypeOK

LEMMA SweepRestRecords ==
  ASSUME TypeOK, BatchInv, NEW c \in Clients, NEW S \in SUBSET work[c], SweepRest(c, S)
  PROVE  RecordStep
<1>1. CASE Return(c, {})
  BY <1>1, ReturnRecords
<1>2. CASE ~Return(c, {})
  <2>1. /\ work'[c] = S /\ pc'[c] = "sweep_finish" /\ held' = held
        /\ \A d \in Clients \ {c} : work'[d] = work[d] /\ pc'[d] = pc[d]
    BY <1>2 DEF SweepRest, Goto, TypeOK
  <2>2. BatchInv'
    BY <2>1 DEF BatchInv
  <2>3. NewRecords
    BY <2>1 DEF NewRecords, RecordsOf
  <2>4. KeepOwners
    BY <2>1 DEF KeepOwners, Owners, PopSteps
  <2> QED BY <2>2, <2>3, <2>4 DEF RecordStep, OwnersEffect
<1> QED BY <1>1, <1>2

(* A step that leaves the batch and moves within the same call. *)
LEMMA GotoRecords ==
  ASSUME TypeOK, BatchInv, NEW c \in Clients, NEW step, Goto(c, step), UNCHANGED <<work, held>>,
         \/ pc[c] \in PopSteps /\ step \in PopSteps \ {"pop_retry", "pop_pending", "pop_mget"}
         \/ pc[c] \in SweepSteps /\ step \in SweepSteps \ {"sweep_claim"}
  PROVE  RecordStep
  BY DEF Goto, RecordStep, BatchInv, NewRecords, RecordsOf, KeepOwners, OwnersEffect, Owners,
         PopSteps, SweepSteps, TypeOK

LEMMA ClaimRecords ==
  ASSUME TypeOK, BatchInv, NEW c \in Clients, NEW S \in SUBSET Jobs, IsFiniteSet(S),
         ClaimFresh(c, S), pc[c] \in {"pop_retry", "pop_pending"}, UNCHANGED held,
         NEW step \in {"pop_pending", "pop_mget", "idle"}, Goto(c, step),
         step = "idle" => S = {} /\ work[c] = {}
  PROVE  RecordStep
<1>1. /\ claimSeq' \in Nat /\ claimSeq \in Nat
      /\ \A j \in S : claim'[j] \in claimSeq + 1 .. claimSeq'
      /\ \A j, k \in S : claim'[j] = claim'[k] => j = k
      /\ work' = [work EXCEPT ![c] = @ \cup
                    {[id |-> j, token |-> claim'[j], attempts |-> NoBody] : j \in S}]
  BY ClaimFreshFacts DEF TypeOK
<1> DEFINE new == {[id |-> j, token |-> claim'[j], attempts |-> NoBody] : j \in S}
<1>2. \A r \in new : /\ r.id \in S /\ r.token = claim'[r.id] /\ r.attempts = NoBody
                     /\ r.token <= claimSeq' /\ r.token > claimSeq
  BY <1>1
<1>3. \A r, s \in new : r.token = s.token => r.id = s.id
  BY <1>1, <1>2
<1>4. work'[c] = work[c] \cup new /\ \A d \in Clients \ {c} : work'[d] = work[d]
  BY <1>1 DEF TypeOK
<1> HIDE DEF new
<1>5. pc'[c] = step /\ \A d \in Clients \ {c} : pc'[d] = pc[d]
  BY DEF Goto, TypeOK
<1>6. BatchInv'
  <2>1. step = "idle" => work'[c] = {}
    BY <1>4 DEF new
  <2> QED BY <1>2, <1>4, <1>5, <2>1 DEF BatchInv
<1>7. NewRecords
  BY <1>2, <1>4 DEF NewRecords, RecordsOf
<1>8. \A d \in Clients \ {c} : Owners(d)' = Owners(d)
  BY <1>4, <1>5 DEF Owners
<1>9. Owners(c)' \subseteq Owners(c) \cup new
  BY <1>4, <1>5 DEF Owners, PopSteps
<1>10. MintOwners(c)
  BY <1>2, <1>3, <1>8, <1>9 DEF MintOwners
<1> QED BY <1>6, <1>7, <1>10 DEF RecordStep, OwnersEffect

LEMMA MgetRecords ==
  ASSUME TypeOK, BatchInv, NEW c \in Clients, PopMget(c)
  PROVE  RecordStep
<1>1. UNCHANGED <<body, claim, claimSeq, claims>> /\ pc[c] = "pop_mget"
  BY DEF PopMget, redis, history
<1>2. CASE Return(c, Fetched(c))
  <2>1. /\ work'[c] = {} /\ held'[c] = held[c] \cup Fetched(c) /\ pc'[c] = "idle"
        /\ \A d \in Clients \ {c} : work'[d] = work[d] /\ held'[d] = held[d] /\ pc'[d] = pc[d]
    BY <1>2 DEF Return, TypeOK
  <2>2. BatchInv' /\ NewRecords
    BY <1>1, <2>1 DEF BatchInv, NewRecords, RecordsOf, Fetched
  <2>3. FetchOwners(c)
    BY <1>1, <2>1 DEF FetchOwners, Owners, PopSteps, BatchInv
  <2> QED BY <2>2, <2>3 DEF RecordStep, OwnersEffect
<1>3. CASE ~Return(c, Fetched(c))
  <2>1. /\ work'[c] = Fetched(c) /\ pc'[c] = "pop_zrem" /\ held' = held
        /\ \A d \in Clients \ {c} : work'[d] = work[d] /\ pc'[d] = pc[d]
    BY <1>3 DEF PopMget, Goto, TypeOK
  <2>2. BatchInv' /\ NewRecords
    BY <1>1, <2>1 DEF BatchInv, NewRecords, RecordsOf, Fetched
  <2>3. FetchOwners(c)
    BY <1>1, <2>1 DEF FetchOwners, Owners, PopSteps, BatchInv
  <2> QED BY <2>2, <2>3 DEF RecordStep, OwnersEffect
<1> QED BY <1>2, <1>3

(* Which claims the records name: none above the counter, none held twice. *)
TokenInv ==
  /\ BatchInv
  /\ \A j \in DOMAIN claim : claim[j] <= claimSeq
  /\ \A c \in Clients : \A r \in RecordsOf(c) : r.token <= claimSeq
  /\ SoleOwner

LEMMA StaleRecords ==
  ASSUME TypeOK, TokenInv, NEW c \in Clients, ClaimStale(c)
  PROVE  RecordStep
<1>1. PICK S \in FirstByScore({j \in DOMAIN processing : processing[j] <= now[c] - VisTimeout},
                              ReclaimBatch, processing) :
        \/ Return(c, {})
        \/ /\ work' = [work EXCEPT ![c] =
                         {[id |-> j, token |-> TokenOf(j), attempts |-> NoBody] : j \in S}]
           /\ Goto(c, "sweep_mget")
           /\ UNCHANGED held
  BY DEF ClaimStale
<1>2. CASE Return(c, {})
  BY <1>2, ReturnRecords DEF TokenInv
<1>3. CASE ~Return(c, {})
  <2> DEFINE new == {[id |-> j, token |-> TokenOf(j), attempts |-> NoBody] : j \in S}
  <2>1. /\ work'[c] = new /\ pc'[c] = "sweep_mget" /\ held' = held
        /\ \A d \in Clients \ {c} : work'[d] = work[d] /\ pc'[d] = pc[d]
    BY <1>1, <1>3 DEF Goto, TypeOK
  <2>2. \A r \in new : r.attempts = NoBody /\ r.token <= claimSeq'
    <3>1. \A j : TokenOf(j) <= claimSeq
      BY DEF TokenOf, TokenInv, TypeOK
    <3>2. claimSeq' = claimSeq
      BY DEF ClaimStale
    <3> QED BY <3>1, <3>2
  <2> HIDE DEF new
  <2>3. BatchInv'
    BY <2>1 DEF BatchInv, TokenInv
  <2>4. NewRecords
    BY <2>1, <2>2 DEF NewRecords, RecordsOf
  <2>5. KeepOwners
    BY <2>1 DEF KeepOwners, Owners, PopSteps
  <2> QED BY <2>3, <2>4, <2>5 DEF RecordStep, OwnersEffect
<1> QED BY <1>2, <1>3

(* A step that touches no batch and no task, or only forgets some. *)
LEMMA QuietRecords ==
  ASSUME TypeOK, BatchInv, UNCHANGED <<pc, work>>,
         \A c \in Clients : held'[c] \subseteq held[c]
  PROVE  RecordStep
  BY DEF RecordStep, BatchInv, NewRecords, RecordsOf, KeepOwners, OwnersEffect, Owners

LEMMA StepRecords == ASSUME TypeOK, TokenInv, [Next]_vars PROVE RecordStep
<1>0. BatchInv
  BY DEF TokenInv
<1>1. CASE UNCHANGED local
  BY <1>0, <1>1, QuietRecords DEF local
<1>2. ASSUME NEW c \in Clients, PopBegin(c) \/ SweepBegin(c) PROVE RecordStep
  <2>1. PICK step \in {"pop_retry", "sweep_claim"} :
          /\ pc[c] = "idle" /\ pc'[c] = step /\ \A d \in Clients \ {c} : pc'[d] = pc[d]
          /\ UNCHANGED <<work, held>>
    BY <1>2 DEF PopBegin, SweepBegin, Begin, TypeOK
  <2> QED BY <1>0, <2>1 DEF RecordStep, BatchInv, NewRecords, RecordsOf, KeepOwners,
                            OwnersEffect, Owners, PopSteps
<1>3. ASSUME NEW c \in Clients, ClaimRetry(c) PROVE RecordStep
  <2>1. PICK S \in FirstByScore({j \in DOMAIN retry : retry[j] <= now[c]}, BatchSize, retry) :
          /\ ClaimFresh(c, S)
          /\ Goto(c, IF Cardinality(S) < BatchSize THEN "pop_pending" ELSE "pop_mget")
    BY <1>3 DEF ClaimRetry
  <2>2. S \in SUBSET Jobs /\ IsFiniteSet(S)
    <3>1. {j \in DOMAIN retry : retry[j] <= now[c]} \in SUBSET Jobs
      BY DEF TypeOK, ZSet
    <3> QED BY <3>1, FirstByScoreFacts
  <2> QED BY <1>0, <1>3, <2>1, <2>2, ClaimRecords DEF ClaimRetry
<1>4. ASSUME NEW c \in Clients, ClaimPending(c) PROVE RecordStep
  <2>1. PICK S \in FirstByScore(pending, BatchSize - Cardinality(work[c]), Priority) :
          ClaimFresh(c, S) /\ Goto(c, IF S = {} /\ work[c] = {} THEN "idle" ELSE "pop_mget")
    BY <1>4 DEF ClaimPending
  <2>2. S \in SUBSET Jobs /\ IsFiniteSet(S)
    <3>1. pending \in SUBSET Jobs
      BY DEF TypeOK
    <3> QED BY <3>1, FirstByScoreFacts
  <2> QED BY <1>0, <1>4, <2>1, <2>2, ClaimRecords DEF ClaimPending
<1>5. ASSUME NEW c \in Clients, PopMget(c) PROVE RecordStep
  BY <1>0, <1>5, MgetRecords
<1>6. ASSUME NEW c \in Clients, DiscardZrem(c) \/ DiscardHdel(c) \/ DiscardLost(c) \/ DiscardDead(c)
      PROVE  RecordStep
  <2>1. PICK step \in PopSteps \ {"pop_retry", "pop_pending", "pop_mget"} :
          Goto(c, step) /\ UNCHANGED <<work, held>> /\ pc[c] \in PopSteps
    BY <1>6 DEF DiscardZrem, DiscardHdel, DiscardLost, DiscardDead, PopSteps
  <2> QED BY <1>0, <2>1, GotoRecords
<1>7. ASSUME NEW c \in Clients, DiscardDel(c) PROVE RecordStep
  <2> DEFINE rest == {r \in work[c] : r.id # cur[c]}
  <2>1. CASE Return(c, rest)
    <3>1. rest \in SUBSET work[c] /\ pc[c] \in PopSteps
      BY <1>7 DEF DiscardDel, PopSteps
    <3> QED BY <1>0, <2>1, <3>1, ReturnRecords
  <2>2. CASE ~Return(c, rest)
    <3>1. /\ work'[c] = rest /\ pc[c] = "pop_del" /\ pc'[c] = "pop_zrem" /\ held' = held
          /\ \A d \in Clients \ {c} : work'[d] = work[d] /\ pc'[d] = pc[d]
      BY <1>7, <2>2 DEF DiscardDel, Goto, TypeOK
    <3> QED BY <1>0, <3>1 DEF RecordStep, BatchInv, NewRecords, RecordsOf, KeepOwners,
                              OwnersEffect, Owners, PopSteps
  <2> QED BY <2>1, <2>2
<1>8. ASSUME NEW c \in Clients, ClaimStale(c) PROVE RecordStep
  BY <1>8, StaleRecords
<1>9. ASSUME NEW c \in Clients, SweepMget(c) PROVE RecordStep
  <2>1. /\ work'[c] = Fetched(c) /\ pc[c] = "sweep_mget" /\ pc'[c] = "sweep_finish" /\ held' = held
        /\ \A d \in Clients \ {c} : work'[d] = work[d] /\ pc'[d] = pc[d]
        /\ UNCHANGED <<body, claim, claimSeq, claims>>
    BY <1>9 DEF SweepMget, Goto, TypeOK, redis, history
  <2> QED BY <1>0, <2>1 DEF RecordStep, BatchInv, NewRecords, RecordsOf, KeepOwners,
                            OwnersEffect, Owners, PopSteps, Fetched
<1>10. ASSUME NEW c \in Clients, SweepFinish(c) PROVE RecordStep
  <2>1. PICK r \in work[c] : Reclaim(c, r) \/ SkipCorrupt(c, r) \/ ReleaseMissing(c, r)
    BY <1>10 DEF SweepFinish
  <2>2. CASE SweepRest(c, work[c] \ {r})
    BY <1>0, <2>2, SweepRestRecords
  <2>3. CASE ~SweepRest(c, work[c] \ {r})
    <3>1. Goto(c, "sweep_lost") /\ UNCHANGED <<work, held>>
      BY <2>1, <2>3 DEF Reclaim, SkipCorrupt, ReleaseMissing
    <3>2. pc[c] = "sweep_finish"
      BY <1>10 DEF SweepFinish
    <3> QED BY <1>0, <3>1, <3>2, GotoRecords DEF SweepSteps
  <2> QED BY <2>2, <2>3
<1>11. ASSUME NEW c \in Clients, SweepLost(c) \/ SweepDead(c) PROVE RecordStep
  <2> DEFINE rest == {r \in work[c] : r.id # cur[c]}
  <2>1. CASE SweepRest(c, rest)
    <3>1. rest \in SUBSET work[c]
      OBVIOUS
    <3> QED BY <1>0, <2>1, <3>1, SweepRestRecords
  <2>2. CASE ~SweepRest(c, rest)
    <3>1. Goto(c, "sweep_dead") /\ UNCHANGED <<work, held>> /\ pc[c] = "sweep_lost"
      BY <1>11, <2>2 DEF SweepLost, SweepDead
    <3> QED BY <1>0, <3>1, GotoRecords DEF SweepSteps
  <2> QED BY <2>1, <2>2
<1>12. ASSUME NEW c \in Clients, TaskDone(c) \/ TaskDropped(c) PROVE RecordStep
  <2>1. UNCHANGED <<pc, work>> /\ \A d \in Clients : held'[d] \subseteq held[d]
    BY <1>12 DEF TaskDone, TaskDropped, TypeOK
  <2> QED BY <1>0, <2>1, QuietRecords
<1>13. ASSUME NEW c \in Clients, RedisError(c) PROVE RecordStep
  <2>1. PICK S \in SUBSET work[c] : Return(c, S) /\ (pc[c] \in PopSteps \/ S = {})
    BY <1>13 DEF RedisError, PopSteps
  <2> QED BY <1>0, <2>1, ReturnRecords
<1>14. ASSUME NEW c \in Clients, Crash(c) PROVE RecordStep
  <2>1. /\ work'[c] = {} /\ held'[c] = {} /\ pc'[c] = "idle"
        /\ \A d \in Clients \ {c} : work'[d] = work[d] /\ held'[d] = held[d] /\ pc'[d] = pc[d]
    BY <1>14 DEF Crash, TypeOK
  <2> QED BY <1>0, <2>1 DEF RecordStep, BatchInv, NewRecords, RecordsOf, KeepOwners,
                            OwnersEffect, Owners, PopSteps
<1>15. CASE Push \/ Tick \/ UNCHANGED vars \/ \E j \in Jobs : Evict(j) \/ Garble(j)
  <2>1. UNCHANGED local
    BY <1>15 DEF Push, PushSet, PushZadd, PushError, PushBatch, Tick, Evict, Garble, vars
  <2> QED BY <1>1, <2>1
<1> QED BY <1>2, <1>3, <1>4, <1>5, <1>6, <1>7, <1>8, <1>9, <1>10, <1>11, <1>12, <1>13, <1>14,
           <1>15 DEF Next, Client, PopStep, SweepStep

LEMMA TokenStep == ASSUME TypeOK, TokenInv, [Next]_vars PROVE TokenInv'
<1>0. TypeOK' /\ Effect /\ RecordStep
  BY TypeStep, StepEffect, StepRecords
<1>1. claimSeq \in Nat /\ claimSeq' \in Nat /\ claimSeq <= claimSeq'
  <2>1. claimSeq \in Nat /\ claimSeq' \in Nat
    BY <1>0 DEF TypeOK
  <2>2. claimSeq' = claimSeq \/ claimSeq <= claimSeq'
    BY <1>0 DEF Effect, Quiet, SubsetClaims, Submit, Take, Requeue, Finish, Leave
  <2> QED BY <2>1, <2>2
<1>2. \A j \in DOMAIN claim' : claim'[j] <= claimSeq'
  <2>1. CASE \E S \in SUBSET Jobs : Take(S)
    <3>1. PICK S \in SUBSET Jobs : Take(S)
      BY <2>1
    <3>2. /\ DOMAIN claim' = DOMAIN claim \cup S
          /\ \A j \in S : claim'[j] \in claimSeq + 1 .. claimSeq'
          /\ \A j \in DOMAIN claim \ S : claim'[j] = claim[j]
      BY <3>1 DEF Take
    <3>3. \A j \in DOMAIN claim : claim[j] \in Nat /\ claim[j] <= claimSeq
      BY DEF TokenInv, TypeOK, ZSet
    <3> QED BY <1>1, <3>2, <3>3
  <2>2. CASE ~\E S \in SUBSET Jobs : Take(S)
    <3>1. DOMAIN claim' \subseteq DOMAIN claim /\ claimSeq' = claimSeq
          /\ \A j \in DOMAIN claim' : claim'[j] = claim[j]
      BY <1>0, <2>2 DEF Effect, Quiet, SubsetClaims, Submit, Requeue, Finish, Leave
    <3> QED BY <3>1 DEF TokenInv
  <2> QED BY <2>1, <2>2
<1>3. \A c \in Clients : \A r \in RecordsOf(c) : r.token \in Nat /\ r.token <= claimSeq
  BY DEF TokenInv, RecordsOf, TypeOK, Rec, Held
<1>4. ASSUME NEW c \in Clients, NEW r \in RecordsOf(c)' PROVE r.token <= claimSeq'
  <2>1. CASE r \in RecordsOf(c)
    BY <1>1, <1>3, <2>1
  <2>2. ASSUME NEW q \in work[c], r = [q EXCEPT !.attempts = BodyOf(q.id)],
               UNCHANGED claimSeq
        PROVE  r.token <= claimSeq'
    <3>1. q \in Rec /\ q.token <= claimSeq
      BY <1>3 DEF RecordsOf, TypeOK
    <3> QED BY <2>2, <3>1 DEF Rec
  <2> QED BY <1>0, <2>1, <2>2 DEF RecordStep, NewRecords
<1>5. ASSUME NEW c \in Clients, NEW r \in Owners(c)
      PROVE  r \in Rec /\ r.token <= claimSeq /\ r.token \in Nat
  BY <1>3 DEF Owners, RecordsOf, TypeOK, Rec, Held, Body
<1>6. SoleOwner'
  <2>1. CASE KeepOwners
    BY <2>1 DEF KeepOwners, TokenInv, SoleOwner
  <2>2. ASSUME NEW c \in Clients, FetchOwners(c) PROVE SoleOwner'
    <3> DEFINE From(d, r, q) ==
                 \/ d # c /\ r = q
                 \/ d = c /\ q \in held[c] /\ r = q
                 \/ d = c /\ q \in work[c] /\ r = [q EXCEPT !.attempts = BodyOf(q.id)]
    <3>1. ASSUME NEW d \in Clients, NEW r \in Owners(d)'
          PROVE  \E q \in Owners(d) : q.token = r.token /\ From(d, r, q)
      <4>1. CASE d # c
        BY <2>2, <4>1 DEF FetchOwners
      <4>2. CASE d = c /\ r \in held[c]
        BY <2>2, <4>2 DEF FetchOwners
      <4>3. ASSUME d = c, NEW q \in work[c], r = [q EXCEPT !.attempts = BodyOf(q.id)]
            PROVE  \E p \in Owners(d) : p.token = r.token /\ From(d, r, p)
        <5>1. q \in Owners(d) /\ q \in Rec
          BY <2>2, <4>3 DEF FetchOwners, TypeOK
        <5>2. q.token = r.token
          BY <4>3, <5>1 DEF Rec
        <5> QED BY <4>3, <5>1, <5>2
      <4> QED BY <2>2, <4>1, <4>2, <4>3 DEF FetchOwners, Fetched
    <3>2. \A h \in held[c] : h \notin work[c]
      BY <2>2, BodyAssumption DEF FetchOwners, TypeOK, Held
    <3>3. ASSUME NEW d \in Clients, NEW e \in Clients, NEW r \in Owners(d)', NEW s \in Owners(e)',
                 r.token = s.token
          PROVE  d = e /\ r = s
      <4>1. PICK q \in Owners(d) : q.token = r.token /\ From(d, r, q)
        BY <3>1
      <4>2. PICK p \in Owners(e) : p.token = s.token /\ From(e, s, p)
        BY <3>1
      <4>3. d = e /\ q = p
        BY <3>3, <4>1, <4>2 DEF TokenInv, SoleOwner
      <4> QED BY <3>2, <4>1, <4>2, <4>3
    <3> QED BY <3>3 DEF SoleOwner
  <2>3. ASSUME NEW c \in Clients, MintOwners(c) PROVE SoleOwner'
    <3>1. ASSUME NEW d \in Clients, NEW r \in Owners(d)'
          PROVE  r \in Owners(d) \/ (d = c /\ r \in Owners(c)' \ Owners(c) /\ r.token > claimSeq)
      BY <2>3 DEF MintOwners
    <3>2. ASSUME NEW d \in Clients, NEW r \in Owners(d)' PROVE r \in Rec
      BY <1>0 DEF TypeOK, Owners, Held, Rec, Body
    <3>3. ASSUME NEW d \in Clients, NEW e \in Clients, NEW r \in Owners(d)', NEW s \in Owners(e)',
                 r.token = s.token
          PROVE  d = e /\ r = s
      <4>1. CASE r \in Owners(d) /\ s \in Owners(e)
        BY <3>3, <4>1 DEF TokenInv, SoleOwner
      <4>2. CASE ~(r \in Owners(d) /\ s \in Owners(e))
        <5>1. d = c /\ e = c /\ r \in Owners(c)' \ Owners(c) /\ s \in Owners(c)' \ Owners(c)
          BY <1>1, <1>5, <3>1, <3>3, <4>2
        <5>2. r.id = s.id /\ r.attempts = NoBody /\ s.attempts = NoBody
          BY <2>3, <3>3, <5>1 DEF MintOwners
        <5> QED BY <3>2, <3>3, <5>1, <5>2 DEF Rec
      <4> QED BY <4>1, <4>2
    <3> QED BY <3>3 DEF SoleOwner
  <2> QED BY <1>0, <2>1, <2>2, <2>3 DEF RecordStep, OwnersEffect
<1> QED BY <1>0, <1>2, <1>4, <1>6 DEF TokenInv, RecordStep

LEMMA TokenInit == Init => TokenInv
  BY DEF Init, TokenInv, BatchInv, SoleOwner, RecordsOf, Owners

LEMMA TokenCorrect == Spec => []TokenInv
<1>1. TokenInv /\ TypeOK /\ [Next]_vars => TokenInv'
  BY TokenStep
<1> QED BY TokenInit, <1>1, TypeCorrect, PTL DEF Spec

(* Spec => []SoleOwner: whatever sweeps and crashes do, no claim is held    *)
(* by two tasks.                                                           *)
THEOREM SoleOwnerCorrect == Spec => []SoleOwner
<1>1. TokenInv => SoleOwner
  BY DEF TokenInv
<1> QED BY <1>1, TokenCorrect, PTL

-----------------------------------------------------------------------------
(* What a delivery costs: the attempt counts in Redis and in the records.  *)

Waiting == pending \cup DOMAIN retry

(* The count of a waiting job is its deliveries; that of a claimed one, and *)
(* of the record that owns the claim, is one behind.                       *)
AttemptInv ==
  /\ \A j \in Jobs : claims[j] <= MaxRetries + 1
  /\ \A j \in pending : claims[j] = 0
  /\ \A j \in DOMAIN retry : claims[j] <= MaxRetries
  /\ \A j \in DOMAIN body : submitted[j] # "new"
  /\ \A j \in DOMAIN body : body[j] \in Nat =>
       /\ j \in Waiting => body[j] = claims[j]
       /\ j \in DOMAIN claim => body[j] = claims[j] - 1
       /\ submitted[j] = "stored" => body[j] = 0
  /\ \A c \in Clients : \A r \in RecordsOf(c) :
       Owned(r) /\ r.attempts \in Nat => r.attempts = claims[r.id] - 1

(* What a step does to the bodies: keeps them but for those of X, ...       *)
KeptBodies(X) ==
  \A j \in DOMAIN body' \ X : j \in DOMAIN body /\ (body'[j] \in Nat => body'[j] = body[j])

(* ... stores new jobs, ... *)
Store(S) ==
  /\ \A j \in S : submitted[j] = "new" /\ submitted'[j] # "new" /\ body'[j] = 0
  /\ \A j \in Jobs : submitted'[j] \in {"new", "stored"} => j \in S \/ submitted'[j] = submitted[j]
  /\ \A j \in Jobs : submitted[j] # "new" => submitted'[j] # "new"
  /\ KeptBodies(S)
  /\ DOMAIN retry' \subseteq DOMAIN retry

(* ... or charges the delivery of one. *)
Charge(j) ==
  /\ j \in DOMAIN claim /\ j \notin DOMAIN claim' /\ j \in DOMAIN retry'
  /\ DOMAIN retry' = DOMAIN retry \cup {j}
  /\ body'[j] = claims[j] /\ claims[j] <= MaxRetries
  /\ KeptBodies({j})
  /\ UNCHANGED submitted

BodyStep == (\E S \in SUBSET Jobs : Store(S)) \/ (\E j \in Jobs : Charge(j))

LEMMA KeepBody ==
  ASSUME UNCHANGED <<body, retry, submitted>> PROVE Store({})
  BY DEF Store, KeptBodies

LEMMA DropBody ==
  ASSUME NEW j, body' = HDel(body, j), UNCHANGED <<retry, submitted>> PROVE Store({})
  BY DEF Store, KeptBodies, HDel, Restrict

LEMMA EndBodies ==
  ASSUME NEW r, CompleteIfOwned(r) \/ GiveUp(r) \/ ReleaseIfOwned(r), UNCHANGED submitted
  PROVE  Store({})
<1>1. UNCHANGED <<body, retry>> \/ (body' = HDel(body, r.id) /\ UNCHANGED retry)
  BY DEF CompleteIfOwned, GiveUp, DeadLetterIfOwned, DiscardIfOwned, ReleaseIfOwned, Stale
<1> QED BY <1>1, KeepBody, DropBody

LEMMA FailBodies ==
  ASSUME TypeOK, AttemptInv, NEW c \in Clients, NEW r \in RecordsOf(c), r.attempts \in Nat,
         r.attempts < MaxRetries, NEW score \in Nat, FailIfOwned(r, r.attempts + 1, score),
         UNCHANGED submitted
  PROVE  BodyStep
<1>1. CASE Stale(r)
  BY <1>1, KeepBody DEF Stale, BodyStep
<1>2. CASE ~Stale(r)
  <2>1. /\ Owned(r) /\ Release(r.id) /\ retry' = ZAdd(retry, {r.id}, score)
        /\ body' = HSet(body, [j \in {r.id} |-> r.attempts + 1])
    BY <1>2 DEF FailIfOwned
  <2>2. r.id \in DOMAIN claim /\ r.id \in Jobs
    BY <2>1 DEF Owned, TypeOK, ZSet
  <2>3. r.attempts = claims[r.id] - 1 /\ claims[r.id] \in Nat
    BY <2>1, <2>2 DEF AttemptInv, TypeOK
  <2>4. DOMAIN retry' = DOMAIN retry \cup {r.id}
    BY <2>1 DEF ZAdd
  <2>5. r.id \notin DOMAIN claim'
    BY <2>1 DEF Release, HDel, Restrict
  <2>6. body'[r.id] = r.attempts + 1 /\ KeptBodies({r.id})
    BY <2>1 DEF HSet, KeptBodies
  <2>7. MaxRetries \in Nat
    BY ConfigAssumption
  <2>8. claims[r.id] = r.attempts + 1 /\ claims[r.id] <= MaxRetries
    BY <2>3, <2>7
  <2> QED BY <2>2, <2>4, <2>5, <2>6, <2>8 DEF Charge, BodyStep
<1> QED BY <1>1, <1>2

LEMMA StepBodies == ASSUME TypeOK, AttemptInv, [Next]_vars PROVE BodyStep
<1>1. ASSUME Store({}) PROVE BodyStep
  BY <1>1 DEF BodyStep
<1>2. ASSUME NEW j \in Jobs, PushSet(j) PROVE BodyStep
  <2>1. {j} \in SUBSET Jobs /\ Store({j})
    BY <1>2 DEF PushSet, Store, KeptBodies, HSet, TypeOK
  <2> QED BY <2>1 DEF BodyStep
<1>3. ASSUME NEW S \in SUBSET Jobs, PushBatch(S) PROVE BodyStep
  <2>1. Store(S)
    BY <1>3 DEF PushBatch, Store, KeptBodies, HSet, TypeOK
  <2> QED BY <2>1 DEF BodyStep
<1>4. ASSUME NEW j \in Jobs, PushZadd(j) \/ PushError(j) PROVE BodyStep
  <2>1. Store({})
    BY <1>4 DEF PushZadd, PushError, Store, KeptBodies, TypeOK, redis
  <2> QED BY <1>1, <2>1
<1>5. ASSUME NEW c \in Clients,
             \/ PopBegin(c) \/ SweepBegin(c) \/ ClaimPending(c) \/ PopMget(c) \/ DiscardZrem(c)
             \/ DiscardHdel(c) \/ DiscardLost(c) \/ DiscardDead(c) \/ ClaimStale(c) \/ SweepMget(c)
             \/ SweepLost(c) \/ SweepDead(c) \/ TaskDropped(c) \/ RedisError(c) \/ Crash(c)
      PROVE  BodyStep
  <2>1. UNCHANGED <<body, retry, submitted>>
    BY <1>5 DEF PopBegin, SweepBegin, Begin, ClaimPending, PopMget, DiscardZrem, DiscardHdel,
                DiscardLost, DiscardDead, ClaimStale, SweepMget, SweepLost, SweepDead,
                TaskDropped, RedisError, Crash, redis, history
  <2> QED BY <1>1, <2>1, KeepBody
<1>6. ASSUME NEW c \in Clients, ClaimRetry(c) PROVE BodyStep
  <2>1. UNCHANGED <<body, submitted>> /\ DOMAIN retry' \subseteq DOMAIN retry
    BY <1>6 DEF ClaimRetry, ZRem, Restrict
  <2>2. Store({})
    BY <2>1 DEF Store, KeptBodies
  <2> QED BY <1>1, <2>2
<1>7. ASSUME NEW c \in Clients, DiscardDel(c) PROVE BodyStep
  <2>1. body' = HDel(body, cur[c]) /\ UNCHANGED <<retry, submitted>>
    BY <1>7 DEF DiscardDel, history
  <2> QED BY <1>1, <2>1, DropBody
<1>8. ASSUME NEW c \in Clients, SweepFinish(c) PROVE BodyStep
  <2>1. PICK r \in work[c] : Reclaim(c, r) \/ SkipCorrupt(c, r) \/ ReleaseMissing(c, r)
    BY <1>8 DEF SweepFinish
  <2>2. r \in Rec /\ r \in RecordsOf(c) /\ now[c] \in Nat /\ UNCHANGED submitted
    BY <1>8 DEF TypeOK, SweepFinish, RecordsOf
  <2>3. CASE Reclaim(c, r) /\ ShouldRetry(r.attempts + 1)
    <3>1. r.attempts \in Nat /\ FailIfOwned(r, r.attempts + 1, now[c])
      BY <2>2, <2>3 DEF Reclaim, Readable, Rec, Body
    <3>2. r.attempts < MaxRetries
      BY <2>3, <3>1, ConfigAssumption DEF ShouldRetry
    <3> QED BY <2>2, <3>1, <3>2, FailBodies
  <2>4. CASE Reclaim(c, r) /\ ~ShouldRetry(r.attempts + 1)
    BY <1>1, <2>2, <2>4, EndBodies DEF Reclaim
  <2>5. CASE SkipCorrupt(c, r)
    BY <1>1, <2>2, <2>5, KeepBody DEF SkipCorrupt
  <2>6. CASE ReleaseMissing(c, r)
    BY <1>1, <2>2, <2>6, EndBodies DEF ReleaseMissing
  <2> QED BY <2>1, <2>3, <2>4, <2>5, <2>6
<1>9. ASSUME NEW c \in Clients, TaskDone(c) PROVE BodyStep
  <2>1. PICK h \in held[c] : TaskSent(c, h) \/ TaskFailed(c, h)
    BY <1>9 DEF TaskDone
  <2>2. h \in RecordsOf(c) /\ h.attempts \in Nat /\ clock \in Nat /\ UNCHANGED submitted
    BY <1>9 DEF TaskDone, RecordsOf, TypeOK, Held
  <2>3. CASE CompleteIfOwned(h) \/ GiveUp(h)
    BY <1>1, <2>2, <2>3, EndBodies
  <2>4. ASSUME NEW delay \in RetryDelays, FailIfOwned(h, h.attempts + 1, clock + delay),
               ShouldRetry(h.attempts)
        PROVE  BodyStep
    <3>1. clock + delay \in Nat
      BY <2>2, ConfigAssumption
    <3> QED BY <2>2, <2>4, <3>1, FailBodies DEF ShouldRetry
  <2> QED BY <2>1, <2>3, <2>4 DEF TaskSent, TaskFailed
<1>10. ASSUME NEW j \in Jobs, Evict(j) PROVE BodyStep
  BY <1>1, <1>10, DropBody DEF Evict, history
<1>11. ASSUME NEW j \in Jobs, Garble(j) PROVE BodyStep
  <2>1. Store({})
    BY <1>11, BodyAssumption DEF Garble, Store, KeptBodies, history
  <2> QED BY <1>1, <2>1
<1>12. CASE Tick \/ UNCHANGED vars
  <2>1. UNCHANGED <<body, retry, submitted>>
    BY <1>12 DEF Tick, vars, redis, history
  <2> QED BY <1>1, <2>1, KeepBody
<1> QED BY <1>2, <1>3, <1>4, <1>5, <1>6, <1>7, <1>8, <1>9, <1>10, <1>11, <1>12
        DEF Next, Push, Client, PopStep, SweepStep

(* A record that owns its claim keeps the deliveries it was charged with. *)
LEMMA OwnedRecords ==
  ASSUME TypeOK, TokenInv, AttemptInv, [Next]_vars,
         NEW c \in Clients, NEW r \in RecordsOf(c)', Owned(r)', r.attempts \in Nat
  PROVE  r.attempts = claims'[r.id] - 1
<1>0. Effect /\ RecordStep
  BY StepEffect, StepRecords
<1>1. claimSeq \in Nat /\ \A j \in DOMAIN claim : claim[j] \in Nat /\ claim[j] <= claimSeq
  BY DEF TypeOK, ZSet, TokenInv
<1>2. CASE r \in RecordsOf(c)
  <2>1. r.token \in Nat /\ r.token <= claimSeq /\ r.id \in Jobs
    BY <1>2 DEF TokenInv, RecordsOf, TypeOK, Rec, Held
  <2>2. r.id \in DOMAIN claim' /\ claim'[r.id] = r.token
    BY DEF Owned
  <2>3. CASE \E S \in SUBSET Jobs : Take(S)
    <3>1. PICK S \in SUBSET Jobs : Take(S)
      BY <2>3
    <3>2. r.id \notin S
      BY <1>1, <2>1, <2>2, <3>1 DEF Take
    <3>3. Owned(r) /\ claims'[r.id] = claims[r.id]
      BY <2>1, <2>2, <3>1, <3>2 DEF Take, Owned
    <3> QED BY <1>2, <3>3 DEF AttemptInv
  <2>4. CASE ~\E S \in SUBSET Jobs : Take(S)
    <3>1. Owned(r) /\ claims' = claims
      BY <1>0, <2>2, <2>4 DEF Effect, Quiet, Submit, Requeue, Finish, Leave, SubsetClaims, Owned
    <3> QED BY <1>2, <3>1 DEF AttemptInv
  <2> QED BY <2>3, <2>4
<1>3. ASSUME NEW q \in work[c], r = [q EXCEPT !.attempts = BodyOf(q.id)],
             UNCHANGED <<body, claim, claimSeq, claims>>
      PROVE  r.attempts = claims'[r.id] - 1
  <2>1. q \in Rec /\ r.id = q.id /\ r.attempts = BodyOf(q.id)
    BY <1>3 DEF TypeOK, Rec
  <2>2. r.id \in DOMAIN claim
    BY <1>3 DEF Owned
  <2>3. r.id \in DOMAIN body /\ body[r.id] \in Nat /\ r.attempts = body[r.id]
    BY <2>1, BodyAssumption DEF BodyOf
  <2> QED BY <1>3, <2>2, <2>3 DEF AttemptInv
<1>4. r.attempts # NoBody
  BY BodyAssumption
<1> QED BY <1>0, <1>2, <1>3, <1>4 DEF RecordStep, NewRecords

LEMMA AttemptStep ==
  ASSUME TypeOK, PlaceInv, TokenInv, AttemptInv, [Next]_vars PROVE AttemptInv'
<1>0. TypeOK' /\ PlaceInv' /\ Effect /\ BodyStep
  BY TypeStep, PlaceStep, StepEffect, StepBodies
<1>1. MaxRetries \in Nat /\ claims \in [Jobs -> Nat] /\ claims' \in [Jobs -> Nat]
  BY <1>0, ConfigAssumption DEF TypeOK
<1>2. \A j \in Jobs : claims'[j] # claims[j] =>
        j \in Waiting /\ j \notin Waiting' /\ j \in DOMAIN claim' /\ claims'[j] = claims[j] + 1
  BY <1>0, <1>1 DEF Effect, Quiet, Submit, Take, Requeue, Finish, Leave, PlaceInv, Waiting
<1>3. ASSUME NEW j \in Jobs PROVE claims'[j] <= MaxRetries + 1
  <2>1. CASE claims'[j] = claims[j]
    BY <2>1 DEF AttemptInv
  <2>2. CASE claims'[j] # claims[j]
    <3>1. claims[j] <= MaxRetries
      <4>1. j \in pending \/ j \in DOMAIN retry
        BY <1>2, <2>2 DEF Waiting
      <4> QED BY <1>1, <4>1 DEF AttemptInv
    <3>2. claims'[j] = claims[j] + 1 /\ claims[j] \in Nat
      BY <1>1, <1>2, <2>2
    <3> QED BY <1>1, <3>1, <3>2
  <2> QED BY <2>1, <2>2
<1>4. \A j \in pending' : claims'[j] = 0
  <2>1. \A j \in pending' : j \in pending \/ submitted[j] # "queued"
    BY <1>0 DEF Effect, Quiet, Submit, Take, Requeue, Finish, Leave, TypeOK
  <2>2. \A j \in pending' : claims[j] = 0
    BY <1>0, <2>1 DEF AttemptInv, PlaceInv, TypeOK
  <2> QED BY <1>0, <1>2, <2>2 DEF Waiting, TypeOK
<1>5. \A j \in DOMAIN retry' : claims'[j] <= MaxRetries
  <2>1. \A j \in DOMAIN retry' : claims[j] <= MaxRetries
    BY <1>0 DEF BodyStep, Store, Charge, AttemptInv
  <2> QED BY <1>0, <1>2, <2>1 DEF Waiting, TypeOK, ZSet
<1>6. \A j \in DOMAIN body' : submitted'[j] # "new"
  BY <1>0 DEF BodyStep, Store, Charge, KeptBodies, AttemptInv, PlaceInv, TypeOK, ZSet
<1>7. ASSUME NEW j \in DOMAIN body', body'[j] \in Nat
      PROVE  /\ j \in Waiting' => body'[j] = claims'[j]
             /\ j \in DOMAIN claim' => body'[j] = claims'[j] - 1
             /\ submitted'[j] = "stored" => body'[j] = 0
  <2>1. j \in Jobs
    BY <1>0 DEF TypeOK
  <2>2. j \in DOMAIN claim' =>
          \/ j \in DOMAIN claim /\ claims'[j] = claims[j]
          \/ j \in Waiting /\ claims'[j] = claims[j] + 1
    BY <1>0, <2>1 DEF Effect, Quiet, SubsetClaims, Submit, Take, Requeue, Finish, Leave, Waiting,
                      PlaceInv
  <2>3. j \in Waiting' => j \in Waiting \/ submitted[j] \in {"new", "stored"} \/ j \in DOMAIN claim
    BY <1>0, <2>1 DEF Effect, Quiet, SubsetClaims, Submit, Take, Requeue, Finish, Leave, Waiting
  <2>4. submitted[j] \in {"new", "stored"} =>
          claims[j] = 0 /\ j \notin Waiting /\ j \notin DOMAIN claim
    BY <2>1 DEF PlaceInv, Waiting
  <2>5. ASSUME NEW S \in SUBSET Jobs, Store(S), j \in S
        PROVE  body'[j] = 0 /\ claims'[j] = 0 /\ j \notin DOMAIN claim'
    BY <1>2, <2>1, <2>2, <2>4, <2>5 DEF Store
  <2>6. ASSUME j \in DOMAIN body, body'[j] = body[j],
               j \in DOMAIN retry' => j \in DOMAIN retry,
               submitted'[j] = "stored" => submitted[j] = "stored"
        PROVE  /\ j \in Waiting' => body'[j] = claims'[j]
               /\ j \in DOMAIN claim' => body'[j] = claims'[j] - 1
               /\ submitted'[j] = "stored" => body'[j] = 0
    <3>1. body[j] \in Nat /\ claims[j] \in Nat /\ submitted[j] # "new"
      BY <1>1, <1>7, <2>1, <2>6 DEF AttemptInv
    <3>2. /\ j \in Waiting => body[j] = claims[j]
          /\ j \in DOMAIN claim => body[j] = claims[j] - 1
          /\ submitted[j] = "stored" => body[j] = 0
      BY <2>6, <3>1 DEF AttemptInv
    <3>3. j \in Waiting' => j \in Waiting \/ submitted[j] = "stored"
      <4>1. j \in DOMAIN claim => j \notin pending'
        BY <1>0, <2>1 DEF Effect, Quiet, SubsetClaims, Submit, Take, Requeue, Finish, Leave,
                          PlaceInv
      <4> QED BY <2>3, <2>6, <3>1, <4>1 DEF Waiting
    <3>4. j \in Waiting' => body'[j] = claims'[j]
      BY <1>2, <2>1, <2>4, <2>6, <3>2, <3>3
    <3> QED BY <2>2, <2>6, <3>1, <3>2, <3>4
  <2>7. ASSUME NEW k \in Jobs, Charge(k)
        PROVE  /\ j \in Waiting' => body'[j] = claims'[j]
               /\ j \in DOMAIN claim' => body'[j] = claims'[j] - 1
               /\ submitted'[j] = "stored" => body'[j] = 0
    <3>1. CASE j = k
      BY <1>2, <2>1, <2>4, <2>7, <3>1 DEF Charge
    <3>2. CASE j # k
      <4>1. j \in DOMAIN body /\ body'[j] = body[j]
        BY <1>7, <2>7, <3>2 DEF Charge, KeptBodies
      <4>2. (j \in DOMAIN retry' => j \in DOMAIN retry) /\ submitted' = submitted
        BY <2>7, <3>2 DEF Charge
      <4> QED BY <2>6, <4>1, <4>2
    <3> QED BY <3>1, <3>2
  <2>8. ASSUME NEW S \in SUBSET Jobs, Store(S)
        PROVE  /\ j \in Waiting' => body'[j] = claims'[j]
               /\ j \in DOMAIN claim' => body'[j] = claims'[j] - 1
               /\ submitted'[j] = "stored" => body'[j] = 0
    <3>1. CASE j \in S
      BY <2>5, <2>8, <3>1
    <3>2. CASE j \notin S
      <4>1. j \in DOMAIN body /\ body'[j] = body[j]
        BY <1>7, <2>8, <3>2 DEF Store, KeptBodies
      <4>2. /\ j \in DOMAIN retry' => j \in DOMAIN retry
            /\ submitted'[j] = "stored" => submitted[j] = "stored"
        BY <2>1, <2>8, <3>2 DEF Store
      <4> QED BY <2>6, <4>1, <4>2
    <3> QED BY <3>1, <3>2
  <2> QED BY <1>0, <2>7, <2>8 DEF BodyStep
<1>8. \A c \in Clients : \A r \in RecordsOf(c)' :
        Owned(r)' /\ r.attempts \in Nat => r.attempts = claims'[r.id] - 1
  BY OwnedRecords
<1> QED BY <1>3, <1>4, <1>5, <1>6, <1>7, <1>8 DEF AttemptInv

LEMMA AttemptInit == Init => AttemptInv
  BY ConfigAssumption DEF Init, AttemptInv, RecordsOf

LEMMA AttemptCorrect == Spec => []AttemptInv
<1>1. AttemptInv /\ TokenInv /\ PlaceInv /\ TypeOK /\ [Next]_vars => AttemptInv'
  BY AttemptStep
<1> QED BY AttemptInit, <1>1, TypeCorrect, PlaceCorrect, TokenCorrect, PTL DEF Spec

(* Spec => []AttemptBound: a job is handed out at most MaxRetries + 1 times, *)
(* whatever evictions, crashes and late finalizers do.                      *)
THEOREM AttemptBoundCorrect == Spec => []AttemptBound
<1>1. AttemptInv => AttemptBound
  BY DEF AttemptInv, AttemptBound
<1> QED BY <1>1, AttemptCorrect, PTL

(* Spec => []OneAttemptPerClaim: the count of a waiting job is the number of *)
(* its deliveries.                                                          *)
THEOREM OneAttemptCorrect == Spec => []OneAttemptPerClaim
<1>1. AttemptInv => OneAttemptPerClaim
  BY BodyAssumption DEF AttemptInv, OneAttemptPerClaim, BodyOf, Waiting
<1> QED BY <1>1, AttemptCorrect, PTL

(* Spec => AttemptsNeverDrop: no stale write resurrects an attempt count.    *)
THEOREM AttemptsNeverDropCorrect == Spec => AttemptsNeverDrop
<1>1. ASSUME TypeOK, AttemptInv, [Next]_vars
      PROVE  [\A j \in DOMAIN body \cap DOMAIN body' :
                body[j] \in Nat /\ body'[j] \in Nat => body'[j] >= body[j]]_vars
  <2>1. BodyStep
    BY <1>1, StepBodies
  <2>2. ASSUME NEW j \in DOMAIN body \cap DOMAIN body', body[j] \in Nat, body'[j] \in Nat
        PROVE  body'[j] >= body[j]
    <3>1. ASSUME NEW S \in SUBSET Jobs, Store(S) PROVE body'[j] >= body[j]
      BY <1>1, <2>2, <3>1 DEF Store, KeptBodies, AttemptInv
    <3>2. ASSUME NEW k \in Jobs, Charge(k) PROVE body'[j] >= body[j]
      <4>1. CASE j = k
        BY <1>1, <2>2, <3>2, <4>1 DEF Charge, AttemptInv, TypeOK
      <4>2. CASE j # k
        BY <2>2, <3>2, <4>2 DEF Charge, KeptBodies
      <4> QED BY <4>1, <4>2
    <3> QED BY <2>1, <3>1, <3>2 DEF BodyStep
  <2> QED BY <2>2
<1> QED BY <1>1, TypeCorrect, AttemptCorrect, PTL DEF Spec, AttemptsNeverDrop
=============================================================================
