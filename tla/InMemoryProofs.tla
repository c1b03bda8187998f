--------------------------- MODULE InMemoryProofs ---------------------------
(* What holds of InMemoryBackend for every number of jobs, workers and      *)
(* retries, every depth and every length of the dead-letter list.          *)
EXTENDS InMemoryBackend, TLAPS, FiniteSetTheorems, SequenceTheorems

-----------------------------------------------------------------------------
(* Sequences: a set in some order, the entries at some positions. *)

LEMMA FunctionSeq ==
  ASSUME NEW S, NEW n \in Nat, NEW f \in [1 .. n -> S]
  PROVE  f \in Seq(S) /\ Len(f) = n /\ DOMAIN f = 1 .. n
<1>1. f \in Seq(S)
  BY SeqDef
<1>2. DOMAIN f = 1 .. Len(f) /\ Len(f) \in Nat /\ DOMAIN f = 1 .. n
  BY <1>1, LenProperties
<1>3. Len(f) = n
  <2>1. CASE n = 0
    BY <1>2, <2>1
  <2>2. CASE n # 0
    <3>1. n \in 1 .. Len(f) /\ \A i \in 1 .. Len(f) : i \in 1 .. n
      BY <1>2, <2>2
    <3>2. Len(f) \in 1 .. Len(f)
      BY <1>2, <3>1
    <3> QED BY <1>2, <3>1, <3>2
  <2> QED BY <2>1, <2>2
<1> QED BY <1>1, <1>2, <1>3

LEMMA OrdersFacts ==
  ASSUME NEW S, IsFiniteSet(S), NEW f \in Orders(S)
  PROVE  /\ f \in Seq(S) /\ Len(f) = Cardinality(S) /\ DOMAIN f = 1 .. Len(f) /\ Len(f) \in Nat
         /\ Range(f) = S
         /\ \A a, b \in DOMAIN f : f[a] = f[b] => a = b
<1>1. Cardinality(S) \in Nat
  BY FS_CardinalityType
<1>2. /\ f \in [1 .. Cardinality(S) -> S]
      /\ \A x \in S : \E i \in 1 .. Cardinality(S) : f[i] = x
      /\ \A a, b \in DOMAIN f : f[a] = f[b] => a = b
  BY DEF Orders, Bijection, Injection, Surjection, IsInjective
<1>3. f \in Seq(S) /\ Len(f) = Cardinality(S) /\ DOMAIN f = 1 .. Cardinality(S)
  BY <1>1, <1>2, FunctionSeq
<1>4. Range(f) = S
  BY <1>2, <1>3 DEF Range
<1> QED BY <1>1, <1>2, <1>3, <1>4

(* f says at which position of I in s each entry of t was: in the order of   *)
(* the positions, all of them and no other.                                *)
Picks(f, s, I, t) ==
  /\ f \in [DOMAIN t -> I]
  /\ \A a \in DOMAIN t : t[a] = s[f[a]]
  /\ \A a, b \in DOMAIN t : a < b => f[a] < f[b]
  /\ \A a, b \in DOMAIN t : f[a] = f[b] => a = b
  /\ \A i \in I : \E a \in DOMAIN t : f[a] = i

LEMMA KeptFacts ==
  ASSUME NEW X, NEW s \in Seq(X), NEW I \in SUBSET DOMAIN s, NEW t \in Kept(s, I)
  PROVE  /\ t \in Seq(X) /\ DOMAIN t = 1 .. Len(t) /\ Len(t) \in Nat
         /\ \E f : Picks(f, s, I, t)
<1>1. IsFiniteSet(I) /\ Cardinality(I) \in Nat
  <2>1. DOMAIN s = 1 .. Len(s) /\ Len(s) \in Nat
    BY LenProperties
  <2>2. IsFiniteSet(1 .. Len(s))
    BY <2>1, FS_Interval
  <2> QED BY <2>1, <2>2, FS_Subset, FS_CardinalityType
<1>2. PICK f \in Orders(I) : /\ \A a, b \in DOMAIN f : a < b => f[a] < f[b]
                             /\ t = [n \in DOMAIN f |-> s[f[n]]]
  BY DEF Kept
<1>3. /\ f \in Seq(I) /\ Len(f) = Cardinality(I) /\ DOMAIN f = 1 .. Len(f) /\ Len(f) \in Nat
      /\ Range(f) = I
      /\ \A a, b \in DOMAIN f : f[a] = f[b] => a = b
  BY <1>1, OrdersFacts
<1>4. f \in [1 .. Len(f) -> I]
  BY <1>3, LenProperties
<1>5. \A i \in I : s[i] \in X
  BY LenProperties
<1>6. t \in [1 .. Len(f) -> X]
  BY <1>2, <1>3, <1>4, <1>5
<1>7. t \in Seq(X) /\ Len(t) = Len(f) /\ DOMAIN t = 1 .. Len(f)
  BY <1>3, <1>6, FunctionSeq
<1>8. \A i \in I : \E a \in DOMAIN t : f[a] = i
  BY <1>3, <1>7 DEF Range
<1>9. Picks(f, s, I, t)
  BY <1>2, <1>3, <1>4, <1>7, <1>8 DEF Picks
<1> QED BY <1>3, <1>7, <1>9

-----------------------------------------------------------------------------
(* The queue: the ids it holds, each at one place. *)

Ids(q) == {q[i].id : i \in DOMAIN q}

Distinct(q) == \A a, b \in DOMAIN q : q[a].id = q[b].id => a = b

LEMMA KeptQueue ==
  ASSUME NEW q \in Seq(Waiting), Distinct(q), NEW I \in SUBSET DOMAIN q, NEW t \in Kept(q, I)
  PROVE  /\ t \in Seq(Waiting) /\ Distinct(t) /\ Ids(t) = {q[i].id : i \in I}
         /\ \A a \in DOMAIN t : \E i \in I : t[a] = q[i]
<1>1. PICK f : Picks(f, q, I, t)
  BY KeptFacts
<1>2. t \in Seq(Waiting)
  BY KeptFacts
<1>3. Distinct(t)
  BY <1>1 DEF Picks, Distinct
<1>4. Ids(t) = {q[i].id : i \in I}
  BY <1>1 DEF Picks, Ids
<1>5. \A a \in DOMAIN t : \E i \in I : t[a] = q[i]
  BY <1>1 DEF Picks
<1> QED BY <1>2, <1>3, <1>4, <1>5

LEMMA ConcatQueue ==
  ASSUME NEW q \in Seq(Waiting), NEW u \in Seq(Waiting)
  PROVE  /\ q \o u \in Seq(Waiting)
         /\ Ids(q \o u) = Ids(q) \cup Ids(u)
         /\ \A i \in DOMAIN (q \o u) : \/ \E a \in DOMAIN q : (q \o u)[i] = q[a]
                                       \/ \E b \in DOMAIN u : (q \o u)[i] = u[b]
         /\ Distinct(q) /\ Distinct(u) /\ Ids(q) \cap Ids(u) = {} => Distinct(q \o u)
<1> DEFINE s == q \o u
<1>1. /\ s \in Seq(Waiting) /\ Len(s) = Len(q) + Len(u) /\ Len(q) \in Nat /\ Len(u) \in Nat
      /\ DOMAIN s = 1 .. Len(s) /\ DOMAIN q = 1 .. Len(q) /\ DOMAIN u = 1 .. Len(u)
      /\ \A i \in 1 .. Len(q) + Len(u) : s[i] = IF i <= Len(q) THEN q[i] ELSE u[i - Len(q)]
  <2>1. Len(q) \in Nat /\ DOMAIN q = 1 .. Len(q) /\ Len(u) \in Nat /\ DOMAIN u = 1 .. Len(u)
    BY LenProperties
  <2>2. /\ s \in Seq(Waiting) /\ Len(s) = Len(q) + Len(u)
        /\ \A i \in 1 .. Len(q) + Len(u) : s[i] = IF i <= Len(q) THEN q[i] ELSE u[i - Len(q)]
    BY ConcatProperties
  <2> HIDE DEF s
  <2>3. DOMAIN s = 1 .. Len(s)
    BY <2>2, LenProperties
  <2> QED BY <2>1, <2>2, <2>3
<1> HIDE DEF s
<1>2. \A i \in DOMAIN s : \/ i \in DOMAIN q /\ s[i] = q[i]
                          \/ i \notin DOMAIN q /\ i - Len(q) \in DOMAIN u /\ s[i] = u[i - Len(q)]
  BY <1>1
<1>3. /\ \A a \in DOMAIN q : a \in DOMAIN s /\ s[a] = q[a]
      /\ \A b \in DOMAIN u : b + Len(q) \in DOMAIN s /\ s[b + Len(q)] = u[b]
  BY <1>1
<1>4. Ids(s) = Ids(q) \cup Ids(u)
  BY <1>2, <1>3 DEF Ids
<1>5. ASSUME Distinct(q), Distinct(u), Ids(q) \cap Ids(u) = {} PROVE Distinct(s)
  <2> SUFFICES ASSUME NEW a \in DOMAIN s, NEW b \in DOMAIN s, s[a].id = s[b].id PROVE a = b
    BY DEF Distinct
  <2>1. CASE a \in DOMAIN q /\ b \in DOMAIN q
    BY <1>2, <1>5, <2>1 DEF Distinct
  <2>2. CASE a \notin DOMAIN q /\ b \notin DOMAIN q
    <3>1. a - Len(q) = b - Len(q)
      BY <1>2, <1>5, <2>2 DEF Distinct
    <3> QED BY <1>1, <3>1
  <2>3. CASE (a \in DOMAIN q) # (b \in DOMAIN q)
    BY SMTT(30), <1>2, <1>5, <2>3 DEF Ids
  <2> QED BY <2>1, <2>2, <2>3
<1>6. \A i \in DOMAIN s : \/ \E a \in DOMAIN q : s[i] = q[a]
                          \/ \E b \in DOMAIN u : s[i] = u[b]
  BY <1>2
<1> QED BY <1>1, <1>4, <1>5, <1>6 DEF s

-----------------------------------------------------------------------------
(* The dead-letter list. *)

Letter == [id : Jobs, at : Nat]

LEMMA UnexpiredFacts ==
  ASSUME TypeOK
  PROVE  /\ Unexpired \in Seq(Letter) /\ Len(Unexpired) <= Len(dead)
         /\ \A i \in 1 .. Len(Unexpired) : \E k \in DOMAIN dead : Unexpired[i] = dead[k]
<1> DEFINE gone == {n \in DOMAIN dead : \A i \in 1 .. n : clock - dead[i].at >= DeadTTL}
<1>1. dead \in Seq(Letter) /\ DOMAIN dead = 1 .. Len(dead) /\ Len(dead) \in Nat
  BY LenProperties DEF TypeOK, Letter
<1>2. Cardinality(gone) \in Nat
  <2>1. gone \in SUBSET DOMAIN dead
    OBVIOUS
  <2> HIDE DEF gone
  <2>2. IsFiniteSet(DOMAIN dead)
    BY <1>1, FS_Interval
  <2> QED BY <2>1, <2>2, FS_Subset, FS_CardinalityType
<1> HIDE DEF gone
<1> DEFINE m == Cardinality(gone) + 1
<1>3. m \in Int /\ m >= 1 /\ \A i \in m .. Len(dead) : dead[i] \in Letter
  BY <1>1, <1>2, LenProperties
<1>4. Unexpired = SubSeq(dead, m, Len(dead))
  BY DEF Unexpired, gone
<1> HIDE DEF m
<1>5. /\ SubSeq(dead, m, Len(dead)) \in Seq(Letter)
      /\ Len(SubSeq(dead, m, Len(dead))) = IF m <= Len(dead) THEN Len(dead) - m + 1 ELSE 0
      /\ \A i \in 1 .. Len(dead) - m + 1 : SubSeq(dead, m, Len(dead))[i] = dead[m + i - 1]
  BY <1>1, <1>3, SubSeqProperties
<1>6. \A i \in 1 .. Len(Unexpired) : m + i - 1 \in DOMAIN dead /\ Unexpired[i] = dead[m + i - 1]
  BY <1>1, <1>3, <1>4, <1>5
<1>7. Len(Unexpired) <= Len(dead)
  BY <1>1, <1>3, <1>4, <1>5
<1>8. Unexpired \in Seq(Letter)
  BY <1>4, <1>5
<1> HIDE DEF m
<1> QED BY <1>6, <1>7, <1>8

LEMMA LastOfFacts ==
  ASSUME NEW X, NEW s \in Seq(X), NEW n \in Nat \ {0}
  PROVE  LET t == LastOf(s, n)
             skip == IF Len(s) <= n THEN 0 ELSE Len(s) - n
         IN  /\ t \in Seq(X) /\ Len(t) = Len(s) - skip /\ Len(t) <= n /\ skip \in Nat
             /\ \A i \in 1 .. Len(t) : t[i] = s[skip + i]
<1> DEFINE skip == IF Len(s) <= n THEN 0 ELSE Len(s) - n
           m == IF Len(s) <= n THEN 1 ELSE Len(s) - n + 1
<1>1. /\ Len(s) \in Nat /\ skip \in Nat /\ m = skip + 1 /\ m \in Int /\ m >= 1
      /\ skip <= Len(s) /\ Len(s) - skip <= n
  BY LenProperties
<1>2. \A i \in m .. Len(s) : s[i] \in X
  BY <1>1, LenProperties
<1>3. LastOf(s, n) = SubSeq(s, m, Len(s))
  BY DEF LastOf
<1> HIDE DEF m, skip
<1>4. /\ SubSeq(s, m, Len(s)) \in Seq(X)
      /\ Len(SubSeq(s, m, Len(s))) = IF m <= Len(s) THEN Len(s) - m + 1 ELSE 0
      /\ \A i \in 1 .. Len(s) - m + 1 : SubSeq(s, m, Len(s))[i] = s[m + i - 1]
  <2>1. m \in Int /\ Len(s) \in Int
    BY <1>1
  <2> QED BY <1>2, <2>1, SubSeqProperties
<1>5. /\ Len(LastOf(s, n)) = Len(s) - skip
      /\ \A i \in 1 .. Len(s) - skip : LastOf(s, n)[i] = s[skip + i]
  BY <1>1, <1>3, <1>4
<1> QED BY <1>1, <1>3, <1>4, <1>5 DEF skip

(* The new letters in turn: the list keeps its bound. *)
Letters(ids) == [i \in DOMAIN ids |-> [id |-> ids[i], at |-> clock]]

LEMMA PushDeadType ==
  ASSUME TypeOK, NEW ids \in Seq(Jobs), PushDead(ids)
  PROVE  dead' \in Seq(Letter) /\ Len(dead') <= DeadMaxLen
<1>1. CASE ids = <<>>
  BY <1>1 DEF PushDead, TypeOK, Letter
<1>2. CASE ids # <<>>
  <2>1. Letters(ids) \in Seq(Letter)
    <3>1. DOMAIN ids = 1 .. Len(ids) /\ Len(ids) \in Nat /\ \A i \in DOMAIN ids : ids[i] \in Jobs
      BY LenProperties
    <3>2. Letters(ids) \in [1 .. Len(ids) -> Letter]
      BY <3>1 DEF Letters, Letter, TypeOK
    <3> QED BY <3>1, <3>2, FunctionSeq
  <2>2. Unexpired \o Letters(ids) \in Seq(Letter)
    BY <2>1, UnexpiredFacts, ConcatProperties
  <2>3. dead' = LastOf(Unexpired \o Letters(ids), DeadMaxLen)
    BY <1>2 DEF PushDead, Letters
  <2>4. DeadMaxLen \in Nat \ {0}
    BY InMemoryConfig
  <2> QED BY <2>2, <2>3, <2>4, LastOfFacts
<1> QED BY <1>1, <1>2

-----------------------------------------------------------------------------
(* The jobs a pop takes. *)

PopIds == {queue[i].id : i \in Taken}

(* The claim, and the job the pop returns, of the entry at position i. *)
PopHeld(i)  == [id |-> queue[i].id, token |-> Token(i), attempts |-> queue[i].attempts]
PopClaim(i) == [at |-> clock, token |-> Token(i), attempts |-> queue[i].attempts]

LEMMA TakenFacts ==
  ASSUME TypeOK
  PROVE  /\ Taken \subseteq DOMAIN queue /\ IsFiniteSet(Taken) /\ Cardinality(Taken) \in Nat
         /\ \A i \in Taken : Token(i) \in claimSeq + 1 .. claimSeq + Cardinality(Taken)
         /\ \A i, k \in Taken : Token(i) = Token(k) => i = k
<1>1. DOMAIN queue = 1 .. Len(queue) /\ Len(queue) \in Nat /\ claimSeq \in Nat
  BY LenProperties DEF TypeOK
<1>2. Taken \subseteq DOMAIN queue
  BY DEF Taken, Due
<1>3. IsFiniteSet(Taken) /\ Cardinality(Taken) \in Nat
  <2>1. IsFiniteSet(DOMAIN queue)
    BY <1>1, FS_Interval
  <2> QED BY <1>2, <2>1, FS_Subset, FS_CardinalityType
<1> DEFINE Upto(i) == {k \in Taken : k <= i}
<1>4. \A i \in Taken : Token(i) = claimSeq + Cardinality(Upto(i)) /\ i \in Upto(i) /\ i \in Nat
  BY <1>1, <1>2 DEF Token
<1>5. \A i \in Taken : /\ Upto(i) \in SUBSET Taken /\ IsFiniteSet(Upto(i))
                       /\ Cardinality(Upto(i)) \in 1 .. Cardinality(Taken)
  <2> SUFFICES ASSUME NEW i \in Taken
               PROVE  /\ Upto(i) \in SUBSET Taken /\ IsFiniteSet(Upto(i))
                      /\ Cardinality(Upto(i)) \in 1 .. Cardinality(Taken)
    OBVIOUS
  <2>1. Upto(i) \in SUBSET Taken
    OBVIOUS
  <2> HIDE DEF Upto
  <2>2. IsFiniteSet(Upto(i)) /\ Cardinality(Upto(i)) <= Cardinality(Taken)
    BY <1>3, <2>1, FS_Subset
  <2>3. Cardinality(Upto(i)) \in Nat /\ Cardinality(Upto(i)) # 0
    BY <1>4, <2>2, FS_CardinalityType, FS_EmptySet
  <2> QED BY <1>3, <2>1, <2>2, <2>3
<1>6. ASSUME NEW i \in Taken, NEW k \in Taken, i < k
      PROVE  Upto(i) \in SUBSET Upto(k) /\ k \notin Upto(i)
  BY <1>1, <1>2, <1>6
<1> HIDE DEF Upto
<1>7. ASSUME NEW i \in Taken, NEW k \in Taken, i < k PROVE Token(i) # Token(k)
  <2>1. Upto(i) \in SUBSET Upto(k) /\ Upto(i) # Upto(k)
    BY <1>4, <1>6, <1>7
  <2>2. Cardinality(Upto(k)) # Cardinality(Upto(i))
    BY <1>5, <2>1, FS_Subset
  <2> QED BY <1>1, <1>4, <1>5, <2>2
<1>8. \A i \in Taken : Token(i) \in claimSeq + 1 .. claimSeq + Cardinality(Taken)
  BY <1>1, <1>3, <1>4, <1>5
<1>9. \A i, k \in Taken : Token(i) = Token(k) => i = k
  BY <1>4, <1>7
<1> QED BY <1>2, <1>3, <1>8, <1>9

LEMMA PopFacts ==
  ASSUME TypeOK, NEW w \in Workers, Pop(w)
  PROVE  /\ queue' \in Kept(queue, DOMAIN queue \ Taken)
         /\ DOMAIN processing' = DOMAIN processing \cup PopIds
         /\ processing' = [j \in DOMAIN processing' |-> processing'[j]]
         /\ \A j \in DOMAIN processing \ PopIds : processing'[j] = processing[j]
         /\ \A j \in PopIds : \E i \in Taken : queue[i].id = j /\ processing'[j] = PopClaim(i)
         /\ held' = [held EXCEPT ![w] = held[w] \cup {PopHeld(i) : i \in Taken}]
         /\ claimSeq' = claimSeq + Cardinality(Taken)
         /\ claims' = [j \in Jobs |-> IF j \in PopIds THEN claims[j] + 1 ELSE claims[j]]
         /\ cutoff[w] = Idle
         /\ UNCHANGED <<clock, dead, processed, cutoff, submitted, outcome>>
<1> DEFINE jobs == {PopHeld(i) : i \in Taken}
           ids  == {h.id : h \in jobs}
           job(j) == CHOOSE h \in jobs : h.id = j
<1>1. /\ queue' \in Kept(queue, DOMAIN queue \ Taken)
      /\ processing' = [j \in DOMAIN processing \cup ids |->
           IF j \in ids THEN [at |-> clock, token |-> job(j).token, attempts |-> job(j).attempts]
                        ELSE processing[j]]
      /\ claimSeq' = claimSeq + Cardinality(Taken)
      /\ held' = [held EXCEPT ![w] = held[w] \cup jobs]
      /\ claims' = [j \in Jobs |-> IF j \in ids THEN claims[j] + 1 ELSE claims[j]]
      /\ cutoff[w] = Idle
      /\ UNCHANGED <<clock, dead, processed, cutoff, submitted, outcome>>
  <2>1. /\ queue' \in Kept(queue, DOMAIN queue \ Taken)
        /\ claimSeq' = claimSeq + Cardinality(Taken) /\ cutoff[w] = Idle
        /\ UNCHANGED <<clock, dead, processed, cutoff, submitted, outcome>>
    BY DEF Pop, TokensMinted
  <2>2. processing' = [j \in DOMAIN processing \cup ids |->
           IF j \in ids THEN [at |-> clock, token |-> job(j).token, attempts |-> job(j).attempts]
                        ELSE processing[j]]
    BY Zenon DEF Pop, PopHeld
  <2>3. held' = [held EXCEPT ![w] = held[w] \cup jobs]
    BY Zenon DEF Pop, PopHeld
  <2>4. claims' = [j \in Jobs |-> IF j \in ids THEN claims[j] + 1 ELSE claims[j]]
    BY Zenon DEF Pop, PopHeld
  <2> QED BY <2>1, <2>2, <2>3, <2>4
<1>2. ids = PopIds
  <2>1. \A i \in Taken : PopHeld(i) \in jobs /\ PopHeld(i).id = queue[i].id
    BY DEF PopHeld
  <2>2. \A h \in jobs : \E i \in Taken : h.id = queue[i].id
    BY DEF PopHeld
  <2> HIDE DEF jobs
  <2> QED BY <2>1, <2>2 DEF PopIds
<1>3. ASSUME NEW j \in ids
      PROVE  \E i \in Taken : /\ queue[i].id = j
                              /\ job(j).token = Token(i) /\ job(j).attempts = queue[i].attempts
  <2>1. job(j) \in jobs /\ job(j).id = j
    BY <1>3
  <2> HIDE DEF job
  <2> QED BY <2>1 DEF PopHeld
<1> HIDE DEF job, ids
<1>4. /\ DOMAIN processing' = DOMAIN processing \cup PopIds
      /\ processing' = [j \in DOMAIN processing' |-> processing'[j]]
  BY <1>1, <1>2
<1>5. \A j \in DOMAIN processing \ PopIds : processing'[j] = processing[j]
  BY <1>1, <1>2
<1>6. ASSUME NEW j \in PopIds
      PROVE  \E i \in Taken : queue[i].id = j /\ processing'[j] = PopClaim(i)
  <2>1. processing'[j] = [at |-> clock, token |-> job(j).token, attempts |-> job(j).attempts]
    BY <1>1, <1>2
  <2> QED BY <1>2, <1>3, <2>1 DEF PopClaim
<1>7. claims' = [j \in Jobs |-> IF j \in PopIds THEN claims[j] + 1 ELSE claims[j]]
  BY <1>1, <1>2
<1> QED BY <1>1, <1>4, <1>5, <1>6, <1>7

-----------------------------------------------------------------------------
(* What a sweep does with the stale claims: those of over end, those of back *)
(* wait again, the others stay and are no older than those of back.         *)

StaleJobs(w) == {j \in DOMAIN processing : processing[j].at <= cutoff[w]}

Requeued(back) == [i \in DOMAIN back |-> [id |-> back[i], attempts |-> Spent(back[i]), due |-> 0]]

Divides(w, over, back) ==
  /\ over \in Seq(StaleJobs(w)) /\ back \in Seq(StaleJobs(w))
  /\ \A j \in Range(over) : ~ShouldRetry(Spent(j))
  /\ \A j \in Range(back) : ShouldRetry(Spent(j))
  /\ \A a, b \in DOMAIN back : back[a] = back[b] => a = b
  /\ \A j \in Range(back), k \in StaleJobs(w) \ (Range(over) \cup Range(back)) :
       processing[j].at <= processing[k].at

SweepsTo(w, over, back) ==
  /\ Divides(w, over, back)
  /\ queue' = queue \o Requeued(back)
  /\ Unclaim(Range(over) \cup Range(back))
  /\ IF DeadLetterQueue THEN PushDead(over) ELSE UNCHANGED dead
  /\ End(Range(over), IF DeadLetterQueue THEN "dead" ELSE "dropped")
  /\ cutoff[w] # Idle /\ cutoff' = [cutoff EXCEPT ![w] = Idle]
  /\ UNCHANGED <<clock, claimSeq, processed, held, submitted, claims>>

LEMMA DivideFacts ==
  ASSUME NEW w, IsFiniteSet(StaleJobs(w)), NEW ids \in OldestFirst(StaleJobs(w)),
         NEW over \in Kept(ids, {i \in DOMAIN ids : ~ShouldRetry(Spent(ids[i]))}),
         NEW left \in Kept(ids, {i \in DOMAIN ids : ShouldRetry(Spent(ids[i]))}),
         NEW n \in 0 .. Len(left)
  PROVE  Divides(w, over, SubSeq(left, 1, n))
<1> DEFINE S == StaleJobs(w)
           O == {i \in DOMAIN ids : ~ShouldRetry(Spent(ids[i]))}
           L == {i \in DOMAIN ids : ShouldRetry(Spent(ids[i]))}
           back == SubSeq(left, 1, n)
<1>1. /\ ids \in Seq(S) /\ Range(ids) = S
      /\ \A a, b \in DOMAIN ids : ids[a] = ids[b] => a = b
      /\ \A a, b \in DOMAIN ids : a < b => processing[ids[a]].at <= processing[ids[b]].at
  BY OrdersFacts DEF OldestFirst
<1> HIDE DEF S
<1>2. O \in SUBSET DOMAIN ids /\ L \in SUBSET DOMAIN ids
  OBVIOUS
<1>3. over \in Seq(S) /\ left \in Seq(S) /\ DOMAIN left = 1 .. Len(left) /\ Len(left) \in Nat
  BY <1>1, <1>2, KeptFacts
<1>4. PICK f : Picks(f, ids, O, over)
  BY <1>1, <1>2, KeptFacts
<1>5. PICK g : Picks(g, ids, L, left)
  BY <1>1, <1>2, KeptFacts
<1>6. /\ back \in Seq(S) /\ Len(back) = n /\ DOMAIN back = 1 .. n
      /\ \A a \in 1 .. n : a \in DOMAIN left /\ back[a] = left[a]
  <2>1. 1 \in Int /\ n \in Int /\ \A a \in 1 .. n : left[a] \in S /\ a \in DOMAIN left
    BY <1>3, LenProperties
  <2>2. /\ back \in Seq(S) /\ Len(back) = IF 1 <= n THEN n - 1 + 1 ELSE 0
        /\ \A a \in 1 .. n - 1 + 1 : back[a] = left[1 + a - 1]
    BY <2>1, SubSeqProperties
  <2> HIDE DEF back
  <2>3. DOMAIN back = 1 .. Len(back)
    BY <2>2, LenProperties
  <2> QED BY <2>1, <2>2, <2>3
<1> HIDE DEF back
<1>7. \A j \in Range(over) : ~ShouldRetry(Spent(j))
  BY <1>4 DEF Picks, Range
<1>8. \A a \in DOMAIN left : ShouldRetry(Spent(left[a])) /\ g[a] \in DOMAIN ids /\ left[a] = ids[g[a]]
  BY <1>5 DEF Picks
<1>9. \A j \in Range(back) : ShouldRetry(Spent(j))
  BY <1>6, <1>8 DEF Range
<1>10. \A a, b \in DOMAIN back : back[a] = back[b] => a = b
  BY <1>1, <1>5, <1>6, <1>8 DEF Picks
<1>11. ASSUME NEW j \in Range(back), NEW k \in S \ (Range(over) \cup Range(back))
       PROVE  processing[j].at <= processing[k].at
  <2>1. PICK a \in 1 .. n : j = left[a]
    BY <1>6 DEF Range
  <2>2. PICK i \in DOMAIN ids : k = ids[i]
    BY <1>1 DEF Range
  <2>3. i \in L
    BY <1>4, <2>2 DEF Picks, Range
  <2>4. PICK b \in DOMAIN left : g[b] = i
    BY <1>5, <2>3 DEF Picks
  <2>5. k = left[b]
    BY <1>8, <2>2, <2>4
  <2>6. b \notin 1 .. n
    BY <1>6, <2>5 DEF Range
  <2>7. a < b /\ a \in DOMAIN left
    BY <1>3, <1>6, <2>4, <2>6
  <2>8. g[a] < g[b] /\ j = ids[g[a]] /\ g[a] \in DOMAIN ids
    BY <1>5, <1>8, <2>1, <2>4, <2>7 DEF Picks
  <2> QED BY <1>1, <2>2, <2>4, <2>8
<1> QED BY <1>3, <1>6, <1>7, <1>9, <1>10, <1>11 DEF Divides, S, back

LEMMA SweepFacts ==
  ASSUME TypeOK, NEW w \in Workers, Sweep(w)
  PROVE  \E over, back : SweepsTo(w, over, back)
<1>1. IsFiniteSet(StaleJobs(w))
  BY InMemoryConfig, FS_Subset DEF TypeOK, StaleJobs
<1> DEFINE Cut(left) == SubSeq(left, 1, IF Len(left) < Room THEN Len(left) ELSE Room)
           Done(over, back) ==
             /\ queue' = queue \o Requeued(back)
             /\ Unclaim(Range(over) \cup Range(back))
             /\ IF DeadLetterQueue THEN PushDead(over) ELSE UNCHANGED dead
             /\ End(Range(over), IF DeadLetterQueue THEN "dead" ELSE "dropped")
<1>2. PICK ids \in OldestFirst(StaleJobs(w)) :
        \E over \in Kept(ids, {i \in DOMAIN ids : ~ShouldRetry(Spent(ids[i]))}),
           left \in Kept(ids, {i \in DOMAIN ids : ShouldRetry(Spent(ids[i]))}) :
          Done(over, Cut(left))
  BY DEF Sweep, StaleJobs, Requeued
<1>3. PICK over \in Kept(ids, {i \in DOMAIN ids : ~ShouldRetry(Spent(ids[i]))}),
           left \in Kept(ids, {i \in DOMAIN ids : ShouldRetry(Spent(ids[i]))}) :
        Done(over, Cut(left))
  BY <1>2
<1> DEFINE n == IF Len(left) < Room THEN Len(left) ELSE Room
<1>4. n \in 0 .. Len(left)
  <2>1. Room \in Nat
    BY SMTT(30), InMemoryConfig, LenProperties DEF TypeOK, Room
  <2>2. Len(left) \in Nat
    <3>1. ids \in Seq(StaleJobs(w))
      BY <1>1, OrdersFacts DEF OldestFirst
    <3>2. {i \in DOMAIN ids : ShouldRetry(Spent(ids[i]))} \in SUBSET DOMAIN ids
      OBVIOUS
    <3> QED BY <3>1, <3>2, KeptFacts
  <2> QED BY <2>1, <2>2
<1>5. Divides(w, over, SubSeq(left, 1, n))
  BY <1>1, <1>4, DivideFacts
<1>6. SweepsTo(w, over, SubSeq(left, 1, n))
  BY <1>3, <1>5 DEF Sweep, SweepsTo
<1> QED BY <1>6

-----------------------------------------------------------------------------
(* Type correctness. *)

LEMMA UnclaimFacts ==
  ASSUME TypeOK, NEW R, Unclaim(R)
  PROVE  /\ DOMAIN processing' = DOMAIN processing \ R
         /\ \A j \in DOMAIN processing' : processing'[j] = processing[j]
         /\ DOMAIN processing' \subseteq Jobs /\ processing' \in [DOMAIN processing' -> Claim]
<1>1. processing' = [j \in DOMAIN processing \ R |-> processing[j]]
  BY DEF Unclaim, Restrict
<1>2. DOMAIN processing \subseteq Jobs /\ processing \in [DOMAIN processing -> Claim]
  BY DEF TypeOK
<1> QED BY <1>1, <1>2

LEMMA EndFacts ==
  ASSUME TypeOK, NEW E, NEW how \in {"sent", "dead", "dropped"}, End(E, how)
  PROVE  /\ outcome' \in [Jobs -> {"open", "sent", "dead", "dropped"}]
         /\ \A j \in Jobs : outcome'[j] = IF j \in E THEN how ELSE outcome[j]
BY DEF TypeOK, End

(* The rows a submission adds to the queue. *)
LEMMA EnqueuedFacts ==
  ASSUME NEW S \in SUBSET Jobs, NEW ids \in Seq(S), Range(ids) = S,
         \A a, b \in DOMAIN ids : ids[a] = ids[b] => a = b
  PROVE  LET u == Enqueued(ids)
         IN  /\ u \in Seq(Waiting) /\ Ids(u) = S /\ Distinct(u)
             /\ \A i \in DOMAIN u : u[i].attempts = 0
<1> DEFINE u == Enqueued(ids)
<1>1. DOMAIN ids = 1 .. Len(ids) /\ Len(ids) \in Nat /\ \A i \in DOMAIN ids : ids[i] \in Jobs
  BY LenProperties
<1>2. u = [i \in DOMAIN ids |-> [id |-> ids[i], attempts |-> 0, due |-> 0]]
  BY DEF Enqueued
<1> HIDE DEF u
<1>3. u \in Seq(Waiting)
  <2>1. u \in [1 .. Len(ids) -> Waiting]
    BY <1>1, <1>2 DEF Waiting
  <2> QED BY <1>1, <2>1, FunctionSeq
<1>4. Ids(u) = S
  BY <1>2 DEF Ids, Range
<1>5. Distinct(u) /\ \A i \in DOMAIN u : u[i].attempts = 0
  BY <1>2 DEF Distinct
<1> QED BY <1>3, <1>4, <1>5 DEF u

LEMMA RequeuedFacts ==
  ASSUME TypeOK, NEW S \in SUBSET DOMAIN processing, NEW back \in Seq(S),
         \A a, b \in DOMAIN back : back[a] = back[b] => a = b
  PROVE  LET u == Requeued(back)
         IN  /\ u \in Seq(Waiting) /\ Ids(u) = Range(back) /\ Distinct(u)
             /\ \A i \in DOMAIN u : u[i].id \in Range(back) /\ u[i].attempts = Spent(u[i].id)
<1> DEFINE u == Requeued(back)
<1>1. /\ DOMAIN back = 1 .. Len(back) /\ Len(back) \in Nat
      /\ \A i \in DOMAIN back : back[i] \in Jobs /\ Spent(back[i]) \in Nat
  <2>1. DOMAIN back = 1 .. Len(back) /\ Len(back) \in Nat /\ \A i \in 1 .. Len(back) : back[i] \in S
    BY LenProperties
  <2>2. \A j \in S : j \in Jobs /\ Spent(j) \in Nat
    BY DEF TypeOK, Claim, Spent
  <2> QED BY <2>1, <2>2
<1>2. u = [i \in DOMAIN back |-> [id |-> back[i], attempts |-> Spent(back[i]), due |-> 0]]
  BY DEF Requeued
<1> HIDE DEF u
<1>3. u \in Seq(Waiting)
  <2>1. u \in [1 .. Len(back) -> Waiting]
    BY <1>1, <1>2 DEF Waiting
  <2> QED BY <1>1, <2>1, FunctionSeq
<1>4. Ids(u) = Range(back)
  BY <1>2 DEF Ids, Range
<1>5. Distinct(u) /\ \A i \in DOMAIN u : u[i].id \in Range(back) /\ u[i].attempts = Spent(u[i].id)
  BY <1>2 DEF Distinct, Range
<1> QED BY <1>3, <1>4, <1>5 DEF u

-----------------------------------------------------------------------------
(* What each kind of step does to the jobs.                                *)

(* A submission: the jobs of S are refused, or all of them wait. *)
Submits(S) ==
  /\ S \in SUBSET Jobs /\ \A j \in S : submitted[j] = "new"
  /\ \/ /\ UNCHANGED queue
        /\ submitted' = [j \in Jobs |-> IF j \in S THEN "refused" ELSE submitted[j]]
     \/ /\ \E u \in Seq(Waiting) : /\ queue' = queue \o u
                                   /\ Ids(u) = S /\ Distinct(u)
                                   /\ \A i \in DOMAIN u : u[i].attempts = 0
        /\ submitted' = [j \in Jobs |-> IF j \in S THEN "queued" ELSE submitted[j]]
  /\ UNCHANGED <<clock, processing, claimSeq, dead, processed, local, claims, outcome>>

(* The claims of R go: the jobs of E have ended, the others are the new     *)
(* rows u of the queue.                                                    *)
Releases(R, E, u) ==
  /\ R \in SUBSET DOMAIN processing /\ E \in SUBSET R
  /\ Unclaim(R)
  /\ u \in Seq(Waiting) /\ queue' = queue \o u /\ Ids(u) = R \ E /\ Distinct(u)
  /\ \E how \in {"sent", "dead", "dropped"} : End(E, how)
  /\ UNCHANGED <<clock, claimSeq, submitted, claims>>

(* The task of h ends, as its finalizer has it. *)
Finishes(w, h) ==
  /\ h \in held[w] /\ held' = [held EXCEPT ![w] = held[w] \ {h}]
  /\ \/ ~Owned(h) /\ UNCHANGED <<queue, processing, outcome>>
     \/ /\ Owned(h)
        /\ \E E, u : /\ Releases({h.id}, E, u)
                     /\ \A i \in DOMAIN u : u[i].attempts = h.attempts + 1 /\ ShouldRetry(h.attempts)
  /\ dead' \in Seq(Letter) /\ Len(dead') <= DeadMaxLen /\ processed' \in Nat
  /\ UNCHANGED <<clock, claimSeq, cutoff, submitted, claims>>

LEMMA PushBatchFacts ==
  ASSUME TypeOK, NEW S \in SUBSET Jobs, PushBatch(S)
  PROVE  Submits(S)
<1>1. CASE UNCHANGED queue /\ submitted' = [j \in Jobs |-> IF j \in S THEN "refused" ELSE submitted[j]]
  BY <1>1 DEF PushBatch, Submits
<1>2. ASSUME NEW ids \in Orders(S), queue' = queue \o Enqueued(ids),
             submitted' = [j \in Jobs |-> IF j \in S THEN "queued" ELSE submitted[j]]
      PROVE  Submits(S)
  <2>1. IsFiniteSet(S)
    BY InMemoryConfig, FS_Subset
  <2>2. /\ ids \in Seq(S) /\ Range(ids) = S
        /\ \A a, b \in DOMAIN ids : ids[a] = ids[b] => a = b
    BY <2>1, OrdersFacts
  <2>3. /\ Enqueued(ids) \in Seq(Waiting) /\ Ids(Enqueued(ids)) = S /\ Distinct(Enqueued(ids))
        /\ \A i \in DOMAIN Enqueued(ids) : Enqueued(ids)[i].attempts = 0
    BY <2>2, EnqueuedFacts
  <2> QED BY <1>2, <2>3 DEF PushBatch, Submits
<1> QED BY <1>1, <1>2 DEF PushBatch

LEMMA PushFacts ==
  ASSUME TypeOK, NEW j \in Jobs, Push(j)
  PROVE  Submits({j})
<1>1. CASE UNCHANGED queue /\ submitted' = [submitted EXCEPT ![j] = "refused"]
  BY <1>1 DEF Push, Submits, TypeOK
<1>2. CASE /\ queue' = queue \o Enqueued(<<j>>)
           /\ submitted' = [submitted EXCEPT ![j] = "queued"]
  <2>1. /\ <<j>> \in Seq({j}) /\ Range(<<j>>) = {j}
        /\ \A a, b \in DOMAIN <<j>> : <<j>>[a] = <<j>>[b] => a = b
    BY DEF Range
  <2>2. /\ Enqueued(<<j>>) \in Seq(Waiting) /\ Ids(Enqueued(<<j>>)) = {j} /\ Distinct(Enqueued(<<j>>))
        /\ \A i \in DOMAIN Enqueued(<<j>>) : Enqueued(<<j>>)[i].attempts = 0
    BY <2>1, EnqueuedFacts
  <2>3. submitted' = [k \in Jobs |-> IF k \in {j} THEN "queued" ELSE submitted[k]]
    BY <1>2 DEF TypeOK
  <2>4. UNCHANGED <<clock, processing, claimSeq, dead, processed, local, claims, outcome>>
        /\ submitted[j] = "new"
    BY DEF Push
  <2> QED BY <1>2, <2>2, <2>3, <2>4 DEF Submits
<1> QED BY <1>1, <1>2 DEF Push

(* A finalizer that ends the job. *)
LEMMA EndsFacts ==
  ASSUME TypeOK, NEW j \in DOMAIN processing, NEW how \in {"sent", "dead", "dropped"},
         Unclaim({j}), End({j}, how), UNCHANGED <<queue, clock, claimSeq, submitted, claims>>
  PROVE  Releases({j}, {j}, <<>>)
<1>1. queue' = queue \o <<>>
  BY DEF TypeOK
<1>2. <<>> \in Seq(Waiting) /\ Ids(<<>>) = {} /\ Distinct(<<>>)
  BY DEF Ids, Distinct
<1> QED BY <1>1, <1>2 DEF Releases

(* fail: the job waits again. *)
LEMMA FailFacts ==
  ASSUME TypeOK, NEW h \in Held, h.id \in DOMAIN processing, NEW delay \in RetryDelays,
         Unclaim({h.id}), UNCHANGED <<clock, claimSeq, submitted, claims, outcome>>,
         queue' = Append(queue, [id |-> h.id, attempts |-> h.attempts + 1, due |-> clock + delay])
  PROVE  \E u : Releases({h.id}, {}, u) /\ \A i \in DOMAIN u : u[i].attempts = h.attempts + 1
<1> DEFINE row == [id |-> h.id, attempts |-> h.attempts + 1, due |-> clock + delay]
           u == <<row>>
<1>1. row \in Waiting
  <2>1. h.id \in Jobs /\ h.attempts \in Nat
    BY DEF Held
  <2>2. clock \in Nat /\ delay \in Nat
    BY InMemoryConfig DEF TypeOK
  <2> QED BY <2>1, <2>2 DEF Waiting
<1>2. queue' = queue \o u
  BY <1>1, AppendIsConcat DEF TypeOK
<1>3. row.id = h.id /\ row.attempts = h.attempts + 1
  OBVIOUS
<1> HIDE DEF row
<1>4. u \in Seq(Waiting) /\ Ids(u) = {h.id} /\ Distinct(u) /\ \A i \in DOMAIN u : u[i] = row
  BY <1>1, <1>3 DEF Ids, Distinct
<1>5. End({}, "sent")
  BY DEF End, TypeOK
<1> HIDE DEF u
<1>6. Releases({h.id}, {}, u)
  BY <1>2, <1>4, <1>5 DEF Releases
<1> QED BY <1>3, <1>4, <1>6

LEMMA TaskDoneFacts ==
  ASSUME TypeOK, NEW w \in Workers, TaskDone(w)
  PROVE  \E h \in held[w] : Finishes(w, h)
<1>1. PICK h \in held[w] :
        /\ held' = [held EXCEPT ![w] = held[w] \ {h}]
        /\ \/ Complete(h)
           \/ ShouldRetry(h.attempts) /\ \E delay \in RetryDelays : Fail(h, delay)
           \/ DeadLetterQueue /\ DeadLetter(h)
           \/ ~DeadLetterQueue /\ Discard(h)
  BY DEF TaskDone
<1>2. UNCHANGED <<clock, claimSeq, cutoff, submitted, claims>>
  BY DEF TaskDone
<1>3. h \in Held /\ h.id \in Jobs
  BY DEF TypeOK, Held
<1>4. dead \in Seq(Letter) /\ Len(dead) <= DeadMaxLen /\ processed \in Nat
  BY DEF TypeOK, Letter
<1>5. CASE Stale(h)
  BY <1>1, <1>2, <1>4, <1>5 DEF Stale, Finishes
<1> DEFINE Charged(u) == \A i \in DOMAIN u : u[i].attempts = h.attempts + 1 /\ ShouldRetry(h.attempts)
<1>6. ASSUME NEW how \in {"sent", "dead", "dropped"}, Owned(h), Unclaim({h.id}), End({h.id}, how),
             UNCHANGED queue
      PROVE  Releases({h.id}, {h.id}, <<>>) /\ Charged(<<>>)
  BY <1>2, <1>6, EndsFacts DEF Owned
<1>7. CASE Complete(h) /\ ~Stale(h)
  <2>1. Owned(h) /\ Unclaim({h.id}) /\ End({h.id}, "sent") /\ UNCHANGED <<queue, dead>>
        /\ processed' = processed + 1
    BY <1>7 DEF Complete
  <2>2. Releases({h.id}, {h.id}, <<>>) /\ Charged(<<>>)
    BY <1>6, <2>1
  <2>3. dead' \in Seq(Letter) /\ Len(dead') <= DeadMaxLen /\ processed' \in Nat
    BY <1>4, <2>1
  <2> QED BY <1>1, <1>2, <2>1, <2>2, <2>3 DEF Finishes
<1>8. CASE Discard(h) /\ ~Stale(h)
  <2>1. Owned(h) /\ Unclaim({h.id}) /\ End({h.id}, "dropped") /\ UNCHANGED <<queue, dead, processed>>
    BY <1>8 DEF Discard
  <2>2. Releases({h.id}, {h.id}, <<>>) /\ Charged(<<>>)
    BY <1>6, <2>1
  <2> QED BY <1>1, <1>2, <1>4, <2>1, <2>2 DEF Finishes
<1>9. CASE DeadLetter(h) /\ ~Stale(h)
  <2>1. Owned(h) /\ Unclaim({h.id}) /\ End({h.id}, "dead") /\ UNCHANGED <<queue, processed>>
        /\ PushDead(<<h.id>>)
    BY <1>9 DEF DeadLetter
  <2>2. Releases({h.id}, {h.id}, <<>>) /\ Charged(<<>>)
    BY <1>6, <2>1
  <2>3. <<h.id>> \in Seq(Jobs)
    BY <1>3
  <2>4. dead' \in Seq(Letter) /\ Len(dead') <= DeadMaxLen /\ processed' \in Nat
    BY <1>4, <2>1, <2>3, PushDeadType
  <2> QED BY <1>1, <1>2, <2>1, <2>2, <2>4 DEF Finishes
<1>10. ASSUME NEW delay \in RetryDelays, ShouldRetry(h.attempts), Fail(h, delay), ~Stale(h)
       PROVE  Finishes(w, h)
  <2>1. /\ Owned(h) /\ Unclaim({h.id}) /\ UNCHANGED <<dead, processed, outcome>>
        /\ queue' = Append(queue, [id |-> h.id, attempts |-> h.attempts + 1, due |-> clock + delay])
    BY <1>10 DEF Fail
  <2>2. h.id \in DOMAIN processing
    BY <2>1 DEF Owned
  <2>3. PICK u : Releases({h.id}, {}, u) /\ \A i \in DOMAIN u : u[i].attempts = h.attempts + 1
    BY <1>2, <1>3, <2>1, <2>2, FailFacts
  <2> QED BY <1>1, <1>2, <1>4, <1>10, <2>1, <2>3 DEF Finishes
<1> QED BY <1>1, <1>5, <1>7, <1>8, <1>9, <1>10

LEMMA SweepsToFacts ==
  ASSUME TypeOK, NEW w \in Workers, NEW over, NEW back, SweepsTo(w, over, back)
  PROVE  /\ Releases(Range(over) \cup Range(back), Range(over), Requeued(back))
         /\ \A i \in DOMAIN Requeued(back) :
              /\ Requeued(back)[i].attempts = processing[Requeued(back)[i].id].attempts + 1
              /\ ShouldRetry(Requeued(back)[i].attempts)
         /\ dead' \in Seq(Letter) /\ Len(dead') <= DeadMaxLen
<1>1. /\ over \in Seq(StaleJobs(w)) /\ back \in Seq(StaleJobs(w))
      /\ \A j \in Range(over) : ~ShouldRetry(Spent(j))
      /\ \A j \in Range(back) : ShouldRetry(Spent(j))
      /\ \A a, b \in DOMAIN back : back[a] = back[b] => a = b
  BY DEF SweepsTo, Divides
<1>2. StaleJobs(w) \in SUBSET DOMAIN processing /\ StaleJobs(w) \in SUBSET Jobs
  BY DEF StaleJobs, TypeOK
<1>3. LET u == Requeued(back)
      IN  /\ u \in Seq(Waiting) /\ Ids(u) = Range(back) /\ Distinct(u)
          /\ \A i \in DOMAIN u : u[i].id \in Range(back) /\ u[i].attempts = Spent(u[i].id)
  BY <1>1, <1>2, RequeuedFacts
<1>4. Range(over) \in SUBSET DOMAIN processing /\ Range(back) \in SUBSET DOMAIN processing
  BY <1>1, <1>2, LenProperties DEF Range
<1>5. Range(back) = (Range(over) \cup Range(back)) \ Range(over)
  BY <1>1
<1>6. \E how \in {"sent", "dead", "dropped"} : End(Range(over), how)
  BY DEF SweepsTo
<1>7. Releases(Range(over) \cup Range(back), Range(over), Requeued(back))
  BY <1>3, <1>4, <1>5, <1>6 DEF SweepsTo, Releases
<1>8. \A i \in DOMAIN Requeued(back) :
              /\ Requeued(back)[i].attempts = processing[Requeued(back)[i].id].attempts + 1
              /\ ShouldRetry(Requeued(back)[i].attempts)
  BY <1>1, <1>3 DEF Spent
<1>9. dead' \in Seq(Letter) /\ Len(dead') <= DeadMaxLen
  <2>1. over \in Seq(Jobs)
    BY <1>1, <1>2
  <2>2. dead \in Seq(Letter) /\ Len(dead) <= DeadMaxLen
    BY DEF TypeOK, Letter
  <2> QED BY <2>1, <2>2, PushDeadType DEF SweepsTo
<1> QED BY <1>7, <1>8, <1>9

-----------------------------------------------------------------------------
(* The steps, by what they do. *)

Quiet ==
  /\ \A v \in Workers : held'[v] \in SUBSET held[v]
  /\ UNCHANGED <<queue, processing, claimSeq, submitted, claims, outcome>>

Kinds ==
  \/ \E S \in SUBSET Jobs : Submits(S)
  \/ \E w \in Workers : Pop(w)
  \/ \E w \in Workers : \E h \in held[w] : Finishes(w, h)
  \/ \E w \in Workers : \E over, back : SweepsTo(w, over, back)
  \/ Quiet

LEMMA StepKinds ==
  ASSUME TypeOK, [Next]_vars
  PROVE  Kinds
<1>1. ASSUME NEW j \in Jobs, Push(j) PROVE Kinds
  BY <1>1, PushFacts DEF Kinds
<1>2. ASSUME NEW S \in SUBSET Jobs, PushBatch(S) PROVE Kinds
  BY <1>2, PushBatchFacts DEF Kinds
<1>3. ASSUME NEW w \in Workers, Worker(w) PROVE Kinds
  <2>1. CASE Pop(w)
    BY <2>1 DEF Kinds
  <2>2. CASE SweepBegin(w)
    BY <2>2 DEF SweepBegin, Kinds, Quiet, state, history
  <2>3. CASE Sweep(w)
    BY <2>3, SweepFacts DEF Kinds
  <2>4. CASE TaskDone(w)
    BY <2>4, TaskDoneFacts DEF Kinds
  <2>5. CASE TaskPanics(w)
    BY <2>5 DEF TaskPanics, Kinds, Quiet, state, history, TypeOK
  <2> QED BY <1>3, <2>1, <2>2, <2>3, <2>4, <2>5 DEF Worker
<1>4. CASE Stats
  BY <1>4 DEF Stats, Kinds, Quiet, local, history
<1>5. CASE Tick
  BY <1>5 DEF Tick, Kinds, Quiet, state, local, history
<1>6. CASE UNCHANGED vars
  BY <1>6 DEF vars, Kinds, Quiet, state, local, history
<1> QED BY <1>1, <1>2, <1>3, <1>4, <1>5, <1>6 DEF Next

LEMMA ReleaseType ==
  ASSUME TypeOK, NEW R, NEW E, NEW u, Releases(R, E, u)
  PROVE  /\ queue' \in Seq(Waiting)
         /\ DOMAIN processing' \subseteq Jobs /\ processing' \in [DOMAIN processing' -> Claim]
         /\ outcome' \in [Jobs -> {"open", "sent", "dead", "dropped"}]
<1>1. queue' \in Seq(Waiting)
  BY ConcatProperties DEF TypeOK, Releases
<1>2. DOMAIN processing' \subseteq Jobs /\ processing' \in [DOMAIN processing' -> Claim]
  BY UnclaimFacts DEF Releases
<1>3. outcome' \in [Jobs -> {"open", "sent", "dead", "dropped"}]
  BY EndFacts DEF Releases
<1> QED BY <1>1, <1>2, <1>3

LEMMA PopType ==
  ASSUME TypeOK, NEW w \in Workers, Pop(w)
  PROVE  /\ queue' \in Seq(Waiting) /\ claimSeq' \in Nat
         /\ DOMAIN processing' \subseteq Jobs /\ processing' \in [DOMAIN processing' -> Claim]
         /\ held' \in [Workers -> SUBSET Held] /\ claims' \in [Jobs -> Nat]
<1>1. Taken \subseteq DOMAIN queue /\ Cardinality(Taken) \in Nat
      /\ \A i \in Taken : Token(i) \in claimSeq + 1 .. claimSeq + Cardinality(Taken)
  BY TakenFacts
<1>2. queue \in Seq(Waiting) /\ claimSeq \in Nat /\ clock \in Nat /\ claims \in [Jobs -> Nat]
  BY InMemoryConfig DEF TypeOK
<1>3. \A i \in DOMAIN queue : queue[i] \in Waiting
  BY <1>2, LenProperties
<1>4. \A i \in Taken : PopHeld(i) \in Held /\ PopClaim(i) \in Claim /\ queue[i].id \in Jobs
  BY SMTT(30), <1>1, <1>2, <1>3 DEF Waiting, Held, Claim, PopHeld, PopClaim
<1>5. queue' \in Seq(Waiting)
  BY <1>2, PopFacts, KeptFacts
<1>6. claimSeq' \in Nat
  <2>1. claimSeq' = claimSeq + Cardinality(Taken)
    BY PopFacts
  <2> QED BY <1>1, <1>2, <2>1
<1>7. /\ DOMAIN processing \subseteq Jobs /\ \A j \in DOMAIN processing : processing[j] \in Claim
      /\ held \in [Workers -> SUBSET Held]
  BY DEF TypeOK
<1>8. DOMAIN processing' \subseteq Jobs
  <2>1. DOMAIN processing' = DOMAIN processing \cup PopIds
    BY PopFacts
  <2> QED BY <1>4, <1>7, <2>1 DEF PopIds
<1>9. processing' \in [DOMAIN processing' -> Claim]
  <2>1. /\ DOMAIN processing' = DOMAIN processing \cup PopIds
        /\ processing' = [j \in DOMAIN processing' |-> processing'[j]]
    BY PopFacts
  <2>2. \A j \in DOMAIN processing \ PopIds : processing'[j] = processing[j]
    BY PopFacts
  <2>3. \A j \in PopIds : \E i \in Taken : processing'[j] = PopClaim(i)
    BY PopFacts
  <2>4. \A j \in DOMAIN processing' : processing'[j] \in Claim
    BY <1>4, <1>7, <2>1, <2>2, <2>3
  <2> QED BY <2>1, <2>4
<1>10. held' \in [Workers -> SUBSET Held]
  <2>1. held' = [held EXCEPT ![w] = held[w] \cup {PopHeld(i) : i \in Taken}]
    BY PopFacts
  <2> QED BY <1>4, <1>7, <2>1
<1>11. claims' \in [Jobs -> Nat]
  BY <1>2, PopFacts
<1> QED BY <1>5, <1>6, <1>8, <1>9, <1>10, <1>11

LEMMA TypeStep == TypeOK /\ [Next]_vars => TypeOK'
<1> SUFFICES ASSUME TypeOK, [Next]_vars PROVE TypeOK'
  OBVIOUS
<1>1. ASSUME NEW S \in SUBSET Jobs, Submits(S) PROVE TypeOK'
  <2>1. queue' \in Seq(Waiting)
    <3>1. CASE UNCHANGED queue
      BY <3>1 DEF TypeOK
    <3>2. CASE \E u \in Seq(Waiting) : queue' = queue \o u
      BY <3>2, ConcatProperties DEF TypeOK
    <3> QED BY <1>1, <3>1, <3>2 DEF Submits
  <2>2. submitted' \in [Jobs -> {"new", "queued", "refused"}]
    BY <1>1 DEF Submits, TypeOK
  <2> QED BY <1>1, <2>1, <2>2 DEF Submits, TypeOK, local
<1>2. ASSUME NEW w \in Workers, Pop(w) PROVE TypeOK'
  <2>1. UNCHANGED <<clock, dead, processed, cutoff, submitted, outcome>>
    BY <1>2, PopFacts
  <2> QED BY <1>2, <2>1, PopType DEF TypeOK
<1>3. ASSUME NEW w \in Workers, NEW h \in held[w], Finishes(w, h) PROVE TypeOK'
  <2>1. /\ queue' \in Seq(Waiting)
        /\ DOMAIN processing' \subseteq Jobs /\ processing' \in [DOMAIN processing' -> Claim]
        /\ outcome' \in [Jobs -> {"open", "sent", "dead", "dropped"}]
    <3>1. CASE UNCHANGED <<queue, processing, outcome>>
      BY <3>1 DEF TypeOK
    <3>2. CASE \E E, u : Releases({h.id}, E, u)
      BY <3>2, ReleaseType
    <3> QED BY <1>3, <3>1, <3>2 DEF Finishes
  <2>2. held' \in [Workers -> SUBSET Held]
    BY <1>3 DEF Finishes, TypeOK
  <2> QED BY <1>3, <2>1, <2>2 DEF Finishes, TypeOK, Letter
<1>4. ASSUME NEW w \in Workers, NEW over, NEW back, SweepsTo(w, over, back) PROVE TypeOK'
  <2>1. /\ Releases(Range(over) \cup Range(back), Range(over), Requeued(back))
        /\ dead' \in Seq(Letter) /\ Len(dead') <= DeadMaxLen
    BY <1>4, SweepsToFacts
  <2>2. /\ queue' \in Seq(Waiting)
        /\ DOMAIN processing' \subseteq Jobs /\ processing' \in [DOMAIN processing' -> Claim]
        /\ outcome' \in [Jobs -> {"open", "sent", "dead", "dropped"}]
    BY <2>1, ReleaseType
  <2>3. cutoff' \in [Workers -> Int \cup {Idle}]
    BY <1>4 DEF SweepsTo, TypeOK
  <2> QED BY <1>4, <2>1, <2>2, <2>3 DEF SweepsTo, TypeOK, Letter
<1>5. ASSUME NEW w \in Workers, Worker(w) PROVE TypeOK'
  <2>1. CASE Pop(w)
    BY <1>2, <2>1
  <2>2. CASE SweepBegin(w)
    <3>1. cutoff' \in [Workers -> Int \cup {Idle}]
      BY <2>2, InMemoryConfig DEF SweepBegin, TypeOK
    <3> QED BY <2>2, <3>1 DEF SweepBegin, TypeOK, state, history
  <2>3. CASE Sweep(w)
    BY <1>4, <2>3, SweepFacts
  <2>4. CASE TaskDone(w)
    BY <1>3, <2>4, TaskDoneFacts
  <2>5. CASE TaskPanics(w)
    <3>1. held' \in [Workers -> SUBSET Held]
      BY <2>5 DEF TaskPanics, TypeOK
    <3> QED BY <2>5, <3>1 DEF TaskPanics, TypeOK, state, history
  <2> QED BY <1>5, <2>1, <2>2, <2>3, <2>4, <2>5 DEF Worker
<1>6. CASE Stats
  <2>1. dead' \in Seq(Letter) /\ Len(dead') <= DeadMaxLen
    <3>1. Unexpired \in Seq(Letter) /\ Len(Unexpired) <= Len(dead)
      BY UnexpiredFacts
    <3>2. Len(dead) \in Nat /\ DeadMaxLen \in Nat /\ Len(dead) <= DeadMaxLen /\ Len(Unexpired) \in Nat
      BY <3>1, InMemoryConfig, LenProperties DEF TypeOK
    <3>3. dead' = Unexpired
      BY <1>6 DEF Stats
    <3> HIDE DEF Unexpired
    <3> QED BY <3>1, <3>2, <3>3
  <2> QED BY <1>6, <2>1 DEF Stats, TypeOK, Letter, local, history
<1>7. CASE Tick
  BY SMTT(30), <1>7, InMemoryConfig DEF Tick, TypeOK, state, local, history
<1>8. CASE UNCHANGED vars
  BY <1>8 DEF TypeOK, vars, state, local, history
<1>9. ASSUME NEW j \in Jobs, Push(j) PROVE TypeOK'
  BY <1>1, <1>9, PushFacts
<1>10. ASSUME NEW S \in SUBSET Jobs, PushBatch(S) PROVE TypeOK'
  BY <1>1, <1>10, PushBatchFacts
<1> QED BY <1>5, <1>6, <1>7, <1>8, <1>9, <1>10 DEF Next

(* Every variable stays in its type, and the dead-letter list within        *)
(* dead_letter_max_len however many failures are recorded.                 *)
THEOREM TypeCorrect == Spec => []TypeOK
<1>1. Init => TypeOK
  BY InMemoryConfig DEF Init, TypeOK
<1> QED BY <1>1, TypeStep, PTL DEF Spec

-----------------------------------------------------------------------------
(* The inductive invariant: where a job is follows from what was promised   *)
(* of it, the counts agree, and a task that owns its claim knows the claim. *)

Live(j) == submitted[j] = "queued" /\ ~Settled(j)

CopyInv ==
  /\ Distinct(queue)
  /\ Ids(queue) \cap DOMAIN processing = {}
  /\ \A j \in Jobs : j \in Ids(queue) \cup DOMAIN processing <=> Live(j)
  /\ \A j \in Jobs : submitted[j] # "queued" => ~Settled(j) /\ claims[j] = 0

AttemptInv ==
  /\ \A i \in DOMAIN queue : /\ queue[i].attempts = claims[queue[i].id]
                             /\ queue[i].attempts <= MaxRetries
  /\ \A j \in DOMAIN processing : processing[j].attempts = claims[j] - 1
  /\ \A j \in Jobs : claims[j] <= MaxRetries + 1

TokenInv ==
  /\ \A j \in DOMAIN processing : processing[j].token <= claimSeq
  /\ \A j, k \in DOMAIN processing : processing[j].token = processing[k].token => j = k
  /\ \A w \in Workers : \A h \in held[w] :
       h.token <= claimSeq /\ (Owned(h) => h.attempts = processing[h.id].attempts)

Inv == TypeOK /\ CopyInv /\ AttemptInv /\ TokenInv

LEMMA SubmitInv ==
  ASSUME Inv, NEW S, Submits(S)
  PROVE  CopyInv' /\ AttemptInv'
<1>1. UNCHANGED <<processing, claims, outcome>> /\ S \in SUBSET Jobs /\ \A j \in S : submitted[j] = "new"
  BY DEF Submits
<1>2. CASE /\ UNCHANGED queue
           /\ submitted' = [j \in Jobs |-> IF j \in S THEN "refused" ELSE submitted[j]]
  <2>1. \A j \in Jobs : /\ submitted'[j] = "queued" <=> submitted[j] = "queued"
    BY <1>1, <1>2
  <2>2. \A j \in Jobs : Live(j)' <=> Live(j)
    BY <1>1, <2>1 DEF Live, Settled
  <2>3. CopyInv'
    BY <1>1, <1>2, <2>1, <2>2 DEF Inv, CopyInv, Ids, Distinct, Settled
  <2>4. AttemptInv'
    BY <1>1, <1>2 DEF Inv, AttemptInv
  <2> QED BY <2>3, <2>4
<1>3. ASSUME NEW u \in Seq(Waiting), queue' = queue \o u, Ids(u) = S, Distinct(u),
             \A i \in DOMAIN u : u[i].attempts = 0,
             submitted' = [j \in Jobs |-> IF j \in S THEN "queued" ELSE submitted[j]]
      PROVE  CopyInv' /\ AttemptInv'
  <2>1. queue \in Seq(Waiting)
    BY DEF Inv, TypeOK
  <2>2. /\ Ids(queue') = Ids(queue) \cup S
        /\ \A i \in DOMAIN queue' : \/ \E a \in DOMAIN queue : queue'[i] = queue[a]
                                    \/ \E b \in DOMAIN u : queue'[i] = u[b]
        /\ Distinct(queue) /\ Distinct(u) /\ Ids(queue) \cap Ids(u) = {} => Distinct(queue')
    BY <1>3, <2>1, ConcatQueue
  <2>3. \A j \in S : ~Live(j) /\ ~Settled(j) /\ claims[j] = 0 /\ j \in Jobs
    BY <1>1 DEF Inv, CopyInv, Live
  <2>4. Ids(queue) \cap S = {} /\ DOMAIN processing \cap S = {}
    BY <2>3 DEF Inv, CopyInv
  <2>5. \A j \in Jobs : Live(j)' <=> Live(j) \/ j \in S
    BY <1>1, <1>3, <2>3 DEF Live, Settled
  <2>6. Distinct(queue')
    BY <1>3, <2>2, <2>4 DEF Inv, CopyInv
  <2>7. CopyInv'
    <3>1. Ids(queue') \cap DOMAIN processing' = {}
      BY <1>1, <2>2, <2>4 DEF Inv, CopyInv
    <3>2. \A j \in Jobs : j \in Ids(queue') \cup DOMAIN processing' <=> Live(j)'
      BY <1>1, <2>2, <2>5 DEF Inv, CopyInv
    <3>3. \A j \in Jobs : submitted'[j] # "queued" => ~Settled(j)' /\ claims'[j] = 0
      BY <1>1, <1>3 DEF Inv, CopyInv, Settled
    <3>4. Distinct(queue)' /\ Ids(queue)' = Ids(queue')
      BY <2>6 DEF Distinct, Ids
    <3> QED BY <3>1, <3>2, <3>3, <3>4 DEF CopyInv
  <2>8. AttemptInv'
    <3>1. \A b \in DOMAIN u : u[b].attempts = claims[u[b].id] /\ u[b].attempts <= MaxRetries
      BY <1>3, <2>3, InMemoryConfig DEF Ids
    <3> QED BY <1>1, <2>2, <3>1 DEF Inv, AttemptInv
  <2> QED BY <2>7, <2>8
<1> QED BY <1>2, <1>3 DEF Submits

(* Claims that go, each with its attempt on the row that replaces it. *)
LEMMA ReleaseInv ==
  ASSUME Inv, NEW R, NEW E, NEW u, Releases(R, E, u),
         \A i \in DOMAIN u : /\ u[i].attempts = processing[u[i].id].attempts + 1
                             /\ u[i].attempts <= MaxRetries
  PROVE  CopyInv' /\ AttemptInv'
<1>1. /\ R \in SUBSET DOMAIN processing /\ E \in SUBSET R /\ R \in SUBSET Jobs
      /\ u \in Seq(Waiting) /\ queue' = queue \o u /\ Ids(u) = R \ E /\ Distinct(u)
      /\ UNCHANGED <<submitted, claims>>
  BY DEF Releases, Inv, TypeOK
<1>2. /\ DOMAIN processing' = DOMAIN processing \ R
      /\ \A j \in DOMAIN processing' : processing'[j] = processing[j]
  BY UnclaimFacts DEF Releases, Inv
<1>3. \A j \in Jobs : Settled(j)' <=> j \in E \/ Settled(j)
  BY EndFacts DEF Releases, Inv, Settled
<1>4. queue \in Seq(Waiting)
  BY DEF Inv, TypeOK
<1>5. /\ Ids(queue') = Ids(queue) \cup (R \ E)
      /\ \A i \in DOMAIN queue' : \/ \E a \in DOMAIN queue : queue'[i] = queue[a]
                                  \/ \E b \in DOMAIN u : queue'[i] = u[b]
      /\ Distinct(queue) /\ Distinct(u) /\ Ids(queue) \cap Ids(u) = {} => Distinct(queue')
  BY <1>1, <1>4, ConcatQueue
<1>6. \A j \in R : Live(j) /\ j \notin Ids(queue)
  BY <1>1 DEF Inv, CopyInv
<1>7. \A j \in Jobs : Live(j)' <=> Live(j) /\ j \notin E
  BY <1>1, <1>3 DEF Live, Settled
<1>8. CopyInv'
  <2>1. Distinct(queue')
    BY <1>1, <1>5, <1>6 DEF Inv, CopyInv
  <2>2. Ids(queue') \cap DOMAIN processing' = {}
    BY <1>1, <1>2, <1>5 DEF Inv, CopyInv
  <2>3. \A j \in Jobs : j \in Ids(queue') \cup DOMAIN processing' <=> Live(j)'
    BY <1>1, <1>2, <1>5, <1>6, <1>7 DEF Inv, CopyInv
  <2>4. \A j \in Jobs : submitted'[j] # "queued" => ~Settled(j)' /\ claims'[j] = 0
    BY <1>1, <1>3, <1>6 DEF Inv, CopyInv, Live
  <2>5. Distinct(queue)' /\ Ids(queue)' = Ids(queue')
    BY <2>1 DEF Distinct, Ids
  <2> QED BY <2>1, <2>2, <2>3, <2>4, <2>5 DEF CopyInv
<1>9. AttemptInv'
  <2>1. \A b \in DOMAIN u : u[b].attempts = claims[u[b].id] /\ u[b].attempts <= MaxRetries
    <3>1. \A b \in DOMAIN u : u[b].id \in DOMAIN processing /\ u[b].id \in Jobs
      BY <1>1 DEF Ids
    <3>2. \A j \in Jobs : claims[j] \in Nat
      BY DEF Inv, TypeOK
    <3> QED BY <3>1, <3>2 DEF Inv, AttemptInv
  <2>2. \A i \in DOMAIN queue' : queue'[i].attempts = claims'[queue'[i].id]
                                 /\ queue'[i].attempts <= MaxRetries
    BY <1>1, <1>5, <2>1 DEF Inv, AttemptInv
  <2> QED BY <1>1, <1>2, <2>2 DEF Inv, AttemptInv
<1> QED BY <1>8, <1>9

LEMMA PopInv ==
  ASSUME Inv, NEW w \in Workers, Pop(w)
  PROVE  CopyInv' /\ AttemptInv'
<1>1. /\ queue' \in Kept(queue, DOMAIN queue \ Taken)
      /\ DOMAIN processing' = DOMAIN processing \cup PopIds
      /\ UNCHANGED <<submitted, outcome>>
  BY PopFacts DEF Inv
<1>2. \A j \in DOMAIN processing \ PopIds : processing'[j] = processing[j]
  BY PopFacts DEF Inv
<1>3. \A j \in PopIds : \E i \in Taken : queue[i].id = j /\ processing'[j] = PopClaim(i)
  BY PopFacts DEF Inv
<1>4. claims' = [j \in Jobs |-> IF j \in PopIds THEN claims[j] + 1 ELSE claims[j]]
  BY PopFacts DEF Inv
<1>5. /\ queue \in Seq(Waiting) /\ Distinct(queue) /\ Taken \subseteq DOMAIN queue
      /\ \A j \in Jobs : claims[j] \in Nat
  BY TakenFacts DEF Inv, TypeOK, CopyInv
<1>6. /\ Distinct(queue') /\ Ids(queue') = {queue[i].id : i \in DOMAIN queue \ Taken}
      /\ \A a \in DOMAIN queue' : \E i \in DOMAIN queue \ Taken : queue'[a] = queue[i]
  BY <1>1, <1>5, KeptQueue
<1>7. Ids(queue') = Ids(queue) \ PopIds /\ PopIds \subseteq Ids(queue)
  <2>1. \A i \in DOMAIN queue \ Taken : queue[i].id \notin PopIds /\ queue[i].id \in Ids(queue)
    BY <1>5 DEF Ids, PopIds, Distinct
  <2>2. \A j \in Ids(queue) \ PopIds : \E i \in DOMAIN queue \ Taken : j = queue[i].id
    BY DEF Ids, PopIds
  <2>3. PopIds \subseteq Ids(queue)
    BY <1>5 DEF Ids, PopIds
  <2>4. \A j \in Ids(queue') : j \in Ids(queue) \ PopIds
    BY <1>6, <2>1
  <2>5. \A j \in Ids(queue) \ PopIds : j \in Ids(queue')
    BY <1>6, <2>2
  <2> QED BY <2>3, <2>4, <2>5
<1>8. \A i \in DOMAIN queue : queue[i].id \in Jobs /\ queue[i].attempts \in Nat
  <2>1. \A i \in DOMAIN queue : queue[i] \in Waiting
    BY <1>5, LenProperties
  <2> QED BY <2>1 DEF Waiting
<1>9. CopyInv'
  <2>1. Ids(queue') \cap DOMAIN processing' = {}
    BY <1>1, <1>7 DEF Inv, CopyInv
  <2>2. \A j \in Jobs : Live(j)' <=> Live(j)
    BY <1>1 DEF Live, Settled
  <2>3. \A j \in Jobs : j \in Ids(queue') \cup DOMAIN processing' <=> Live(j)'
    BY <1>1, <1>7, <2>2 DEF Inv, CopyInv
  <2>4. \A j \in PopIds : j \in Jobs => Live(j)
    BY <1>7 DEF Inv, CopyInv
  <2>5. \A j \in Jobs : submitted'[j] # "queued" => ~Settled(j)' /\ claims'[j] = 0
    BY <1>1, <1>4, <2>4 DEF Inv, CopyInv, Live, Settled
  <2>6. Distinct(queue)' /\ Ids(queue)' = Ids(queue')
    BY <1>6 DEF Distinct, Ids
  <2> QED BY <2>1, <2>3, <2>5, <2>6 DEF CopyInv
<1>10. AttemptInv'
  <2>1. \A i \in DOMAIN queue : queue[i].attempts = claims[queue[i].id] /\ queue[i].attempts <= MaxRetries
    BY DEF Inv, AttemptInv
  <2>2. \A a \in DOMAIN queue' : /\ queue'[a].attempts = claims'[queue'[a].id]
                                 /\ queue'[a].attempts <= MaxRetries
    <3> SUFFICES ASSUME NEW a \in DOMAIN queue'
                 PROVE  queue'[a].attempts = claims'[queue'[a].id] /\ queue'[a].attempts <= MaxRetries
      OBVIOUS
    <3>1. PICK i \in DOMAIN queue \ Taken : queue'[a] = queue[i]
      BY <1>6
    <3>2. queue[i].id \notin PopIds
      BY <1>5, <3>1 DEF PopIds, Distinct
    <3> QED BY <1>4, <1>8, <2>1, <3>1, <3>2
  <2>3. \A j \in DOMAIN processing' : processing'[j].attempts = claims'[j] - 1
    <3> SUFFICES ASSUME NEW j \in DOMAIN processing' PROVE processing'[j].attempts = claims'[j] - 1
      OBVIOUS
    <3>1. CASE j \in PopIds
      <4>1. PICK i \in Taken : queue[i].id = j /\ processing'[j] = PopClaim(i)
        BY <1>3, <3>1
      <4>2. processing'[j].attempts = claims[j] /\ j \in Jobs /\ claims[j] \in Nat
        BY <1>5, <1>8, <2>1, <4>1 DEF PopClaim
      <4> QED BY <1>4, <3>1, <4>2
    <3>2. CASE j \notin PopIds
      <4>1. j \in DOMAIN processing /\ j \in Jobs
        BY <1>1, <3>2 DEF Inv, TypeOK
      <4> QED BY <1>2, <1>4, <3>2, <4>1 DEF Inv, AttemptInv
    <3> QED BY <3>1, <3>2
  <2>4. \A j \in Jobs : claims'[j] <= MaxRetries + 1
    <3>1. \A j \in PopIds : claims[j] <= MaxRetries
      BY <1>5, <2>1 DEF PopIds
    <3> QED BY <1>4, <1>5, <3>1, InMemoryConfig DEF Inv, AttemptInv
  <2> QED BY <2>2, <2>3, <2>4 DEF AttemptInv
<1> QED BY <1>9, <1>10

LEMMA PopTokens ==
  ASSUME Inv, NEW w \in Workers, Pop(w)
  PROVE  TokenInv'
<1>1. /\ DOMAIN processing' = DOMAIN processing \cup PopIds
      /\ claimSeq' = claimSeq + Cardinality(Taken)
  BY PopFacts DEF Inv
<1>2. \A j \in DOMAIN processing \ PopIds : processing'[j] = processing[j]
  BY PopFacts DEF Inv
<1>3. \A j \in PopIds : \E i \in Taken : queue[i].id = j /\ processing'[j] = PopClaim(i)
  BY PopFacts DEF Inv
<1>4. held' = [held EXCEPT ![w] = held[w] \cup {PopHeld(i) : i \in Taken}]
  BY PopFacts DEF Inv
<1>5. /\ Taken \subseteq DOMAIN queue /\ Cardinality(Taken) \in Nat /\ claimSeq \in Nat
      /\ \A i \in Taken : Token(i) \in claimSeq + 1 .. claimSeq + Cardinality(Taken)
      /\ \A i, k \in Taken : Token(i) = Token(k) => i = k
      /\ Distinct(queue)
  BY TakenFacts DEF Inv, TypeOK, CopyInv
<1>6. /\ \A j \in DOMAIN processing : processing[j].token <= claimSeq /\ processing[j].token \in Nat
      /\ \A j, k \in DOMAIN processing : processing[j].token = processing[k].token => j = k
  BY DEF Inv, TypeOK, TokenInv, Claim
<1>7. \A j \in PopIds : /\ processing'[j].token \in claimSeq + 1 .. claimSeq'
                        /\ \E i \in Taken : queue[i].id = j /\ processing'[j].token = Token(i)
  BY <1>1, <1>3, <1>5 DEF PopClaim
<1>8. \A j \in DOMAIN processing' : processing'[j].token <= claimSeq'
  BY <1>1, <1>2, <1>5, <1>6, <1>7
<1>9. \A j, k \in DOMAIN processing' : processing'[j].token = processing'[k].token => j = k
  <2> SUFFICES ASSUME NEW j \in DOMAIN processing', NEW k \in DOMAIN processing',
                      processing'[j].token = processing'[k].token
               PROVE  j = k
    OBVIOUS
  <2>1. CASE j \in PopIds /\ k \in PopIds
    BY <1>5, <1>7, <2>1
  <2>2. CASE j \notin PopIds /\ k \notin PopIds
    BY <1>1, <1>2, <1>6, <2>2
  <2>3. CASE (j \in PopIds) # (k \in PopIds)
    BY <1>1, <1>2, <1>5, <1>6, <1>7, <2>3
  <2> QED BY <2>1, <2>2, <2>3
<1>10. ASSUME NEW v \in Workers, NEW h \in held'[v]
       PROVE  h.token <= claimSeq' /\ (Owned(h)' => h.attempts = processing'[h.id].attempts)
  <2>1. CASE h \in held[v]
    <3>1. /\ h.token <= claimSeq /\ h.token \in Nat
          /\ Owned(h) => h.attempts = processing[h.id].attempts
      BY <2>1 DEF Inv, TypeOK, TokenInv, Held
    <3>2. Owned(h)' => h.id \in DOMAIN processing \ PopIds
      BY <1>1, <1>5, <1>7, <3>1 DEF Owned
    <3> QED BY <1>1, <1>2, <1>5, <3>1, <3>2 DEF Owned
  <2>2. ASSUME NEW i \in Taken, h = PopHeld(i)
        PROVE  h.token <= claimSeq' /\ h.attempts = processing'[h.id].attempts
    <3>1. h.id \in PopIds /\ h.token = Token(i) /\ h.id = queue[i].id /\ h.attempts = queue[i].attempts
      BY <2>2 DEF PopHeld, PopIds
    <3>2. PICK k \in Taken : queue[k].id = h.id /\ processing'[h.id] = PopClaim(k)
      BY <1>3, <3>1
    <3>3. k = i
      BY <1>5, <3>1, <3>2 DEF Distinct
    <3> QED BY <1>1, <1>5, <3>1, <3>2, <3>3 DEF PopClaim
  <2>3. h \in held[v] \/ \E i \in Taken : h = PopHeld(i)
    BY <1>4, <1>10 DEF Inv, TypeOK
  <2> QED BY <2>1, <2>2, <2>3
<1> QED BY <1>8, <1>9, <1>10 DEF TokenInv

LEMMA KeptTokens ==
  ASSUME Inv, UNCHANGED claimSeq,
         \A v \in Workers : held'[v] \in SUBSET held[v],
         DOMAIN processing' \in SUBSET DOMAIN processing,
         \A j \in DOMAIN processing' : processing'[j] = processing[j]
  PROVE  TokenInv'
BY DEF Inv, TokenInv, Owned

LEMMA InvStep == Inv /\ [Next]_vars => Inv'
<1> SUFFICES ASSUME Inv, [Next]_vars PROVE Inv'
  OBVIOUS
<1>1. TypeOK' /\ Kinds
  BY TypeStep, StepKinds DEF Inv
<1>2. ASSUME NEW S \in SUBSET Jobs, Submits(S) PROVE CopyInv' /\ AttemptInv' /\ TokenInv'
  <2>1. TokenInv'
    BY <1>2, KeptTokens DEF Submits, local
  <2> QED BY <1>2, <2>1, SubmitInv
<1>3. ASSUME NEW w \in Workers, Pop(w) PROVE CopyInv' /\ AttemptInv' /\ TokenInv'
  BY <1>3, PopInv, PopTokens
<1>4. ASSUME NEW w \in Workers, NEW h \in held[w], Finishes(w, h)
      PROVE  CopyInv' /\ AttemptInv' /\ TokenInv'
  <2>1. \A v \in Workers : held'[v] \in SUBSET held[v]
    BY <1>4 DEF Finishes, Inv, TypeOK
  <2>2. CASE UNCHANGED <<queue, processing, outcome>>
    <3>1. UNCHANGED <<claimSeq, submitted, claims>>
      BY <1>4 DEF Finishes
    <3>2. CopyInv' /\ AttemptInv'
      BY <2>2, <3>1 DEF Inv, CopyInv, AttemptInv, Ids, Distinct, Live, Settled
    <3> QED BY <2>1, <2>2, <3>1, <3>2, KeptTokens
  <2>3. ASSUME Owned(h), NEW E, NEW u, Releases({h.id}, E, u),
               \A i \in DOMAIN u : u[i].attempts = h.attempts + 1 /\ ShouldRetry(h.attempts)
        PROVE  CopyInv' /\ AttemptInv' /\ TokenInv'
    <3>1. h.attempts = processing[h.id].attempts /\ h.attempts \in Nat
      BY <2>3 DEF Inv, TypeOK, TokenInv, Held
    <3>2. \A i \in DOMAIN u : u[i].id = h.id
      BY <2>3 DEF Releases, Ids
    <3>3. \A i \in DOMAIN u : /\ u[i].attempts = processing[u[i].id].attempts + 1
                              /\ u[i].attempts <= MaxRetries
      BY <2>3, <3>1, <3>2, InMemoryConfig DEF ShouldRetry
    <3>4. CopyInv' /\ AttemptInv'
      BY <2>3, <3>3, ReleaseInv
    <3>5. TokenInv'
      BY <2>1, <2>3, UnclaimFacts, KeptTokens DEF Releases, Inv
    <3> QED BY <3>4, <3>5
  <2> QED BY <1>4, <2>2, <2>3 DEF Finishes
<1>5. ASSUME NEW w \in Workers, NEW over, NEW back, SweepsTo(w, over, back)
      PROVE  CopyInv' /\ AttemptInv' /\ TokenInv'
  <2> DEFINE R == Range(over) \cup Range(back)
             u == Requeued(back)
  <2>1. /\ Releases(R, Range(over), u)
        /\ \A i \in DOMAIN u : u[i].attempts = processing[u[i].id].attempts + 1 /\ ShouldRetry(u[i].attempts)
    BY <1>5, SweepsToFacts DEF Inv
  <2> HIDE DEF R, u
  <2>2. \A i \in DOMAIN u : u[i].attempts <= MaxRetries
    <3>1. \A i \in DOMAIN u : u[i] \in Waiting
      BY <2>1, LenProperties DEF Releases
    <3>2. \A i \in DOMAIN u : u[i].attempts \in Nat
      BY <3>1 DEF Waiting
    <3> QED BY <2>1, <3>2, InMemoryConfig DEF ShouldRetry
  <2>3. CopyInv' /\ AttemptInv'
    BY <2>1, <2>2, ReleaseInv
  <2>4. TokenInv'
    <3>1. UNCHANGED <<claimSeq, held>>
      BY <1>5 DEF SweepsTo
    <3> QED BY <2>1, <3>1, UnclaimFacts, KeptTokens DEF Releases, Inv
  <2> QED BY <2>3, <2>4
<1>6. CASE Quiet
  <2>1. TokenInv'
    BY <1>6, KeptTokens DEF Quiet
  <2> QED BY <1>1, <1>6, <2>1 DEF Quiet, Inv, CopyInv, AttemptInv, Ids, Distinct, Live, Settled
<1> QED BY <1>1, <1>2, <1>3, <1>4, <1>5, <1>6 DEF Kinds, Inv

LEMMA InvInit == Init => Inv
<1> SUFFICES ASSUME Init PROVE Inv
  OBVIOUS
<1>1. TypeOK
  BY InMemoryConfig DEF Init, TypeOK
<1>2. CopyInv
  BY DEF Init, CopyInv, Ids, Distinct, Live, Settled
<1>3. AttemptInv
  BY InMemoryConfig DEF Init, AttemptInv
<1>4. TokenInv
  BY DEF Init, TokenInv
<1> QED BY <1>1, <1>2, <1>3, <1>4 DEF Inv

THEOREM InvCorrect == Spec => []Inv
BY InvInit, InvStep, PTL DEF Spec

-----------------------------------------------------------------------------
(* The properties of the runs. *)

(* An accepted job that has not ended is at one place of the queue or under *)
(* one claim, and any other job is nowhere.                                *)
THEOREM OneCopyCorrect == Spec => []OneCopy
<1>1. ASSUME Inv, NEW j \in Jobs
      PROVE  Cardinality(Copies(j)) + Cardinality(DOMAIN processing \cap {j})
               = IF submitted[j] = "queued" /\ ~Settled(j) THEN 1 ELSE 0
  <2>1. Copies(j) = {} \/ \E i : Copies(j) = {i}
    <3>1. \A a, b \in Copies(j) : a = b
      BY <1>1 DEF Inv, CopyInv, Distinct, Copies
    <3> QED BY <3>1
  <2>2. Copies(j) # {} <=> j \in Ids(queue)
    BY DEF Copies, Ids
  <2>3. Cardinality(Copies(j)) = IF j \in Ids(queue) THEN 1 ELSE 0
    BY <2>1, <2>2, FS_EmptySet, FS_Singleton
  <2>4. Cardinality(DOMAIN processing \cap {j}) = IF j \in DOMAIN processing THEN 1 ELSE 0
    <3>1. DOMAIN processing \cap {j} = IF j \in DOMAIN processing THEN {j} ELSE {}
      OBVIOUS
    <3> QED BY <3>1, FS_EmptySet, FS_Singleton
  <2>5. /\ j \in Ids(queue) \cup DOMAIN processing <=> Live(j)
        /\ j \in Ids(queue) => j \notin DOMAIN processing
    BY <1>1 DEF Inv, CopyInv
  <2> QED BY <2>3, <2>4, <2>5 DEF Live
<1>2. Inv => OneCopy
  BY <1>1 DEF OneCopy
<1> QED BY <1>2, InvCorrect, PTL

(* Every delivery of a job is charged against max_retries once: by the      *)
(* finalizer or by the sweep, never by both and never by neither.          *)
THEOREM OneAttemptCorrect == Spec => []OneAttemptPerClaim
<1>1. Inv => OneAttemptPerClaim
  BY DEF Inv, AttemptInv, OneAttemptPerClaim
<1> QED BY <1>1, InvCorrect, PTL

(* A sweep short of room leaves claims no older than those it takes. *)
THEOREM OldestClaimCorrect == Spec => OldestClaimFirst
<1> DEFINE A == \A j, k \in DOMAIN processing :
       /\ \E w \in Workers : cutoff[w] # Idle /\ cutoff'[w] = Idle /\ processing[k].at <= cutoff[w]
       /\ j \notin DOMAIN processing' /\ ~Settled(j)' /\ k \in DOMAIN processing'
       => processing[j].at <= processing[k].at
<1>1. ASSUME TypeOK, NEW w \in Workers, NEW over, NEW back, SweepsTo(w, over, back) PROVE A
  <2> SUFFICES ASSUME NEW j \in DOMAIN processing, NEW k \in DOMAIN processing, NEW v \in Workers,
                      cutoff[v] # Idle, cutoff'[v] = Idle, processing[k].at <= cutoff[v],
                      j \notin DOMAIN processing', ~Settled(j)', k \in DOMAIN processing'
               PROVE  processing[j].at <= processing[k].at
    OBVIOUS
  <2>1. v = w
    BY <1>1 DEF SweepsTo, TypeOK
  <2>2. DOMAIN processing' = DOMAIN processing \ (Range(over) \cup Range(back))
    BY <1>1, UnclaimFacts DEF SweepsTo
  <2>3. j \notin Range(over)
    <3>1. \E how \in {"sent", "dead", "dropped"} : End(Range(over), how)
      BY <1>1 DEF SweepsTo
    <3>2. j \in Jobs
      BY <1>1 DEF TypeOK
    <3> QED BY <1>1, <3>1, <3>2, EndFacts DEF Settled
  <2>4. j \in Range(back) /\ k \in StaleJobs(w) \ (Range(over) \cup Range(back))
    BY <2>1, <2>2, <2>3 DEF StaleJobs
  <2> QED BY <1>1, <2>4 DEF SweepsTo, Divides
<1>2. ASSUME UNCHANGED cutoff PROVE A
  BY <1>2
<1>3. ASSUME TypeOK, NEW w \in Workers, Worker(w) PROVE A
  <2>1. CASE Pop(w)
    BY <1>2, <1>3, <2>1, PopFacts
  <2>2. CASE SweepBegin(w)
    <3>1. \A v \in Workers : cutoff[v] # Idle => cutoff'[v] = cutoff[v]
      BY <1>3, <2>2 DEF SweepBegin, TypeOK
    <3> QED BY <3>1
  <2>3. CASE Sweep(w)
    BY <1>1, <1>3, <2>3, SweepFacts
  <2>4. CASE TaskDone(w)
    BY <1>2, <2>4 DEF TaskDone
  <2>5. CASE TaskPanics(w)
    BY <1>2, <2>5 DEF TaskPanics
  <2> QED BY <1>3, <2>1, <2>2, <2>3, <2>4, <2>5 DEF Worker
<1>4. TypeOK /\ [Next]_vars => A
  <2> SUFFICES ASSUME TypeOK, [Next]_vars PROVE A
    OBVIOUS
  <2> HIDE DEF A
  <2>1. ASSUME NEW j \in Jobs, Push(j) PROVE A
    BY <1>2, <2>1 DEF Push, local
  <2>2. ASSUME NEW S \in SUBSET Jobs, PushBatch(S) PROVE A
    BY <1>2, <2>2 DEF PushBatch, local
  <2>3. CASE Stats
    BY <1>2, <2>3 DEF Stats, local
  <2>4. CASE Tick
    BY <1>2, <2>4 DEF Tick, local
  <2>5. CASE UNCHANGED vars
    BY <1>2, <2>5 DEF vars, local
  <2> QED BY <1>3, <2>1, <2>2, <2>3, <2>4, <2>5 DEF Next
<1>5. TypeOK /\ [Next]_vars => [A]_vars
  BY <1>4
<1> QED BY <1>5, TypeCorrect, PTL DEF Spec, OldestClaimFirst

(* What a push onto a full list keeps: the letter of j, or else only letters *)
(* that came with it.                                                      *)
LEMMA PushDeadKeeps ==
  ASSUME TypeOK, NEW ids \in Seq(Jobs), PushDead(ids), NEW j \in Range(ids)
  PROVE  \/ \E i \in DOMAIN dead' : dead'[i].id = j
         \/ \A i \in DOMAIN dead' : dead'[i].id \in Range(ids)
<1>1. PICK p \in DOMAIN ids : ids[p] = j
  BY DEF Range
<1>2. DOMAIN ids = 1 .. Len(ids) /\ Len(ids) \in Nat /\ \A i \in DOMAIN ids : ids[i] \in Jobs
  BY LenProperties
<1>3. ids # <<>>
  BY <1>1
<1> DEFINE all == Unexpired \o Letters(ids)
           n   == Len(Unexpired)
<1>4. /\ Letters(ids) \in Seq(Letter) /\ Len(Letters(ids)) = Len(ids)
      /\ \A i \in 1 .. Len(ids) : Letters(ids)[i].id = ids[i]
  <2>1. Letters(ids) \in [1 .. Len(ids) -> Letter]
    BY <1>2 DEF Letters, Letter, TypeOK
  <2> QED BY <1>2, <2>1, FunctionSeq DEF Letters
<1>5. Unexpired \in Seq(Letter) /\ n \in Nat
  BY UnexpiredFacts, LenProperties
<1>6. /\ all \in Seq(Letter) /\ Len(all) = n + Len(ids)
      /\ \A i \in 1 .. n + Len(ids) : i > n => all[i].id = ids[i - n]
  <2> DEFINE L == Letters(ids)
             U == Unexpired
  <2>1. U \in Seq(Letter) /\ L \in Seq(Letter) /\ all = U \o L /\ n = Len(U)
    BY <1>4, <1>5
  <2>2. Len(L) = Len(ids) /\ \A i \in 1 .. Len(ids) : L[i].id = ids[i]
    BY <1>4
  <2> HIDE DEF L, U, all, n
  <2>3. /\ all \in Seq(Letter) /\ Len(all) = n + Len(ids)
        /\ \A i \in 1 .. n + Len(ids) : all[i] = IF i <= n THEN U[i] ELSE L[i - n]
    <3>1. /\ U \o L \in Seq(Letter) /\ Len(U \o L) = Len(U) + Len(L)
          /\ \A i \in 1 .. Len(U) + Len(L) : (U \o L)[i] = IF i <= Len(U) THEN U[i] ELSE L[i - Len(U)]
      BY <2>1, ConcatProperties
    <3> QED BY <2>1, <2>2, <3>1
  <2> QED BY <1>2, <1>5, <2>2, <2>3
<1>7. dead' = LastOf(all, DeadMaxLen) /\ DeadMaxLen \in Nat \ {0}
  BY <1>3, InMemoryConfig DEF PushDead, Letters
<1> HIDE DEF all, n
<1> DEFINE skip == IF Len(all) <= DeadMaxLen THEN 0 ELSE Len(all) - DeadMaxLen
<1>8. /\ dead' \in Seq(Letter) /\ Len(dead') = Len(all) - skip /\ skip \in Nat
      /\ \A i \in 1 .. Len(dead') : dead'[i] = all[skip + i]
  <2> HIDE DEF skip
  <2> DEFINE t == LastOf(all, DeadMaxLen)
  <2>0. Len(all) \in Nat /\ skip \in Nat
    BY <1>6, <1>7, LenProperties DEF skip
  <2>1. /\ t \in Seq(Letter) /\ Len(t) = Len(all) - skip
        /\ \A i \in 1 .. Len(t) : t[i] = all[skip + i]
    BY SMTT(30), <1>6, <1>7, LastOfFacts DEF skip
  <2> HIDE DEF t
  <2>2. dead' = t
    BY <1>7 DEF t
  <2> QED BY <2>0, <2>1, <2>2
<1>9. DOMAIN dead' = 1 .. Len(dead')
  BY <1>8, LenProperties
<1> HIDE DEF skip
<1>10. skip \in Nat /\ n \in Nat /\ Len(ids) \in Nat /\ p \in 1 .. Len(ids)
       /\ Len(dead') = n + Len(ids) - skip
  BY <1>1, <1>2, <1>5, <1>6, <1>8
<1>11. CASE skip < n + p
  <2>1. n + p - skip \in 1 .. Len(dead') /\ skip + (n + p - skip) = n + p
    BY <1>11, <1>10
  <2>2. n + p \in 1 .. n + Len(ids) /\ n + p > n /\ n + p - n = p
    BY <1>10
  <2>3. dead'[n + p - skip] = all[n + p] /\ all[n + p].id = ids[p]
    <3>1. dead'[n + p - skip] = all[skip + (n + p - skip)]
      BY <1>8, <2>1
    <3>2. all[n + p].id = ids[n + p - n]
      BY SMTT(30), <1>6, <1>10, <2>2
    <3> QED BY <2>1, <2>2, <3>1, <3>2
  <2> QED BY <1>1, <1>9, <2>1, <2>3
<1>12. CASE skip >= n + p
  <2> SUFFICES ASSUME NEW i \in DOMAIN dead' PROVE dead'[i].id \in Range(ids)
    OBVIOUS
  <2>0. i \in 1 .. n + Len(ids) - skip
    BY <1>9, <1>10
  <2>1. PICK q \in 1 .. n + Len(ids) : q = skip + i
    BY <1>10, <2>0
  <2>2. q > n /\ q - n \in DOMAIN ids
    BY <1>2, <1>10, <1>12, <2>0, <2>1
  <2>3. dead'[i] = all[q] /\ all[q].id = ids[q - n]
    BY <1>6, <1>8, <1>9, <1>10, <2>1, <2>2
  <2> QED BY <2>2, <2>3 DEF Range
<1> QED BY <1>10, <1>11, <1>12

(* A full dead-letter list gives up older failures, not the one recorded. *)
THEOREM NewFailuresCorrect == Spec => NewFailuresKept
<1> DEFINE B(j) == \/ \E i \in DOMAIN dead' : dead'[i].id = j
                   \/ \A i \in DOMAIN dead' : outcome[dead'[i].id] # "dead"
           A == \A j \in Jobs : outcome[j] # "dead" /\ outcome'[j] = "dead" => B(j)
<1>1. ASSUME Inv, NEW S \in SUBSET DOMAIN processing, NEW ids \in Seq(S), PushDead(ids),
             NEW j \in Range(ids)
      PROVE  B(j)
  <2>1. \A k \in Range(ids) : k \in Jobs /\ outcome[k] = "open"
    <3>1. Range(ids) \subseteq DOMAIN processing
      BY LenProperties DEF Range
    <3> QED BY <1>1, <3>1 DEF Inv, TypeOK, CopyInv, Live, Settled
  <2>2. ids \in Seq(Jobs)
    BY <1>1 DEF Inv, TypeOK
  <2> QED BY <1>1, <2>1, <2>2, PushDeadKeeps DEF Inv
<1>2. ASSUME UNCHANGED outcome PROVE A
  BY <1>2
<1> HIDE DEF B
<1>3. ASSUME Inv, NEW E, NEW how \in {"sent", "dropped"}, End(E, how) PROVE A
  <2>1. \A j \in Jobs : outcome'[j] = IF j \in E THEN how ELSE outcome[j]
    BY <1>3, EndFacts DEF Inv
  <2> QED BY <2>1
<1>4. ASSUME Inv, NEW S \in SUBSET DOMAIN processing, NEW ids \in Seq(S), PushDead(ids),
             End(Range(ids), "dead")
      PROVE  A
  <2>1. \A j \in Jobs : outcome'[j] = IF j \in Range(ids) THEN "dead" ELSE outcome[j]
    BY <1>4, EndFacts DEF Inv
  <2> QED BY <1>1, <1>4, <2>1
<1>5. ASSUME Inv, NEW w \in Workers, NEW over, NEW back, SweepsTo(w, over, back) PROVE A
  <2>1. StaleJobs(w) \in SUBSET DOMAIN processing /\ over \in Seq(StaleJobs(w))
    BY <1>5 DEF SweepsTo, Divides, StaleJobs
  <2>2. CASE DeadLetterQueue
    BY <1>4, <1>5, <2>1, <2>2 DEF SweepsTo
  <2>3. CASE ~DeadLetterQueue
    BY <1>3, <1>5, <2>3 DEF SweepsTo
  <2> QED BY <2>2, <2>3
<1>6. ASSUME Inv, NEW w \in Workers, TaskDone(w) PROVE A
  <2>1. PICK h \in held[w] : \/ UNCHANGED outcome
                             \/ End({h.id}, "sent") \/ End({h.id}, "dropped")
                             \/ Owned(h) /\ PushDead(<<h.id>>) /\ End({h.id}, "dead")
    BY <1>6 DEF TaskDone, Stale, Complete, Fail, DeadLetter, Discard
  <2>2. CASE Owned(h) /\ PushDead(<<h.id>>) /\ End({h.id}, "dead")
    <3>1. {h.id} \in SUBSET DOMAIN processing /\ <<h.id>> \in Seq({h.id}) /\ Range(<<h.id>>) = {h.id}
      BY <2>2 DEF Owned, Range
    <3> QED BY <1>4, <1>6, <2>2, <3>1
  <2> QED BY <1>2, <1>3, <1>6, <2>1, <2>2
<1>7. Inv /\ [Next]_vars => A
  <2> SUFFICES ASSUME Inv, [Next]_vars PROVE A
    OBVIOUS
  <2> HIDE DEF A
  <2>1. ASSUME NEW j \in Jobs, Push(j) PROVE A
    BY <1>2, <2>1 DEF Push
  <2>2. ASSUME NEW S \in SUBSET Jobs, PushBatch(S) PROVE A
    BY <1>2, <2>2 DEF PushBatch
  <2>3. ASSUME NEW w \in Workers, Worker(w) PROVE A
    <3>1. CASE Pop(w)
      BY <1>2, <3>1, PopFacts DEF Inv
    <3>2. CASE SweepBegin(w)
      BY <1>2, <3>2 DEF SweepBegin, history
    <3>3. CASE Sweep(w)
      BY <1>5, <3>3, SweepFacts DEF Inv
    <3>4. CASE TaskDone(w)
      BY <1>6, <3>4
    <3>5. CASE TaskPanics(w)
      BY <1>2, <3>5 DEF TaskPanics, history
    <3> QED BY <2>3, <3>1, <3>2, <3>3, <3>4, <3>5 DEF Worker
  <2>4. CASE Stats
    BY <1>2, <2>4 DEF Stats, history
  <2>5. CASE Tick
    BY <1>2, <2>5 DEF Tick, history
  <2>6. CASE UNCHANGED vars
    BY <1>2, <2>6 DEF vars, history
  <2> QED BY <2>1, <2>2, <2>3, <2>4, <2>5, <2>6 DEF Next
<1>8. Inv /\ [Next]_vars => [A]_vars
  BY <1>7
<1> QED BY <1>8, InvCorrect, PTL DEF Spec, NewFailuresKept, B

-----------------------------------------------------------------------------
(* Refinement: the promise of the trait. *)

Moves(j) == \/ Lifecycle!Stay(j) \/ Lifecycle!Enqueue(j) \/ Lifecycle!Deliver(j)
            \/ Lifecycle!Requeue(j) \/ Lifecycle!Finish(j)

(* The life of j, from what a step does to it. *)
JobStep(j) ==
  \/ /\ UNCHANGED <<submitted[j], outcome[j], claims[j]>>
     /\ (j \in DOMAIN processing' <=> j \in DOMAIN processing)
  \/ submitted[j] # "queued" /\ submitted'[j] # "queued" /\ UNCHANGED <<outcome[j], claims[j]>>
  \/ /\ submitted[j] # "queued" /\ submitted'[j] = "queued" /\ j \in Ids(queue')
     /\ UNCHANGED <<outcome[j], claims[j]>>
  \/ /\ j \in Ids(queue) /\ j \in DOMAIN processing' /\ claims'[j] = claims[j] + 1
     /\ UNCHANGED <<submitted[j], outcome[j]>>
  \/ /\ j \in DOMAIN processing /\ j \in Ids(queue') /\ UNCHANGED <<submitted[j], outcome[j], claims[j]>>
  \/ /\ j \in DOMAIN processing /\ outcome'[j] \in {"sent", "dead", "dropped"}
     /\ UNCHANGED <<submitted[j], claims[j]>>

LEMMA ReleaseJobStep ==
  ASSUME Inv, Inv', NEW R, NEW E, NEW u, Releases(R, E, u), NEW j \in Jobs
  PROVE  JobStep(j)
<1>1. /\ R \in SUBSET DOMAIN processing /\ E \in SUBSET R
      /\ u \in Seq(Waiting) /\ queue' = queue \o u /\ Ids(u) = R \ E
      /\ UNCHANGED <<submitted, claims>> /\ queue \in Seq(Waiting)
  BY DEF Releases, Inv, TypeOK
<1>2. DOMAIN processing' = DOMAIN processing \ R
  BY UnclaimFacts DEF Releases, Inv
<1>3. /\ j \notin E => outcome'[j] = outcome[j]
      /\ j \in E => outcome'[j] \in {"sent", "dead", "dropped"}
  <2>1. PICK how \in {"sent", "dead", "dropped"} : End(E, how)
    BY DEF Releases
  <2>2. outcome'[j] = IF j \in E THEN how ELSE outcome[j]
    BY <2>1, EndFacts DEF Inv
  <2> QED BY <2>2
<1>4. Ids(queue') = Ids(queue) \cup (R \ E)
  BY <1>1, ConcatQueue
<1>5. CASE j \in E
  BY <1>1, <1>3, <1>5 DEF JobStep
<1>6. CASE j \in R \ E
  BY <1>1, <1>3, <1>4, <1>6 DEF JobStep
<1>7. CASE j \notin R
  BY <1>1, <1>2, <1>3, <1>7 DEF JobStep, Live, Settled
<1> QED BY <1>5, <1>6, <1>7

LEMMA JobSteps ==
  ASSUME Inv, Inv', Kinds, NEW j \in Jobs
  PROVE  JobStep(j)
<1>1. ASSUME NEW S \in SUBSET Jobs, Submits(S) PROVE JobStep(j)
  <2>1. UNCHANGED <<processing, claims, outcome>> /\ \A k \in S : submitted[k] = "new"
    BY <1>1 DEF Submits
  <2>2. CASE submitted' = [k \in Jobs |-> IF k \in S THEN "refused" ELSE submitted[k]]
    BY <2>1, <2>2 DEF JobStep, Live, Settled
  <2>3. ASSUME NEW u \in Seq(Waiting), queue' = queue \o u, Ids(u) = S,
               submitted' = [k \in Jobs |-> IF k \in S THEN "queued" ELSE submitted[k]]
        PROVE  JobStep(j)
    <3>1. Ids(queue') = Ids(queue) \cup S
      BY <2>3, ConcatQueue DEF Inv, TypeOK
    <3> QED BY <2>1, <2>3, <3>1 DEF JobStep, Live, Settled
  <2> QED BY <1>1, <2>2, <2>3 DEF Submits
<1>2. ASSUME NEW w \in Workers, Pop(w) PROVE JobStep(j)
  <2>1. /\ DOMAIN processing' = DOMAIN processing \cup PopIds
        /\ UNCHANGED <<submitted, outcome>>
    BY <1>2, PopFacts DEF Inv
  <2>2. claims' = [k \in Jobs |-> IF k \in PopIds THEN claims[k] + 1 ELSE claims[k]]
    BY <1>2, PopFacts DEF Inv
  <2>3. PopIds \subseteq Ids(queue)
    BY TakenFacts DEF Inv, PopIds, Ids
  <2> QED BY <2>1, <2>2, <2>3 DEF JobStep, Live, Settled
<1>3. ASSUME NEW w \in Workers, NEW h \in held[w], Finishes(w, h) PROVE JobStep(j)
  <2>1. CASE UNCHANGED <<queue, processing, outcome>>
    BY <1>3, <2>1 DEF Finishes, JobStep, Live, Settled
  <2>2. CASE \E E, u : Releases({h.id}, E, u)
    BY <2>2, ReleaseJobStep
  <2> QED BY <1>3, <2>1, <2>2 DEF Finishes
<1>4. ASSUME NEW w \in Workers, NEW over, NEW back, SweepsTo(w, over, back) PROVE JobStep(j)
  BY <1>4, SweepsToFacts, ReleaseJobStep DEF Inv
<1>5. CASE Quiet
  BY <1>5 DEF Quiet, JobStep, Live, Settled
<1> QED BY <1>1, <1>2, <1>3, <1>4, <1>5 DEF Kinds

LEMMA LifecycleStep ==
  ASSUME Inv, Inv', Kinds, NEW j \in Jobs
  PROVE  Moves(j)
<1> DEFINE s == StateOf(j)
           t == StateOf(j)'
           Legal ==
  \/ s = t /\ claims'[j] = claims[j]
  \/ s = "new" /\ t = "waiting" /\ claims'[j] = claims[j]
  \/ s = "waiting" /\ claims[j] < MaxRetries + 1 /\ t = "claimed" /\ claims'[j] = claims[j] + 1
  \/ s = "claimed" /\ claims[j] < MaxRetries + 1 /\ t = "waiting" /\ claims'[j] = claims[j]
  \/ s = "claimed" /\ t \in Lifecycle!Ends /\ claims'[j] = claims[j]
<1>1. [k \in Jobs |-> StateOf(k)][j] = s /\ [k \in Jobs |-> StateOf(k)]'[j] = t
  OBVIOUS
<1>2. JobStep(j)
  BY JobSteps
<1>3. /\ submitted[j] # "queued" => s = "new"
      /\ j \in Ids(queue) => s = "waiting" /\ claims[j] < MaxRetries + 1
      /\ j \in DOMAIN processing => s = "claimed"
  <2>1. ASSUME j \in Ids(queue) PROVE claims[j] < MaxRetries + 1
    <3>1. PICK i \in DOMAIN queue : queue[i].id = j
      BY <2>1 DEF Ids
    <3>2. claims[j] \in Nat /\ claims[j] <= MaxRetries
      BY <3>1 DEF Inv, TypeOK, AttemptInv
    <3> QED BY <3>2, InMemoryConfig
  <2> QED BY <2>1 DEF Inv, CopyInv, Live, StateOf, Ids
<1>4. /\ submitted'[j] # "queued" => t = "new"
      /\ j \in Ids(queue') => t = "waiting" /\ claims'[j] < MaxRetries + 1
      /\ j \in DOMAIN processing' => t = "claimed"
  <2>1. ASSUME j \in Ids(queue') PROVE claims'[j] < MaxRetries + 1
    <3>1. PICK i \in DOMAIN queue' : queue'[i].id = j
      BY <2>1 DEF Ids
    <3>2. claims'[j] \in Nat /\ claims'[j] <= MaxRetries
      BY <3>1 DEF Inv, TypeOK, AttemptInv
    <3> QED BY <3>2, InMemoryConfig
  <2> QED BY <2>1 DEF Inv, CopyInv, Live, StateOf, Settled, Ids
<1>5. \A z \in {"sent", "dead", "dropped"} : z \in Lifecycle!Ends
  BY DEF Lifecycle!Ends
<1>6. outcome'[j] \in {"sent", "dead", "dropped"} => t = outcome'[j]
  BY DEF StateOf, Settled
<1>7. UNCHANGED <<submitted[j], outcome[j]>> /\ (j \in DOMAIN processing' <=> j \in DOMAIN processing)
        => s = t
  BY DEF StateOf, Settled
<1> HIDE DEF s, t
<1>8. Legal
  BY <1>2, <1>3, <1>4, <1>5, <1>6, <1>7 DEF JobStep
<1> QED BY <1>1, <1>8
        DEF Moves, Lifecycle!Stay, Lifecycle!Enqueue, Lifecycle!Deliver, Lifecycle!Requeue,
            Lifecycle!Finish

(* InMemoryBackend keeps the promise of the trait: every job goes from the  *)
(* queue to one claim and from there back to the queue or to its end, with  *)
(* at most MaxRetries + 1 deliveries.                                      *)
THEOREM LifecycleCorrect == Spec => ImplementsLifecycle
<1>1. Init => Lifecycle!Init
  <2> SUFFICES ASSUME Init PROVE Lifecycle!Init
    OBVIOUS
  <2>1. \A j \in Jobs : StateOf(j) = "new"
    BY DEF Init, StateOf, Settled
  <2> QED BY <2>1 DEF Init, Lifecycle!Init
<1>2. Inv /\ [Next]_vars => Inv' /\ Kinds
  BY InvStep, StepKinds DEF Inv
<1>3. Inv /\ [Next]_vars => [Lifecycle!Next]_<<[j \in Jobs |-> StateOf(j)], claims>>
  BY <1>2, LifecycleStep DEF Moves, Lifecycle!Next
<1> QED BY <1>1, <1>3, InvCorrect, PTL DEF Spec, ImplementsLifecycle, Lifecycle!Spec
=============================================================================
