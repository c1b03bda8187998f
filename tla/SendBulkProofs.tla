--------------------------- MODULE SendBulkProofs ---------------------------
(***************************************************************************)
(* Proofs about SendBulk: the window, the order and truth of the results,   *)
(* and the bound on copies, for any batch, concurrency and retry count.     *)
(***************************************************************************)
EXTENDS SendBulk, FiniteSetTheorems, TLAPS

-----------------------------------------------------------------------------
(* The inductive invariant.  The results so far are how the first emails    *)
(* ended; and each copy the provider took is paid for by an attempt, and    *)
(* all but the last one by a lost answer.                                   *)

Yielded == \A i \in DOMAIN results : Finished(i) /\ results[i] = task[i]

CallMade(i) == task[i] \in {"sleeping", "ok", "error"}

Counts(i) ==
  /\ task[i] = "sleeping" => try[i] < RetryCount
  /\ CallMade(i) => accepted[i] <= try[i] + 1
  /\ ~CallMade(i) => accepted[i] <= try[i]
  /\ accepted[i] <= unanswered[i] + 1
  /\ task[i] # "ok" => accepted[i] <= unanswered[i]
  /\ task[i] = "ok" => accepted[i] >= 1 /\ i \notin invalid
  /\ i \in invalid => accepted[i] = 0

Inv == TypeOK /\ Yielded /\ \A i \in Emails : Counts(i)

-----------------------------------------------------------------------------
(* Steps of one email's future: what they leave alone, and what is left to  *)
(* show of them is about that email only.                                   *)

LEMMA WidthPositive == ASSUME TypeOK PROVE Width \in Nat /\ Width >= 1
  BY DEF TypeOK, Width

(* The emails taken from the batch are its first ones.                      *)
LEMMA StartedSoFar ==
  ASSUME TypeOK
  PROVE  /\ started \in Nat /\ Emails \subseteq Nat /\ Len(results) \in Nat
         /\ \A k \in Emails : task[k] # "waiting" => k <= started
         /\ \A k \in Emails : k <= started => task[k] # "waiting"
         /\ DOMAIN results = 1 .. Len(results) /\ DOMAIN results \subseteq Emails
<1>1. started \in 0 .. N /\ results \in Seq({"ok", "error"}) /\ Len(results) <= started
  BY DEF TypeOK
<1>2. started \in Nat /\ Emails \subseteq Nat /\ Len(results) \in Nat
  BY <1>1, SendBulkConfig DEF Emails
<1>3. DOMAIN results = 1 .. Len(results) /\ DOMAIN results \subseteq Emails
  BY <1>1, SendBulkConfig DEF Emails
<1>4. \A k \in Emails : (task[k] = "waiting") <=> k > started
  BY DEF TypeOK
<1>5. \A k \in Emails : ~(k > started) <=> k <= started
  BY <1>2
<1> QED BY <1>2, <1>3, <1>4, <1>5

(* A step that moves only email i, from running to anywhere but waiting,    *)
(* keeps the invariant if it keeps i's own counts.                         *)
LEMMA OneEmailSteps ==
  ASSUME Inv, NEW i \in Emails, Running(i),
         UNCHANGED <<config, started, results>>,
         NEW how \in {"calling", "sleeping", "ok", "error"},
         task' = [task EXCEPT ![i] = how],
         try' \in [Emails -> 0 .. RetryCount],
         accepted' \in [Emails -> Nat], unanswered' \in [Emails -> Nat],
         \A k \in Emails \ {i} : /\ try'[k] = try[k] /\ accepted'[k] = accepted[k]
                                 /\ unanswered'[k] = unanswered[k],
         Counts(i)'
  PROVE  Inv'
<1>1. TypeOK'
  <2>1. started \in Nat /\ i <= started
    BY StartedSoFar DEF Inv, Running
  <2>2. task' \in [Emails -> {"waiting", "calling", "sleeping", "ok", "error"}]
    BY DEF Inv, TypeOK
  <2>3. \A k \in Emails : (task'[k] = "waiting") <=> k > started'
    <3> TAKE k \in Emails
    <3>1. CASE k = i
      BY <3>1, <2>1 DEF Inv, TypeOK, Emails
    <3>2. CASE k # i
      BY <3>2 DEF Inv, TypeOK
    <3> QED BY <3>1, <3>2
  <2> QED BY <2>2, <2>3 DEF Inv, TypeOK, config, Width
<1>2. Yielded'
  <2> SUFFICES ASSUME NEW k \in DOMAIN results PROVE Finished(k)' /\ results[k] = task'[k]
    BY DEF Yielded
  <2>1. Finished(k) /\ results[k] = task[k]
    BY DEF Inv, Yielded
  <2>2. k # i
    BY <2>1 DEF Running, Finished
  <2>3. task'[k] = task[k]
    BY <2>2 DEF Inv, TypeOK
  <2> QED BY <2>1, <2>3 DEF Finished
<1>3. ASSUME NEW k \in Emails PROVE Counts(k)'
  <2>1. CASE k = i
    BY <2>1
  <2>2. CASE k # i
    <3>1. task'[k] = task[k] /\ invalid' = invalid
      BY <2>2 DEF Inv, TypeOK, config
    <3> QED BY <2>2, <3>1 DEF Inv, Counts, CallMade
  <2> QED BY <2>1, <2>2
<1> QED BY <1>1, <1>2, <1>3 DEF Inv

-----------------------------------------------------------------------------
LEMMA InitInv == Init => Inv
<1> SUFFICES ASSUME Init PROVE Inv
  OBVIOUS
<1>1. TypeOK
  BY SendBulkConfig DEF Init, TypeOK, Width, Emails
<1>2. Yielded
  BY DEF Init, Yielded
<1>3. \A i \in Emails : Counts(i)
  BY SendBulkConfig DEF Init, Counts, CallMade
<1> QED BY <1>1, <1>2, <1>3 DEF Inv

LEMMA StartInv == ASSUME Inv, Start PROVE Inv'
<1> DEFINE s == started + 1
<1>1. s \in Emails /\ started \in Nat /\ task[s] = "waiting"
  BY SendBulkConfig DEF Inv, TypeOK, Start, Emails
<1>2. \A k \in Emails : task'[k] = IF k = s THEN "calling" ELSE task[k]
  BY DEF Inv, TypeOK, Start
<1>3. TypeOK'
  <2>1. task' \in [Emails -> {"waiting", "calling", "sleeping", "ok", "error"}]
    BY DEF Inv, TypeOK, Start
  <2>2. started' \in 0 .. N /\ Len(results') <= started' /\ started' - Len(results') <= Width
    BY <1>1, WidthPositive, SendBulkConfig DEF Inv, TypeOK, Start, Room
  <2>3. \A k \in Emails : (task'[k] = "waiting") <=> k > started'
    BY <1>1, <1>2 DEF Inv, TypeOK, Start, Emails
  <2> QED BY <2>1, <2>2, <2>3 DEF Inv, TypeOK, Start, config, seen, Width
<1>4. Yielded'
  <2> SUFFICES ASSUME NEW k \in DOMAIN results PROVE Finished(k)' /\ results[k] = task'[k]
    BY DEF Yielded, Start
  <2>1. Finished(k) /\ results[k] = task[k]
    BY DEF Inv, Yielded
  <2>2. k \in Emails /\ k # s
    BY <1>1, <2>1, StartedSoFar DEF Inv, Finished
  <2> QED BY <1>2, <2>1, <2>2 DEF Finished
<1>5. ASSUME NEW k \in Emails PROVE Counts(k)'
  <2>1. Counts(k) /\ UNCHANGED <<try, accepted, unanswered, invalid>>
    BY DEF Inv, Start, seen, config
  <2>2. CASE k = s
    BY <1>1, <1>2, <2>1, <2>2 DEF Counts, CallMade
  <2>3. CASE k # s
    BY <1>2, <2>1, <2>3 DEF Counts, CallMade
  <2> QED BY <2>2, <2>3
<1> QED BY <1>3, <1>4, <1>5 DEF Inv

LEMMA YieldInv == ASSUME Inv, Yield PROVE Inv'
<1> DEFINE n == Len(results) + 1
<1>1. /\ n \in Emails /\ Finished(n) /\ task[n] \in {"ok", "error"}
      /\ results' = Append(results, task[n]) /\ results \in Seq({"ok", "error"})
  BY SendBulkConfig DEF Inv, TypeOK, Yield, Emails, Finished
<1>2. results' \in Seq({"ok", "error"}) /\ Len(results') = n
      /\ \A k \in 1 .. n : results'[k] = IF k = n THEN task[n] ELSE results[k]
  BY <1>1
<1>3. TypeOK'
  BY <1>1, <1>2, SendBulkConfig DEF Inv, TypeOK, Yield, config, seen, Width
<1>4. Yielded'
  BY <1>1, <1>2 DEF Inv, Yielded, Yield, Finished
<1>5. \A k \in Emails : Counts(k)'
  BY DEF Inv, Yield, config, seen, Counts, CallMade
<1> QED BY <1>3, <1>4, <1>5 DEF Inv

(* A call that ended: `taken` copies accepted and `lost` answers lost.      *)
CallEnded(i, how, taken, lost) ==
  /\ task[i] = "calling"
  /\ UNCHANGED <<config, started, results, try>>
  /\ task' = [task EXCEPT ![i] = how]
  /\ accepted' = [accepted EXCEPT ![i] = @ + taken]
  /\ unanswered' = [unanswered EXCEPT ![i] = @ + lost]
  /\ how = "sleeping" => try[i] < RetryCount
  /\ how = "ok" => taken = 1
  /\ how # "ok" => taken <= lost
  /\ i \in invalid => taken = 0

LEMMA CallEnds ==
  ASSUME Inv, NEW i \in Emails, NEW how \in {"sleeping", "ok", "error"},
         NEW taken \in 0 .. 1, NEW lost \in 0 .. 1, CallEnded(i, how, taken, lost)
  PROVE  Inv'
<1>1. /\ task \in [Emails -> {"waiting", "calling", "sleeping", "ok", "error"}]
      /\ try \in [Emails -> 0 .. RetryCount]
      /\ accepted \in [Emails -> Nat] /\ unanswered \in [Emails -> Nat] /\ RetryCount \in Nat
  BY SendBulkConfig DEF Inv, TypeOK
<1>2. task'[i] = how /\ accepted'[i] = accepted[i] + taken /\ unanswered'[i] = unanswered[i] + lost
  BY <1>1 DEF CallEnded
<1>3. accepted'[i] \in Nat /\ unanswered'[i] \in Nat /\ try[i] \in Nat /\ accepted[i] \in Nat
      /\ unanswered[i] \in Nat
  BY <1>1, <1>2
<1>4. Counts(i)
  BY DEF Inv
<1>5. accepted[i] <= try[i] /\ accepted[i] <= unanswered[i]
  BY <1>4 DEF Counts, CallMade, CallEnded
<1>6. Counts(i)'
  BY <1>2, <1>3, <1>4, <1>5 DEF Counts, CallMade, CallEnded, config
<1>7. accepted' \in [Emails -> Nat] /\ unanswered' \in [Emails -> Nat]
  BY <1>1 DEF CallEnded
<1>8. \A k \in Emails \ {i} : accepted'[k] = accepted[k] /\ unanswered'[k] = unanswered[k]
  BY <1>1 DEF CallEnded
<1>9. /\ Running(i) /\ UNCHANGED <<config, started, results>>
      /\ task' = [task EXCEPT ![i] = how] /\ try' = try
  BY DEF CallEnded, Running
<1> QED BY <1>1, <1>6, <1>7, <1>8, <1>9, OneEmailSteps

LEMMA WakeInv == ASSUME Inv, NEW i \in Emails, Wake(i) PROVE Inv'
<1>1. /\ try \in [Emails -> 0 .. RetryCount] /\ RetryCount \in Nat
      /\ task \in [Emails -> {"waiting", "calling", "sleeping", "ok", "error"}]
      /\ accepted \in [Emails -> Nat] /\ unanswered \in [Emails -> Nat]
  BY SendBulkConfig DEF Inv, TypeOK
<1>2. try[i] < RetryCount /\ Counts(i)
  BY DEF Inv, Counts, Wake
<1>3. try' \in [Emails -> 0 .. RetryCount] /\ try'[i] = try[i] + 1 /\ task'[i] = "calling"
  BY <1>1, <1>2 DEF Wake
<1>4. Counts(i)'
  BY <1>1, <1>2, <1>3 DEF Counts, CallMade, Wake, config, seen
<1> QED BY <1>1, <1>3, <1>4, OneEmailSteps DEF Wake, Running, config, seen

LEMMA NextInv == ASSUME Inv, [Next]_vars PROVE Inv'
<1>1. CASE UNCHANGED vars
  BY <1>1 DEF vars, config, seen, Inv, TypeOK, Yielded, Counts, CallMade, Finished, Width
<1>2. CASE Start
  BY <1>2, StartInv
<1>3. CASE Yield
  BY <1>3, YieldInv
<1>4. ASSUME NEW i \in Emails, Wake(i) PROVE Inv'
  BY <1>4, WakeInv
<1>5. ASSUME NEW i \in Emails, task[i] = "calling" PROVE
        /\ accepted = [accepted EXCEPT ![i] = @ + 0]
        /\ unanswered = [unanswered EXCEPT ![i] = @ + 0]
  BY DEF Inv, TypeOK
<1>6. ASSUME NEW i \in Emails, Refused(i) PROVE Inv'
  <2>1. CallEnded(i, "error", 0, 0)
    BY <1>5, <1>6 DEF Refused, Ends, seen, CallEnded
  <2> QED BY <2>1, CallEnds
<1>7. ASSUME NEW i \in Emails, Success(i) PROVE Inv'
  <2>1. CallEnded(i, "ok", 1, 0)
    BY <1>5, <1>7 DEF Success, Ends, CallEnded
  <2> QED BY <2>1, CallEnds
<1>8. ASSUME NEW i \in Emails, Failure(i) PROVE Inv'
  <2>1. PICK how \in {"sleeping", "error"} : Ends(i, how) /\ (how = "sleeping" => try[i] < RetryCount)
    BY <1>8 DEF Failure, RetryOrGiveUp
  <2>2. CallEnded(i, how, 0, 0)
    BY <1>5, <1>8, <2>1 DEF Failure, Ends, seen, CallEnded
  <2> QED BY <2>2, CallEnds
<1>9. ASSUME NEW i \in Emails, AnswerLost(i) PROVE Inv'
  <2>1. PICK how \in {"sleeping", "error"} : Ends(i, how) /\ (how = "sleeping" => try[i] < RetryCount)
    BY <1>9 DEF AnswerLost, RetryOrGiveUp
  <2>2. PICK taken \in 0 .. 1 : accepted' = [accepted EXCEPT ![i] = @ + taken]
    BY <1>9 DEF AnswerLost
  <2>3. taken <= 1 /\ how # "ok"
    OBVIOUS
  <2>4. /\ task[i] = "calling" /\ i \notin invalid /\ UNCHANGED <<config, started, results>>
        /\ unanswered' = [unanswered EXCEPT ![i] = @ + 1]
    BY <1>9 DEF AnswerLost
  <2>5. CallEnded(i, how, taken, 1)
    BY <2>1, <2>2, <2>3, <2>4 DEF Ends, CallEnded
  <2> QED BY <2>5, CallEnds
<1> QED BY <1>1, <1>2, <1>3, <1>4, <1>6, <1>7, <1>8, <1>9 DEF Next, Answer

THEOREM InvCorrect == Spec => []Inv
<1>1. Inv /\ [Next]_vars => Inv'
  BY NextInv
<1> QED BY InitInv, <1>1, PTL DEF Spec

-----------------------------------------------------------------------------
(* The window never holds more than `concurrency` emails, whatever the      *)
(* concurrency, and the results are those of the first emails, in order.    *)
THEOREM BulkTypeCorrect == Spec => []TypeOK
<1>1. Inv => TypeOK
  BY DEF Inv
<1> QED BY InvCorrect, <1>1, PTL

(* A result says of its own email whether the provider accepted it.         *)
THEOREM ResultsTellTheTruthCorrect == Spec => []ResultsTellTheTruth
<1>1. ASSUME Inv PROVE ResultsTellTheTruth
  <2> SUFFICES ASSUME NEW i \in DOMAIN results
               PROVE  /\ results[i] = "ok" => accepted[i] >= 1
                      /\ results[i] = "error" /\ unanswered[i] = 0 => accepted[i] = 0
                      /\ i \in invalid => results[i] = "error" /\ accepted[i] = 0
    BY DEF ResultsTellTheTruth
  <2>1. i \in Emails /\ accepted[i] \in Nat
    BY <1>1, StartedSoFar DEF Inv, TypeOK
  <2>2. results[i] = task[i] /\ task[i] \in {"ok", "error"}
    BY <1>1 DEF Inv, Yielded, Finished
  <2>3. Counts(i)
    BY <1>1, <2>1 DEF Inv
  <2> QED BY <2>1, <2>2, <2>3 DEF Counts
<1> QED BY InvCorrect, <1>1, PTL

(* No email is accepted twice but for a lost answer, nor more often than    *)
(* retry_count allows attempts.                                            *)
THEOREM NoNeedlessCopyCorrect == Spec => []NoNeedlessCopy
<1>1. ASSUME Inv PROVE NoNeedlessCopy
  <2> SUFFICES ASSUME NEW i \in Emails
               PROVE  accepted[i] <= unanswered[i] + 1 /\ accepted[i] <= RetryCount + 1
    BY DEF NoNeedlessCopy
  <2>1. accepted[i] \in Nat /\ try[i] \in 0 .. RetryCount /\ RetryCount \in Nat
    BY <1>1, SendBulkConfig DEF Inv, TypeOK
  <2>2. Counts(i)
    BY <1>1 DEF Inv
  <2> QED BY <2>1, <2>2 DEF Counts
<1> QED BY InvCorrect, <1>1, PTL

(* At most `concurrency` sends are in flight at once.                       *)
THEOREM InFlightCorrect == Spec => []InFlightBound
<1>1. ASSUME Inv PROVE InFlightBound
  <2> DEFINE R == {i \in Emails : Running(i)}
             W == Len(results) + 1 .. started
  <2>1. Len(results) \in Nat /\ started \in Nat /\ Len(results) <= started
        /\ started - Len(results) <= Width /\ Width \in Nat
    BY <1>1, WidthPositive DEF Inv, TypeOK
  <2>2. R \subseteq W
    <3> SUFFICES ASSUME NEW i \in R PROVE i \in W
      OBVIOUS
    <3>1. i \in Emails /\ Running(i) /\ i \in Int /\ i >= 1
      BY SendBulkConfig DEF Emails
    <3>2. i <= started
      BY <1>1, <2>1, <3>1 DEF Inv, TypeOK, Running
    <3>3. i \notin DOMAIN results
      BY <1>1, <3>1 DEF Inv, Yielded, Running, Finished
    <3>4. i > Len(results)
      BY <1>1, <2>1, <3>1, <3>3 DEF Inv, TypeOK
    <3> QED BY <2>1, <3>1, <3>2, <3>4
  <2>3. IsFiniteSet(W) /\ Cardinality(W) <= Width
    <3>1. /\ IsFiniteSet(W)
          /\ Cardinality(W) = IF Len(results) + 1 > started THEN 0
                              ELSE started - (Len(results) + 1) + 1
      BY <2>1, FS_Interval, Len(results) + 1 \in Int, started \in Int
    <3> HIDE DEF W
    <3> QED BY <2>1, <3>1
  <2>4. Cardinality(R) <= Cardinality(W) /\ IsFiniteSet(R)
    <3> HIDE DEF R, W
    <3> QED BY <2>2, <2>3, FS_Subset
  <2>5. Cardinality(R) \in Nat /\ Cardinality(W) \in Nat
    BY <2>3, <2>4, FS_CardinalityType
  <2> HIDE DEF R, W
  <2>6. Cardinality(R) <= Width
    BY <2>1, <2>3, <2>4, <2>5
  <2> QED BY <2>6 DEF InFlightBound, R
<1> QED BY InvCorrect, <1>1, PTL
=============================================================================
