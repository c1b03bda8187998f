---------------------------- MODULE JobSendProofs ----------------------------
(* What JobSend guarantees of one email for every configuration, transport   *)
(* and provider: types, the bound on calls, no call after a refusal, no      *)
(* retry given away, and waits kept unless job_timeout cuts them.            *)
EXTENDS JobSend, TLAPS

-----------------------------------------------------------------------------
(* Arithmetic: the calls of one more attempt, and of fewer attempts. *)
LEMMA OneMoreAttempt ==
  ASSUME NEW a \in Nat, NEW k \in Nat
  PROVE  (a + 1) * k = a * k + k /\ a * k \in Nat
  OBVIOUS

LEMMA FewerAttempts ==
  ASSUME NEW a \in Nat, NEW b \in Nat, NEW k \in Nat, a <= b
  PROVE  a * k <= b * k
  OBVIOUS

-----------------------------------------------------------------------------
(* The errors a send ends in, and the waits they ask for. *)

Errors == [kind : {"smtp", "timeout", "network"}]
          \cup [kind : {"rate_limited"}, secs : Nat] \cup [kind : {"provider"}, status : Nat]

LEMMA ErrorTypes ==
  ASSUME TypeOK, NEW e \in NoResponse \cup {Timeout}
  PROVE  e \in Errors /\ IsRetryable(e) /\ ~HasRetryAfter(e)
<1>1. e \in {Smtp, Network, Timeout}
  BY DEF NoResponse, TypeOK
<1> QED BY <1>1 DEF Errors, Smtp, Network, Timeout, IsRetryable, HasRetryAfter

(* A final answer of the provider is a refusal. *)
LEMMA AnswerTypes ==
  ASSUME NEW status \in Statuses, NEW after \in RetryAfters
  PROVE  /\ ErrorOf(status, after) \in Errors
         /\ ~IsRetryable(ErrorOf(status, after))
              => transport # "smtp" /\ status < 500 /\ status \notin {408, 429}
         /\ IsRetryable(ErrorOf(status, after))
              => ~(transport # "smtp" /\ status < 500 /\ status \notin {408, 429})
<1>1. status \in Nat /\ (after = NoHeader \/ after \in Nat) /\ DefaultRetryAfter \in Nat
  BY JobSendConfig
<1> QED BY <1>1 DEF Errors, ErrorOf, Smtp, RateLimited, Provider, IsRetryable

LEMMA BackoffFacts ==
  ASSUME NEW n \in 0 .. MaxRetries, NEW e \in Errors
  PROVE  /\ CalculateBackoff(n, e) \in Nat
         /\ \/ CalculateBackoff(n, e) <= MaxServerRetryAfter
            \/ CalculateBackoff(n, e) <= MaxRetryDelay
         /\ HasRetryAfter(e) => CalculateBackoff(n, e) = Least(e.secs, MaxServerRetryAfter)
<1>1. RetryDelay * 2 ^ n \in Nat
  BY PowersAssumption, JobSendConfig
<1>2. HasRetryAfter(e) => e.secs \in Nat
  BY DEF Errors, HasRetryAfter
<1> QED BY <1>1, <1>2, JobSendConfig DEF CalculateBackoff, Least

LEMMA WaitFacts ==
  ASSUME NEW e \in Errors
  PROVE  /\ MailerWait(e) \in Nat
         /\ HasRetryAfter(e) => /\ Least(e.secs, MaxServerRetryAfter) \in Nat
                                /\ Least(e.secs, MaxServerRetryAfter) <= MailerWait(e)
<1>1. HasRetryAfter(e) => e.secs \in Nat
  BY DEF Errors, HasRetryAfter
<1> QED BY <1>1, JobSendConfig DEF MailerWait, Least

-----------------------------------------------------------------------------
(* The inductive invariant, in three parts.                                  *)

(* Calls are counted by attempt and try, and an unanswered one is a call.    *)
CallInv ==
  /\ unanswered <= calls
  /\ phase = "calling" => unanswered < calls
  /\ phase = "queued" => calls <= attempts * (RetryCount + 1)
  /\ phase # "queued" => calls <= attempts * (RetryCount + 1) + try + 1
  /\ phase = "sleeping" => try < RetryCount

(* A refused message has failed, and only its attempts end any other.        *)
EndInv ==
  /\ rejected => phase = "failed"
  /\ phase = "failed" /\ ~rejected => attempts = MaxRetries

(* Whatever the job waits for comes after the provider's wait.               *)
WaitInv ==
  ~cutShort => /\ phase = "queued" => openAt <= due
               /\ phase = "sleeping" => openAt <= wake
               /\ phase = "calling" => openAt <= clock

SendInv == TypeOK /\ CallInv /\ EndInv /\ WaitInv

LEMMA SendInit == Init => SendInv
<1>1. 0 * (RetryCount + 1) = 0
  BY JobSendConfig
<1>2. Init => TypeOK
  <2>1. Init => rejected \in BOOLEAN /\ cutShort \in BOOLEAN
    BY Zenon DEF Init
  <2> QED BY <2>1, JobSendConfig DEF Init, TypeOK
<1>3. Init => CallInv
  BY <1>1 DEF Init, CallInv
<1>4. Init => EndInv /\ WaitInv
  BY DEF Init, EndInv, WaitInv
<1> QED BY <1>2, <1>3, <1>4 DEF SendInv

(* What a failed send does to the job. *)
LEMMA FailsFacts ==
  ASSUME TypeOK, NEW e \in Errors, Fails(e)
  PROVE  \/ /\ IsRetryable(e) /\ attempts' = attempts + 1 /\ attempts' \in 0 .. MaxRetries
            /\ phase' = "queued" /\ due' \in Nat /\ due' >= clock
            /\ \/ due' <= clock + MaxServerRetryAfter \/ due' <= clock + MaxRetryDelay
            /\ HasRetryAfter(e) => due' = clock + Least(e.secs, MaxServerRetryAfter)
         \/ /\ IsRetryable(e) => attempts = MaxRetries
            /\ phase' = "failed" /\ UNCHANGED <<attempts, due>>
<1>1. /\ clock \in Nat /\ attempts \in 0 .. MaxRetries /\ MaxRetries \in Nat
      /\ MaxServerRetryAfter \in Nat /\ MaxRetryDelay \in Nat
  BY JobSendConfig DEF TypeOK
<1>2. CalculateBackoff(attempts, e) \in Nat
      /\ (\/ CalculateBackoff(attempts, e) <= MaxServerRetryAfter
          \/ CalculateBackoff(attempts, e) <= MaxRetryDelay)
      /\ (HasRetryAfter(e) => CalculateBackoff(attempts, e) = Least(e.secs, MaxServerRetryAfter))
  BY <1>1, BackoffFacts
<1> QED BY <1>1, <1>2 DEF Fails, ShouldRetry

(* What a report of the transport does: an attempt or a try is spent, or the *)
(* job fails.                                                                *)
LEMMA ReportsType ==
  ASSUME TypeOK, phase = "calling", NEW e \in Errors, Reports(e)
  PROVE  /\ phase' \in {"queued", "sleeping", "failed"}
         /\ attempts' \in 0 .. MaxRetries /\ try' \in 0 .. RetryCount
         /\ due' \in Nat /\ wake' \in Nat /\ started' \in Nat
<1>1. MailerWait(e) \in Nat
  BY WaitFacts
<1>2. CASE phase' = "sleeping" /\ wake' = clock + MailerWait(e) /\ UNCHANGED <<attempts, due, try, started>>
  BY <1>1, <1>2 DEF TypeOK
<1>3. CASE Fails(e) /\ UNCHANGED mailer
  BY <1>3, FailsFacts DEF TypeOK, mailer
<1> QED BY <1>2, <1>3 DEF Reports

LEMMA SendTypeStep == ASSUME TypeOK, CallInv, [Next]_vars PROVE TypeOK'
<1>0. /\ MaxClock \in Nat /\ RetryCount \in Nat /\ JobTimeout \in Nat /\ MaxServerRetryAfter \in Nat
      /\ transport' = transport
  BY JobSendConfig DEF Next, vars
<1> USE DEF TypeOK
<1>1. CASE Pop
  BY <1>0, <1>1 DEF Pop, Calls
<1>2. CASE Retry
  <2>1. try < RetryCount
    BY <1>2 DEF Retry, CallInv
  <2> QED BY <1>0, <1>2, <2>1 DEF Retry, Calls
<1>3. ASSUME NEW status \in Statuses, Success(status) PROVE TypeOK'
  BY <1>0, <1>3 DEF Success, mailer, provider
<1>4. ASSUME NEW status \in Statuses, NEW after \in RetryAfters, Failure(status, after)
      PROVE  TypeOK'
  <2> DEFINE e == ErrorOf(status, after)
  <2>1. e \in Errors
    BY AnswerTypes
  <2>2. phase = "calling" /\ Reports(e)
    BY <1>4 DEF Failure
  <2>3. rejected' \in BOOLEAN /\ cutShort' \in BOOLEAN
    BY <1>4, Zenon DEF Failure
  <2>4. openAt' \in Nat
    BY <1>4, <2>1, WaitFacts DEF Failure
  <2>5. UNCHANGED <<clock, calls, unanswered>>
    BY <1>4 DEF Failure
  <2> QED BY <1>0, <2>1, <2>2, <2>3, <2>4, <2>5, ReportsType
<1>5. CASE Disconnect
  <2>1. PICK e \in NoResponse : Reports(e)
    BY <1>5 DEF Disconnect
  <2>2. e \in Errors
    BY ErrorTypes
  <2>3. phase = "calling" /\ unanswered' = unanswered + 1
        /\ UNCHANGED <<clock, calls, rejected, openAt, cutShort>>
    BY <1>5 DEF Disconnect
  <2> QED BY <1>0, <2>1, <2>2, <2>3, ReportsType
<1>6. CASE JobTimesOut
  <2>1. Fails(Timeout) /\ Timeout \in Errors
    BY <1>6, ErrorTypes DEF JobTimesOut
  <2>2. cutShort' \in BOOLEAN /\ UNCHANGED rejected
    BY <1>6, Zenon DEF JobTimesOut
  <2>3. unanswered' \in Nat /\ UNCHANGED <<clock, try, wake, started, calls, openAt>>
    BY <1>6 DEF JobTimesOut, mailer
  <2> QED BY <1>0, <2>1, <2>2, <2>3, FailsFacts
<1>7. CASE Tick
  BY <1>0, <1>7 DEF Tick, job, mailer, provider
<1>8. CASE UNCHANGED vars
  BY <1>8 DEF vars, job, mailer, provider
<1> QED BY <1>1, <1>2, <1>3, <1>4, <1>5, <1>6, <1>7, <1>8 DEF Next

(* The same, with the way the try ended. *)
LEMMA ReportsFacts ==
  ASSUME TypeOK, NEW e \in Errors, Reports(e)
  PROVE  \/ /\ phase' = "sleeping" /\ IsRetryable(e) /\ try < RetryCount
            /\ wake' = clock + MailerWait(e) /\ UNCHANGED <<attempts, due, try>>
         \/ /\ phase' = "queued" /\ IsRetryable(e) /\ attempts' = attempts + 1
            /\ due' \in Nat /\ due' >= clock
            /\ \/ due' <= clock + MaxServerRetryAfter \/ due' <= clock + MaxRetryDelay
            /\ HasRetryAfter(e) => due' = clock + Least(e.secs, MaxServerRetryAfter)
         \/ /\ phase' = "failed" /\ UNCHANGED <<attempts, try>>
            /\ IsRetryable(e) => attempts = MaxRetries
<1>1. CASE Fails(e) /\ UNCHANGED mailer
  BY <1>1, FailsFacts DEF mailer
<1> QED BY <1>1 DEF Reports

(* The calls so far are within those of the attempts begun, whatever the     *)
(* send ends in.                                                             *)
LEMMA SpentAttempt ==
  ASSUME TypeOK, CallInv, phase \in {"calling", "sleeping"},
         UNCHANGED calls, unanswered' \in Nat, unanswered' <= calls,
         \/ phase' = "sleeping" /\ try < RetryCount /\ UNCHANGED <<attempts, try>>
         \/ phase' = "queued" /\ attempts' = attempts + 1
         \/ phase' = "failed" /\ UNCHANGED <<attempts, try>>
  PROVE  CallInv'
<1>0. /\ RetryCount \in Nat /\ attempts \in Nat /\ try \in 0 .. RetryCount
      /\ calls \in Nat /\ calls <= attempts * (RetryCount + 1) + try + 1
  BY JobSendConfig DEF TypeOK, CallInv
<1>1. CASE phase' = "queued" /\ attempts' = attempts + 1
  <2>1. /\ (attempts + 1) * (RetryCount + 1) = attempts * (RetryCount + 1) + (RetryCount + 1)
        /\ attempts * (RetryCount + 1) \in Nat
    BY <1>0, OneMoreAttempt
  <2>2. attempts' * (RetryCount + 1) = attempts * (RetryCount + 1) + (RetryCount + 1)
    BY <1>1, <2>1
  <2>3. calls' <= attempts' * (RetryCount + 1)
    BY <1>0, <2>1, <2>2
  <2> QED BY <1>1, <2>3 DEF CallInv
<1>2. CASE phase' \in {"sleeping", "failed"} /\ (phase' = "sleeping" => try < RetryCount)
           /\ UNCHANGED <<attempts, try>>
  <2>1. calls' <= attempts' * (RetryCount + 1) + try' + 1
    BY <1>0, <1>2
  <2> QED BY <1>2, <2>1 DEF CallInv
<1> QED BY <1>1, <1>2

LEMMA CallStep == ASSUME TypeOK, CallInv, [Next]_vars PROVE CallInv'
<1>0. /\ RetryCount \in Nat /\ attempts \in Nat /\ try \in 0 .. RetryCount
      /\ calls \in Nat /\ unanswered \in Nat
  BY JobSendConfig DEF TypeOK
<1>1. /\ (attempts + 1) * (RetryCount + 1) = attempts * (RetryCount + 1) + (RetryCount + 1)
      /\ attempts * (RetryCount + 1) \in Nat
  BY <1>0, OneMoreAttempt
<1>2. CASE Pop
  BY <1>0, <1>1, <1>2 DEF Pop, Calls, CallInv
<1>3. CASE Retry
  <2>1. /\ phase = "sleeping" /\ phase' = "calling" /\ try' = try + 1 /\ calls' = calls + 1
        /\ UNCHANGED <<attempts, unanswered>>
    BY <1>3 DEF Retry, Calls
  <2> QED BY <1>0, <1>1, <2>1 DEF CallInv
<1>4. ASSUME NEW status \in Statuses, Success(status) PROVE CallInv'
  BY <1>0, <1>1, <1>4 DEF Success, mailer, provider, CallInv
<1>5. ASSUME NEW status \in Statuses, NEW after \in RetryAfters, Failure(status, after)
      PROVE  CallInv'
  <2> DEFINE e == ErrorOf(status, after)
  <2>1. e \in Errors
    BY AnswerTypes
  <2>2. phase = "calling" /\ Reports(e) /\ UNCHANGED <<calls, unanswered>>
    BY <1>5 DEF Failure
  <2> HIDE DEF e
  <2>3. \/ phase' = "sleeping" /\ try < RetryCount /\ UNCHANGED <<attempts, try>>
        \/ phase' = "queued" /\ attempts' = attempts + 1
        \/ phase' = "failed" /\ UNCHANGED <<attempts, try>>
    BY <2>1, <2>2, ReportsFacts
  <2> QED BY <1>0, <2>2, <2>3, SpentAttempt DEF CallInv
<1>6. CASE Disconnect
  <2>1. PICK e \in NoResponse : Reports(e)
    BY <1>6 DEF Disconnect
  <2>2. e \in Errors
    BY ErrorTypes
  <2>3. phase = "calling" /\ unanswered' = unanswered + 1 /\ UNCHANGED calls
    BY <1>6 DEF Disconnect
  <2>4. \/ phase' = "sleeping" /\ try < RetryCount /\ UNCHANGED <<attempts, try>>
        \/ phase' = "queued" /\ attempts' = attempts + 1
        \/ phase' = "failed" /\ UNCHANGED <<attempts, try>>
    BY <2>1, <2>2, ReportsFacts
  <2>5. unanswered' \in Nat /\ unanswered' <= calls
    BY <1>0, <2>3 DEF CallInv
  <2> QED BY <2>3, <2>4, <2>5, SpentAttempt
<1>7. CASE JobTimesOut
  <2>1. Fails(Timeout) /\ Timeout \in Errors
    BY <1>7, ErrorTypes DEF JobTimesOut
  <2>2. /\ phase \in {"calling", "sleeping"} /\ UNCHANGED <<try, calls>>
        /\ phase = "calling" => unanswered' = unanswered + 1
        /\ phase = "sleeping" => UNCHANGED unanswered
    BY <1>7 DEF JobTimesOut, mailer
  <2>3. \/ phase' = "sleeping" /\ try < RetryCount /\ UNCHANGED <<attempts, try>>
        \/ phase' = "queued" /\ attempts' = attempts + 1
        \/ phase' = "failed" /\ UNCHANGED <<attempts, try>>
    BY <2>1, <2>2, FailsFacts
  <2>4. unanswered' \in Nat /\ unanswered' <= calls
    BY <1>0, <2>2 DEF CallInv
  <2> QED BY <2>2, <2>3, <2>4, SpentAttempt
<1>8. CASE Tick
  BY <1>0, <1>1, <1>8 DEF Tick, job, mailer, provider, CallInv
<1>9. CASE UNCHANGED vars
  BY <1>0, <1>1, <1>9 DEF vars, job, mailer, provider, CallInv
<1> QED BY <1>2, <1>3, <1>4, <1>5, <1>6, <1>7, <1>8, <1>9 DEF Next

LEMMA EndStep == ASSUME TypeOK, EndInv, [Next]_vars PROVE EndInv'
<1> USE DEF EndInv
<1>1. CASE Pop
  BY <1>1, Zenon DEF Pop
<1>2. CASE Retry
  BY <1>2, Zenon DEF Retry
<1>3. ASSUME NEW status \in Statuses, Success(status) PROVE EndInv'
  BY <1>3 DEF Success, provider
<1>4. ASSUME NEW status \in Statuses, NEW after \in RetryAfters, Failure(status, after)
      PROVE  EndInv'
  <2> DEFINE e == ErrorOf(status, after)
             refused == transport # "smtp" /\ status < 500 /\ status \notin {408, 429}
  <2>1. e \in Errors /\ (IsRetryable(e) <=> ~refused)
    BY AnswerTypes
  <2>2. phase = "calling" /\ Reports(e) /\ rejected' = (rejected \/ refused)
    BY <1>4, Zenon DEF Failure
  <2> HIDE DEF e, refused
  <2>3. \/ phase' \in {"sleeping", "queued"} /\ IsRetryable(e)
        \/ phase' = "failed" /\ (IsRetryable(e) => attempts' = MaxRetries)
    BY <2>1, <2>2, ReportsFacts
  <2>4. ~rejected
    BY <2>2
  <2>5. rejected' <=> refused
    BY <2>2, <2>4
  <2> QED BY <2>1, <2>3, <2>5
<1>5. CASE Disconnect
  <2>1. PICK e \in NoResponse : Reports(e)
    BY <1>5 DEF Disconnect
  <2>2. e \in Errors /\ IsRetryable(e)
    BY ErrorTypes
  <2>3. phase = "calling" /\ UNCHANGED rejected
    BY <1>5 DEF Disconnect
  <2>4. phase' \in {"sleeping", "queued"} \/ (phase' = "failed" /\ attempts' = MaxRetries)
    BY <2>1, <2>2, ReportsFacts
  <2> QED BY <2>3, <2>4
<1>6. CASE JobTimesOut
  <2>1. Fails(Timeout) /\ Timeout \in Errors /\ IsRetryable(Timeout)
    BY <1>6, ErrorTypes DEF JobTimesOut
  <2>2. phase # "failed" /\ UNCHANGED rejected
    BY <1>6 DEF JobTimesOut
  <2>3. phase' = "queued" \/ (phase' = "failed" /\ attempts' = MaxRetries)
    BY <2>1, FailsFacts
  <2> QED BY <2>2, <2>3
<1>7. CASE Tick
  BY <1>7 DEF Tick, job, provider
<1>8. CASE UNCHANGED vars
  BY <1>8 DEF vars, job, provider
<1> QED BY <1>1, <1>2, <1>3, <1>4, <1>5, <1>6, <1>7, <1>8 DEF Next

LEMMA WaitStep == ASSUME TypeOK, WaitInv, [Next]_vars PROVE WaitInv'
<1>0. /\ clock \in Nat /\ due \in Nat /\ wake \in Nat /\ openAt \in Nat
  BY JobSendConfig DEF TypeOK
<1> USE DEF WaitInv
<1>1. CASE Pop
  BY <1>0, <1>1 DEF Pop
<1>2. CASE Retry
  BY <1>0, <1>2 DEF Retry
<1>3. ASSUME NEW status \in Statuses, Success(status) PROVE WaitInv'
  BY <1>3 DEF Success, provider
<1>4. ASSUME NEW status \in Statuses, NEW after \in RetryAfters, Failure(status, after)
      PROVE  WaitInv'
  <2> DEFINE e == ErrorOf(status, after)
  <2>1. e \in Errors
    BY AnswerTypes
  <2>2. /\ phase = "calling" /\ Reports(e) /\ UNCHANGED <<clock, cutShort>>
        /\ HasRetryAfter(e) => openAt' = clock + Least(e.secs, MaxServerRetryAfter)
        /\ ~HasRetryAfter(e) => openAt' = openAt
    BY <1>4 DEF Failure
  <2> HIDE DEF e
  <2>3. /\ MailerWait(e) \in Nat
        /\ HasRetryAfter(e) => Least(e.secs, MaxServerRetryAfter) \in Nat
                               /\ Least(e.secs, MaxServerRetryAfter) <= MailerWait(e)
    BY <2>1, WaitFacts
  <2>4. CASE phase' = "sleeping" /\ wake' = clock + MailerWait(e)
    BY <1>0, <2>2, <2>3, <2>4
  <2>5. CASE /\ phase' = "queued" /\ due' \in Nat /\ due' >= clock
             /\ HasRetryAfter(e) => due' = clock + Least(e.secs, MaxServerRetryAfter)
    BY <1>0, <2>2, <2>3, <2>5
  <2>6. CASE phase' = "failed"
    BY <2>6
  <2> QED BY <2>1, <2>2, <2>4, <2>5, <2>6, ReportsFacts
<1>5. CASE Disconnect
  <2>1. PICK e \in NoResponse : Reports(e)
    BY <1>5 DEF Disconnect
  <2>2. e \in Errors
    BY ErrorTypes
  <2>3. phase = "calling" /\ UNCHANGED <<clock, openAt, cutShort>>
    BY <1>5 DEF Disconnect
  <2>4. MailerWait(e) \in Nat
    BY <2>2, WaitFacts
  <2>5. \/ phase' = "sleeping" /\ wake' = clock + MailerWait(e)
        \/ phase' = "queued" /\ due' \in Nat /\ due' >= clock
        \/ phase' = "failed"
    BY <2>1, <2>2, ReportsFacts
  <2> QED BY <1>0, <2>3, <2>4, <2>5
<1>6. CASE JobTimesOut
  <2>1. Fails(Timeout) /\ Timeout \in Errors
    BY <1>6, ErrorTypes DEF JobTimesOut
  <2>2. (phase' = "queued" /\ due' \in Nat /\ due' >= clock) \/ phase' = "failed"
    BY <2>1, FailsFacts
  <2>3. phase \in {"calling", "sleeping"} /\ UNCHANGED <<clock, openAt>>
    BY <1>6 DEF JobTimesOut
  <2>4. CASE phase = "calling"
    <3>1. UNCHANGED cutShort
      BY <1>6, <2>4 DEF JobTimesOut
    <3> QED BY <1>0, <2>2, <2>3, <2>4, <3>1
  <2>5. CASE phase = "sleeping"
    <3>1. cutShort' = (cutShort \/ openAt > clock)
      BY <1>6, <2>5, Zenon DEF JobTimesOut
    <3>2. ~cutShort' => ~cutShort /\ ~(openAt > clock)
      BY <3>1, Zenon
    <3> QED BY <1>0, <2>2, <2>3, <3>2
  <2> QED BY <2>3, <2>4, <2>5
<1>7. CASE Tick
  BY <1>0, <1>7 DEF Tick, job, mailer, provider
<1>8. CASE UNCHANGED vars
  BY <1>8 DEF vars, job, mailer, provider
<1> QED BY <1>1, <1>2, <1>3, <1>4, <1>5, <1>6, <1>7, <1>8 DEF Next

LEMMA SendInvariant == Spec => []SendInv
<1>1. SendInv /\ [Next]_vars => SendInv'
  BY SendTypeStep, CallStep, EndStep, WaitStep DEF SendInv
<1> QED BY SendInit, <1>1, PTL DEF Spec

-----------------------------------------------------------------------------
(* The theorems. *)

(* Neither retry loop counts past its limit: EmailJob::attempts stays within *)
(* max_retries and send_with_retry's attempt within retry_count.             *)
THEOREM SendTypeCorrect == Spec => []TypeOK
<1>1. SendInv => TypeOK
  BY DEF SendInv
<1> QED BY SendInvariant, <1>1, PTL

(* One email costs its provider at most (max_retries + 1) * (retry_count + 1) *)
(* calls, however process_one_job and send_with_retry nest their retries.     *)
THEOREM CallBoundCorrect == Spec => []CallBound
<1>1. SendInv => CallBound
  <2> SUFFICES ASSUME SendInv PROVE CallBound
    OBVIOUS
  <2> DEFINE k == RetryCount + 1
  <2>1. /\ k \in Nat /\ attempts + 1 \in Nat /\ attempts + 1 <= MaxRetries + 1
        /\ MaxRetries + 1 \in Nat /\ attempts \in Nat
    BY JobSendConfig DEF SendInv, TypeOK
  <2>2. (attempts + 1) * k = attempts * k + k /\ attempts * k \in Nat
    BY <2>1, OneMoreAttempt
  <2>3. attempts * k + k <= (MaxRetries + 1) * k
    BY <2>1, <2>2, FewerAttempts
  <2>4. calls \in Nat /\ calls <= attempts * k + k
    BY <2>2, JobSendConfig DEF SendInv, TypeOK, CallInv
  <2>5. (MaxRetries + 1) * k \in Nat
    BY <2>1, OneMoreAttempt
  <2> HIDE DEF k
  <2>6. calls <= (MaxRetries + 1) * k
    BY <2>1, <2>2, <2>3, <2>4, <2>5
  <2> QED BY <2>6 DEF CallBound, SendInv, CallInv, k
<1> QED BY SendInvariant, <1>1, PTL

(* The worker gives an email up before max_retries only when the provider    *)
(* has refused it with an answer that is_retryable calls final.              *)
THEOREM EveryRetryUsedCorrect == Spec => []EveryRetryUsed
<1>1. SendInv => EveryRetryUsed
  BY DEF SendInv, EndInv, EveryRetryUsed
<1> QED BY SendInvariant, <1>1, PTL

LEMMA CallsOnlyByTries ==
  ASSUME [Next]_vars
  PROVE  Pop \/ Retry \/ UNCHANGED calls
<1>1. ASSUME NEW status \in Statuses, Success(status) PROVE UNCHANGED calls
  BY <1>1 DEF Success, provider
<1>2. ASSUME NEW status \in Statuses, NEW after \in RetryAfters, Failure(status, after)
      PROVE  UNCHANGED calls
  BY <1>2 DEF Failure
<1>3. Disconnect \/ JobTimesOut => UNCHANGED calls
  BY DEF Disconnect, JobTimesOut
<1>4. Tick \/ UNCHANGED vars => UNCHANGED calls
  BY DEF Tick, provider, vars
<1> QED BY <1>1, <1>2, <1>3, <1>4 DEF Next

(* After an answer that refuses the message neither send_with_retry nor      *)
(* process_one_job calls the provider again.                                 *)
THEOREM NoCallAfterRejectionCorrect == Spec => NoCallAfterRejection
<1>1. SendInv /\ [Next]_vars => [rejected => UNCHANGED calls]_vars
  <2> SUFFICES ASSUME SendInv, [Next]_vars, rejected PROVE UNCHANGED calls
    OBVIOUS
  <2>1. phase = "failed"
    BY DEF SendInv, EndInv
  <2>2. ~Pop /\ ~Retry
    BY <2>1 DEF Pop, Retry
  <2> QED BY <2>2, CallsOnlyByTries
<1> QED BY SendInvariant, <1>1, PTL DEF Spec, NoCallAfterRejection

(* A Retry-After is waited for in either loop, unless job_timeout has cut a  *)
(* wait short: calculate_backoff and the mailer's sleep never come first.    *)
THEOREM WaitsAsAskedCorrect == Spec => WaitsAsAsked
<1>1. SendInv /\ [Next]_vars => [calls' # calls /\ clock < openAt => cutShort]_vars
  <2> SUFFICES ASSUME SendInv, [Next]_vars, calls' # calls, clock < openAt, ~cutShort
               PROVE  FALSE
    BY Zenon
  <2>1. /\ clock \in Nat /\ openAt \in Nat /\ due \in Nat /\ wake \in Nat
        /\ phase = "queued" => openAt <= due
        /\ phase = "sleeping" => openAt <= wake
    BY JobSendConfig DEF SendInv, TypeOK, WaitInv
  <2>2. Pop \/ Retry
    BY CallsOnlyByTries
  <2>3. CASE Pop
    BY <2>1, <2>3 DEF Pop
  <2>4. CASE Retry
    BY <2>1, <2>4 DEF Retry
  <2> QED BY <2>2, <2>3, <2>4
<1> QED BY SendInvariant, <1>1, PTL DEF Spec, WaitsAsAsked

(* A failed job is due again within MAX_SERVER_RETRY_AFTER or                *)
(* max_retry_delay, whatever the provider asked for.                         *)
THEOREM NotParkedCorrect == Spec => NotParked
<1> DEFINE Soon == phase # "queued" /\ phase' = "queued" =>
                     \/ due' <= clock + MaxServerRetryAfter \/ due' <= clock + MaxRetryDelay
<1>1. SendInv /\ [Next]_vars => [Soon]_vars
  <2> SUFFICES ASSUME TypeOK, Next PROVE Soon
    BY DEF SendInv
  <2>1. ASSUME NEW status \in Statuses, NEW after \in RetryAfters, Failure(status, after)
        PROVE  Soon
    <3>1. ErrorOf(status, after) \in Errors /\ Reports(ErrorOf(status, after))
      BY <2>1, AnswerTypes DEF Failure
    <3> QED BY <3>1, ReportsFacts
  <2>2. CASE Disconnect
    <3>1. PICK e \in NoResponse : Reports(e)
      BY <2>2 DEF Disconnect
    <3>2. e \in Errors
      BY ErrorTypes
    <3> QED BY <3>1, <3>2, ReportsFacts
  <2>3. CASE JobTimesOut
    <3>1. Fails(Timeout) /\ Timeout \in Errors
      BY <2>3, ErrorTypes DEF JobTimesOut
    <3> QED BY <3>1, FailsFacts
  <2>4. ASSUME Pop \/ Retry \/ (\E status \in Statuses : Success(status)) PROVE Soon
    BY <2>4 DEF Pop, Retry, Success
  <2>5. CASE Tick
    BY <2>5 DEF Tick, job
  <2> QED BY <2>1, <2>2, <2>3, <2>4, <2>5 DEF Next
<1> QED BY SendInvariant, <1>1, PTL DEF Spec, NotParked
=============================================================================
