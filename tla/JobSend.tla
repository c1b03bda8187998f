------------------------------- MODULE JobSend -------------------------------
(***************************************************************************)
(* One queued email and its provider: process_one_job and calculate_backoff *)
(* of src/src/queue.rs around Mailer::send_with_retry of src/src/mailer.rs, *)
(* the answers of a transport and MailError's classification of them.       *)
(* Two retry loops are nested here, and job_timeout cuts the inner one.     *)
(* The backend is reduced to when the job may be popped again; the email is *)
(* one every transport accepts to send.                                    *)
(***************************************************************************)
EXTENDS Integers

CONSTANTS
  MaxRetries,          \* EmailJob::max_retries
  RetryCount,          \* MailerConfig::retry_count
  MailerDelay,         \* MailerConfig::retry_delay
  RetryDelay, MaxRetryDelay, JobTimeout,   \* EmailQueueConfig
  MaxServerRetryAfter,
  Statuses,            \* the provider's reply codes
  RetryAfters,         \* Retry-After values it sends; NoHeader for none
  NoHeader, DefaultRetryAfter,
  MaxClock             \* bound on the clock

ASSUME JobSendConfig ==
  /\ MaxRetries \in Nat /\ RetryCount \in Nat /\ MailerDelay \in Nat
  /\ RetryDelay \in Nat /\ MaxRetryDelay \in Nat /\ JobTimeout \in Nat
  /\ MaxServerRetryAfter \in Nat /\ DefaultRetryAfter \in Nat
  /\ Statuses \subseteq Nat /\ NoHeader \notin Nat
  /\ RetryAfters \subseteq Nat \cup {NoHeader} /\ MaxClock \in Nat

(* A fact of arithmetic, stated for the provers, which have no theory of ^. *)
ASSUME PowersAssumption == \A n \in 0 .. MaxRetries : 2 ^ n \in Nat

VARIABLES
  transport,   \* of the Mailer: "http" (SendGrid, Mailgun), "ses" or "smtp"
  clock,
  phase,       \* "queued", "calling", "sleeping", or how the job ended
  attempts,    \* EmailJob::attempts
  due,         \* EmailJob::next_retry_at
  try,         \* send_with_retry's attempt
  wake,        \* when its sleep is over
  started,     \* when process_one_job began to send
  \* history: what the provider saw
  calls,       \* calls of the transport
  unanswered,  \* those that got no answer: the email may have been accepted
  rejected,    \* an HTTP answer below 500, 408 and 429 excepted, refused it
  openAt,      \* when its Retry-After is over
  cutShort     \* job_timeout cut a wait for it

job      == <<phase, attempts, due>>
mailer   == <<try, wake, started>>
provider == <<calls, unanswered, rejected, openAt, cutShort>>
vars     == <<transport, clock, job, mailer, provider>>

Least(a, b) == IF a <= b THEN a ELSE b

-----------------------------------------------------------------------------
(* Errors, with what their classification looks at. *)

Smtp              == [kind |-> "smtp"]
Timeout           == [kind |-> "timeout"]
Network           == [kind |-> "network"]
RateLimited(secs) == [kind |-> "rate_limited", secs |-> secs]
Provider(status)  == [kind |-> "provider", status |-> status]

Accepts(status) == status \in 200 .. 299

(* Only the HTTP transports tell of Retry-After; lettre's errors keep no    *)
(* code.                                                                   *)
ErrorOf(status, after) ==
  IF transport = "smtp" THEN Smtp
  ELSE IF transport = "http" /\ status = 429
    THEN RateLimited(IF after = NoHeader THEN DefaultRetryAfter ELSE after)
    ELSE Provider(status)

(* What a request without a response ends in. *)
NoResponse ==
  CASE transport = "smtp" -> {Smtp}
    [] transport = "http" -> {Network}
    [] transport = "ses"  -> {Network, Timeout}

(* A bug: every failure of a provider is retried. *)
RetriesAll(e) == TRUE

IsRetryable(e) ==
  \/ e.kind \in {"smtp", "timeout", "network", "rate_limited"}
  \/ e.kind = "provider" /\ (e.status >= 500 \/ e.status \in {408, 429})

HasRetryAfter(e) == e.kind = "rate_limited"

(* A bug: the provider's wait is taken as it is. *)
UncappedBackoff(n, e) == IF HasRetryAfter(e) THEN e.secs ELSE Least(RetryDelay * 2 ^ n, MaxRetryDelay)

(* calculate_backoff *)
CalculateBackoff(n, e) ==
  IF HasRetryAfter(e) THEN Least(e.secs, MaxServerRetryAfter)
                      ELSE Least(RetryDelay * 2 ^ n, MaxRetryDelay)

(* A bug: the local delay wins over the provider's. *)
LocalDelay(e) == MailerDelay

(* The sleep of send_with_retry before its next try. *)
MailerWait(e) == IF HasRetryAfter(e) THEN e.secs ELSE MailerDelay

-----------------------------------------------------------------------------
(* Bugs: an attempt too many, an attempt too few. *)
RetriesOnceMore == attempts <= MaxRetries
RetriesOnceLess == attempts + 1 < MaxRetries

ShouldRetry == attempts < MaxRetries

(* The send failed for the worker: fail, or dead_letter or discard. *)
Fails(e) ==
  \/ /\ ShouldRetry /\ IsRetryable(e)
     /\ due' = clock + CalculateBackoff(attempts, e)
     /\ attempts' = attempts + 1
     /\ phase' = "queued"
  \/ /\ ~(ShouldRetry /\ IsRetryable(e))
     /\ phase' = "failed"
     /\ UNCHANGED <<attempts, due>>

(* The transport reports e: send_with_retry sleeps, or hands e on. *)
Reports(e) ==
  \/ /\ IsRetryable(e) /\ try < RetryCount
     /\ phase' = "sleeping"
     /\ wake' = clock + MailerWait(e)
     /\ UNCHANGED <<attempts, due, try, started>>
  \/ /\ ~IsRetryable(e) \/ try >= RetryCount
     /\ Fails(e)
     /\ UNCHANGED mailer

(* Each transport call reaches the provider at once. *)
Calls == calls' = calls + 1

Pop ==
  /\ phase = "queued" /\ clock >= due
  /\ phase' = "calling" /\ try' = 0 /\ started' = clock /\ wake' = 0
  /\ Calls
  /\ UNCHANGED <<clock, attempts, due, unanswered, rejected, openAt, cutShort>>

Retry ==
  /\ phase = "sleeping" /\ clock >= wake
  /\ phase' = "calling" /\ try' = try + 1
  /\ Calls
  /\ UNCHANGED <<clock, attempts, due, wake, started, unanswered, rejected, openAt, cutShort>>

Success(status) ==
  /\ phase = "calling" /\ Accepts(status)
  /\ phase' = "sent"
  /\ UNCHANGED <<clock, attempts, due, mailer, provider>>

(* openAt is when the provider is ready again by what it asked for, never   *)
(* more than MAX_SERVER_RETRY_AFTER.                                       *)
Failure(status, after) ==
  LET e == ErrorOf(status, after) IN
  /\ phase = "calling" /\ ~Accepts(status)
  /\ Reports(e)
  /\ rejected' = (rejected \/ (transport # "smtp" /\ status < 500 /\ status \notin {408, 429}))
  /\ openAt' = IF HasRetryAfter(e) THEN clock + Least(e.secs, MaxServerRetryAfter) ELSE openAt
  /\ UNCHANGED <<clock, calls, unanswered, cutShort>>

(* No response: the email is sent again, although the provider may have     *)
(* accepted it.                                                            *)
Disconnect ==
  /\ phase = "calling"
  /\ \E e \in NoResponse : Reports(e)
  /\ unanswered' = unanswered + 1
  /\ UNCHANGED <<clock, calls, rejected, openAt, cutShort>>

(* job_timeout drops the send wherever it is. *)
JobTimesOut ==
  /\ phase \in {"calling", "sleeping"} /\ clock >= started + JobTimeout
  /\ Fails(Timeout)
  /\ IF phase = "calling"
       THEN unanswered' = unanswered + 1 /\ UNCHANGED cutShort
       ELSE cutShort' = (cutShort \/ openAt > clock) /\ UNCHANGED unanswered
  /\ UNCHANGED <<clock, mailer, calls, rejected, openAt>>

Tick == clock < MaxClock /\ clock' = clock + 1 /\ UNCHANGED <<job, mailer, provider>>

Init ==
  /\ transport \in {"http", "ses", "smtp"}
  /\ clock = 0 /\ phase = "queued" /\ attempts = 0 /\ due = 0
  /\ try = 0 /\ wake = 0 /\ started = 0
  /\ calls = 0 /\ unanswered = 0 /\ rejected = FALSE /\ openAt = 0 /\ cutShort = FALSE

Next ==
  /\ \/ Pop \/ Retry
     \/ \E status \in Statuses : Success(status)
     \/ \E status \in Statuses, after \in RetryAfters : Failure(status, after)
     \/ Disconnect \/ JobTimesOut \/ Tick
  /\ UNCHANGED transport

Spec == Init /\ [][Next]_vars

-----------------------------------------------------------------------------
(* Properties. *)

(* Neither loop counts past its limit: attempts up to max_retries, and the  *)
(* mailer's try up to retry_count.                                         *)
TypeOK ==
  /\ transport \in {"http", "ses", "smtp"}
  /\ clock \in 0 .. MaxClock
  /\ phase \in {"queued", "calling", "sleeping", "sent", "failed"}
  /\ attempts \in 0 .. MaxRetries /\ try \in 0 .. RetryCount
  /\ due \in Nat /\ wake \in Nat /\ started \in Nat
  /\ calls \in Nat /\ unanswered \in Nat /\ openAt \in Nat
  /\ rejected \in BOOLEAN /\ cutShort \in BOOLEAN

(* The nested loops multiply: one email costs the provider at most          *)
(* max_retries + 1 times retry_count + 1 calls, and leaves at most as many  *)
(* unanswered, each a possible duplicate.                                   *)
CallBound == unanswered <= calls /\ calls <= (MaxRetries + 1) * (RetryCount + 1)

(* Once the provider has refused the message, with a 4xx say, neither loop  *)
(* calls it again (is_retryable: "retrying it just burns quota").           *)
NoCallAfterRejection == [][rejected => UNCHANGED calls]_vars

(* Nothing but job_timeout makes the worker call the provider before its    *)
(* Retry-After is over, in whichever loop the wait is.                      *)
WaitsAsAsked == [][calls' # calls /\ clock < openAt => cutShort]_vars

(* An email that was not refused is given up only after max_retries.        *)
EveryRetryUsed == phase = "failed" /\ ~rejected => attempts = MaxRetries

(* No answer of the provider parks a queued job for longer than             *)
(* MAX_SERVER_RETRY_AFTER or max_retry_delay.                               *)
NotParked ==
  [][phase # "queued" /\ phase' = "queued" =>
       \/ due' <= clock + MaxServerRetryAfter \/ due' <= clock + MaxRetryDelay]_vars

(* send_with_retry: "When the provider tells us how long to wait ... that   *)
(* delay is honored instead of the local one".                              *)
RetryAfterHonoured == [][calls' # calls => clock >= openAt]_vars
=============================================================================
