------------------------------ MODULE SendBulk ------------------------------
(***************************************************************************)
(* Mailer::send_bulk of src/src/mailer.rs: a batch of emails driven through *)
(* buffered(concurrency), each of them by send_with_retry.  The futures run *)
(* interleaved in one task; what a transport answers is reduced to what the *)
(* loop tells apart.  How long the sleeps are is JobSend's subject.         *)
(***************************************************************************)
EXTENDS Integers, Sequences, FiniteSets

CONSTANTS
  N,                  \* emails in the batch
  BulkConcurrencies,  \* what bulk_concurrency, a public field, may hold
  RetryCount          \* MailerConfig::retry_count

ASSUME SendBulkConfig ==
  /\ N \in Nat /\ RetryCount \in Nat
  /\ BulkConcurrencies \subseteq Nat

Emails == 1 .. N

VARIABLES
  bulkConcurrency,
  invalid,     \* the emails Email::validate refuses
  started,     \* how many emails buffered has taken from the batch, in order
  task,        \* per email: where its future is, or how it ended
  try,         \* per email: send_with_retry's attempt
  results,     \* the Vec under collection
  \* history: what the provider saw of each email
  accepted,    \* times it accepted it
  unanswered   \* calls whose answer was lost

config == <<bulkConcurrency, invalid>>
seen   == <<accepted, unanswered>>
vars   == <<config, started, task, try, results, seen>>

Running(i)  == task[i] \in {"calling", "sleeping"}
Finished(i) == task[i] \in {"ok", "error"}

(* A bug: the concurrency is not clamped. *)
Unclamped == bulkConcurrency

Width == IF bulkConcurrency >= 1 THEN bulkConcurrency ELSE 1

(* A bug: finished sends whose results wait for an earlier one do not count. *)
RoomBesideRunning == Cardinality({i \in Emails : Running(i)}) < Width

(* buffered counts the running sends and the results it cannot yield yet.   *)
Room == started - Len(results) < Width

-----------------------------------------------------------------------------
(* The stream hands over the next email, and its first call is made.        *)
Start ==
  /\ started < N /\ Room
  /\ started' = started + 1
  /\ task' = [task EXCEPT ![started + 1] = "calling"]
  /\ UNCHANGED <<config, try, results, seen>>

Ends(i, how) == task' = [task EXCEPT ![i] = how] /\ UNCHANGED try

(* A bug: one attempt more than retry_count allows. *)
RetriesOnceMore(i) ==
  IF try[i] <= RetryCount THEN Ends(i, "sleeping") ELSE Ends(i, "error")

(* A retryable error. *)
RetryOrGiveUp(i) ==
  IF try[i] < RetryCount THEN Ends(i, "sleeping") ELSE Ends(i, "error")

Wake(i) ==
  /\ task[i] = "sleeping"
  /\ task' = [task EXCEPT ![i] = "calling"]
  /\ try' = [try EXCEPT ![i] = @ + 1]
  /\ UNCHANGED <<config, started, results, seen>>

(* Every transport validates the email before it calls its provider.        *)
Refused(i) ==
  /\ task[i] = "calling" /\ i \in invalid
  /\ Ends(i, "error")
  /\ UNCHANGED <<config, started, results, seen>>

(* A bug: the loop goes on after a success. *)
GoesOn(i) ==
  /\ task[i] = "calling" /\ i \notin invalid
  /\ accepted' = [accepted EXCEPT ![i] = @ + 1]
  /\ IF try[i] < RetryCount THEN Ends(i, "sleeping") ELSE Ends(i, "ok")
  /\ UNCHANGED <<config, started, results, unanswered>>

Success(i) ==
  /\ task[i] = "calling" /\ i \notin invalid
  /\ accepted' = [accepted EXCEPT ![i] = @ + 1]
  /\ Ends(i, "ok")
  /\ UNCHANGED <<config, started, results, unanswered>>

Failure(i) ==
  /\ task[i] = "calling" /\ i \notin invalid
  /\ RetryOrGiveUp(i) \/ Ends(i, "error")
  /\ UNCHANGED <<config, started, results, seen>>

(* The answer is lost; the provider may have accepted the email.            *)
AnswerLost(i) ==
  /\ task[i] = "calling" /\ i \notin invalid
  /\ RetryOrGiveUp(i)
  /\ unanswered' = [unanswered EXCEPT ![i] = @ + 1]
  /\ \E taken \in 0 .. 1 : accepted' = [accepted EXCEPT ![i] = @ + taken]
  /\ UNCHANGED <<config, started, results>>

(* A bug: buffer_unordered.  The results of sends that ended come as they   *)
(* come, and a result says nothing of the place of its email.               *)
YieldUnordered ==
  /\ Cardinality({i \in Emails : Finished(i)}) > Len(results)
  /\ \E i \in Emails : Finished(i) /\ results' = Append(results, task[i])
  /\ UNCHANGED <<config, started, task, try, seen>>

(* The oldest send in the window has ended: its result is the next one.     *)
Yield ==
  /\ Len(results) < started
  /\ Finished(Len(results) + 1)
  /\ results' = Append(results, task[Len(results) + 1])
  /\ UNCHANGED <<config, started, task, try, seen>>

Init ==
  /\ bulkConcurrency \in BulkConcurrencies
  /\ invalid \in SUBSET Emails
  /\ started = 0 /\ results = <<>>
  /\ task = [i \in Emails |-> "waiting"] /\ try = [i \in Emails |-> 0]
  /\ accepted = [i \in Emails |-> 0] /\ unanswered = [i \in Emails |-> 0]

Answer(i) == Success(i) \/ Failure(i) \/ AnswerLost(i)

Next == \/ Start \/ Yield
        \/ \E i \in Emails : Refused(i) \/ Wake(i) \/ Answer(i)

Spec == Init /\ [][Next]_vars

(* The caller awaits the batch, so every future that can go on is polled    *)
(* again.  No fairness on Answer: a provider may be as slow as it likes.    *)
Fairness ==
  /\ WF_vars(Start) /\ WF_vars(Yield)
  /\ \A i \in Emails : WF_vars(Wake(i)) /\ WF_vars(Refused(i))

FairSpec == Spec /\ Fairness

-----------------------------------------------------------------------------
(* Properties. *)

(* At most `concurrency` emails, and at least one, are between the batch    *)
(* and the results, those started are the first ones, and the results so    *)
(* far are those of the first emails, in order.                             *)
TypeOK ==
  /\ bulkConcurrency \in Nat /\ invalid \subseteq Emails
  /\ started \in 0 .. N
  /\ task \in [Emails -> {"waiting", "calling", "sleeping", "ok", "error"}]
  /\ try \in [Emails -> 0 .. RetryCount]
  /\ results \in Seq({"ok", "error"})
  /\ accepted \in [Emails -> Nat] /\ unanswered \in [Emails -> Nat]
  /\ Len(results) <= started /\ started - Len(results) <= Width
  /\ \A i \in Emails : task[i] = "waiting" <=> i > started

(* No more than bulk_concurrency sends are in flight at once ("Maximum      *)
(* number of concurrent sends").                                           *)
InFlightBound == Cardinality({i \in Emails : Running(i)}) <= Width

(* "Results are returned in the same order as `emails`": an Ok stands for   *)
(* an email the provider accepted, and an Err for one it did not, unless an *)
(* answer to that very email was lost.                                     *)
ResultsTellTheTruth ==
  \A i \in DOMAIN results :
    /\ results[i] = "ok" => accepted[i] >= 1
    /\ results[i] = "error" /\ unanswered[i] = 0 => accepted[i] = 0
    /\ i \in invalid => results[i] = "error" /\ accepted[i] = 0

(* A recipient gets a second copy only where an answer was lost, and never  *)
(* more than retry_count + 1 of them.                                      *)
NoNeedlessCopy ==
  \A i \in Emails : /\ accepted[i] <= unanswered[i] + 1
                    /\ accepted[i] <= RetryCount + 1

(* "One slow recipient does not stall the whole batch", as far as buffered  *)
(* goes: every email ends, unless its own provider call, or that of an      *)
(* email at least `concurrency` places before it, never returns.            *)
SlowSendsSpareTheWindow ==
  \A i \in Emails :
    \/ <>Finished(i)
    \/ \E s \in 1 .. i : (s = i \/ i - s >= Width) /\ <>[](task[s] = "calling")
=============================================================================
