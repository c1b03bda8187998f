# armature-mail: a TLA+ model of its queue, its sends and its messages

armature-mail is a Rust mail library. What can go wrong over time is in its queue:
jobs are stored in Redis or in memory, claimed by concurrent workers, sent under
a timeout, retried, reclaimed from workers that died, and finally recorded as
sent, dead or lost. What can go wrong without a clock is the message: it is put
together by setters that cannot fail, completed with defaults, stored, read back,
and written out anew by one of four transports for each attempt. This directory
models the queue, the sending of one email and of a batch, and the message.

## 1. The system

### Components

| Component | Source | State | Operations |
|---|---|---|---|
| `EmailQueueBackend` | `queue.rs` 395-507 | none (a trait) | `push`, `push_batch`, `pop`, `complete`, `discard`, `fail`, `dead_letter`, `reclaim_stale`, `stats` |
| `RedisBackend` | `queue.rs` 974-1982 | Redis: a body per job, the sorted sets `pending`, `retry`, `processing`, the claim hash and its counter, the dead-letter and lost lists, a counter of processed jobs | the trait, by commands, pipelines and Lua scripts |
| `InMemoryBackend` | `queue.rs` 527-972 | one mutex over a deque, a map of claims, a dead-letter deque, a token counter | the trait, each method under the mutex |
| `EmailQueueWorker` | `queue.rs` 2085-2342 | poll loop, time of the last sweep, semaphore, set of tasks, shutdown receiver | `run`, `process_one_job`, `calculate_backoff` |
| `EmailJob` | `queue.rs` 50-147 | attempts, next retry, claim token | `should_retry`, `prepare_retry` |
| `EmailQueueConfig` | `queue.rs` 166-393 | limits and timeouts | `validate`, builders |
| `EmailQueue` | `queue.rs` 1984-2083 | none (forwards) | `enqueue`, `enqueue_batch`, `stats` |
| `Mailer` | `mailer.rs` | configuration | `send`, `send_shared`, `send_template`, `send_bulk`, `send_with_retry`, canned emails |
| `MailError` | `error.rs` | none | `is_retryable`, `retry_after` |
| Transports | `transport.rs`, `sendgrid.rs`, `mailgun.rs`, `ses.rs` | a client each | `send` |
| `Email`, `EmailBuilder`, `Address`, `Attachment` | `email.rs`, `address.rs`, `attachment.rs` | values | setters, `validate`, `wire_headers`, `to_lettre`, `parse` |
| Templates | `lib.rs`, `template_*.rs` | engines, a directory read at start | `render` |

### How they interact

A producer calls `enqueue`, which stores a job in the backend. Each worker
process loops: it sweeps stale claims every quarter of `visibility_timeout`, pops
a batch, and spawns a task per job. A task waits for one of `concurrency`
permits, sends under `job_timeout` through `Mailer::send_with_retry`, which has a
retry loop of its own around the transport, and then makes exactly one finalizing
call: `complete`, `fail`, `dead_letter` or `discard`. Several processes share one
Redis and know of each other only through it.

### What is hard

* A job's owner and a sweep race for the same claim; a claim token minted by each
  pop decides, inside the Lua scripts that end a claim.
* `pop`, `reclaim_stale` and `push` are several Redis commands; every other
  client, a crash or an error may come between two of them, and what one command
  read is old when the next runs.
* Bodies may disappear (Redis evicts) or stop deserializing, and a body that is
  gone because the job ended must not be taken for one that was lost.
* Claims age while their jobs wait for a permit; a send abandoned by `job_timeout`
  may have been delivered.
* Two retry loops are nested, with a timeout between them.
* A batch is sent by interleaved futures that end in any order, behind a window
  that must neither widen nor close.
* The same email takes three ways to a transport (owned, shared, through JSON), is
  written out by four transports, and more than once.
* The in-memory queue is bounded at both ends: `push` refuses, a sweep must defer,
  the dead-letter list evicts.

`PROJECT.json` lists each of these hazards at its line, with the properties that
would notice it.

### What makes each part correct

* The backends: a job is in one place; no two holders share a claim; a delivery is
  charged exactly once; a job is delivered at most `max_retries + 1` times; what
  ended stays ended; nothing accepted is lost silently; everything accepted ends.
* The worker: permits always come back; shutdown drains; a job being sent keeps
  its claim.
* The send path: calls to the provider are bounded, a refused message is not
  sent again, a provider's wait is kept, and retries are neither lost nor added.
* The batch: a result speaks for its own email, a copy costs a lost answer, and a
  slow send holds up no more than the window says.
* The message: nobody the caller named is dropped, nothing it was given is lost by
  any transport, and every path and attempt hands over the same message.

## 2. The modules

| Module | What it is |
|---|---|
| `JobLifecycle` | abstract: the life of each job that the trait promises |
| `RedisBackend` | detailed: every Redis command and script as one step of a client |
| `RedisBackendProofs` | type correctness and the safety of `RedisBackend` |
| `RedisLifecycleProofs` | `RedisBackend` implements `JobLifecycle` |
| `RedisLossProofs` | what `RedisBackend` may lose, and what it reports of it |
| `InMemoryBackend` | detailed: every method under the mutex as one step |
| `InMemoryProofs` | the safety of `InMemoryBackend`, and that it implements `JobLifecycle` |
| `QueueWorker` | the poll loop and the tasks, composed with `InMemoryBackend` |
| `QueueWorkerProofs` | the safety of `QueueWorker`, which inherits that of the backend |
| `JobSend` | one email through `send_with_retry`, `job_timeout` and the queue's retries |
| `JobSendProofs` | the safety of `JobSend` |
| `SendBulk` | a batch through `send_bulk` and `send_with_retry` |
| `SendBulkProofs` | the safety of `SendBulk` |
| `Message` | one email from the setters to what each transport hands over |
| `MessageProofs` | the safety of `Message` |
| `MC...` | the constants with which TLC checks the module of that name |

### JobLifecycle

`state[j]` is where a job is (new, waiting, claimed, or how it ended) and
`deliveries[j]` how often a pop returned it. A step moves each job along its own
life or leaves it: enqueue, deliver, requeue, finish. A requeue needs a delivery
left. `RedisBackend` and `InMemoryBackend` instantiate it with a refinement
mapping (`StateOf`) and state `Lifecycle!Spec` as the property
`ImplementsLifecycle`.

### RedisBackend

`body`, `pending`, `retry`, `processing`, `claim`, `claimSeq`, `dead`, `lost` and
`processed` are the Redis keys; a body is the attempt count it carries, nothing,
or `Corrupt`. `pc`, `now`, `work` and `cur` are the local variables of a client's
poll loop between two commands, `held` the jobs of its tasks. `submitted`,
`claims` and `outcome` are history. One action is one command or one script:
`PushSet`/`PushZadd`, `PushBatch` (a MULTI pipeline), `PopBegin` (reads the clock),
`ClaimRetry`, `ClaimPending`, `PopMget`, `DiscardZrem` ... `DiscardDel` (the
pipeline of `discard_lost`, which is not a MULTI), `SweepBegin`, `ClaimStale`,
`SweepMget`, `SweepFinish`, `SweepLost`, `SweepDead`. `TaskDone` is the finalizing
call of a task. `TaskDropped` is a panic or a finalizing call that fails,
`RedisError` an error inside a pop or sweep, `Crash` the death of a process;
`Evict` and `Garble` lose a body. The scripts (`CompleteIfOwned`, `FailIfOwned`,
`DeadLetterIfOwned`, `DiscardIfOwned`, `ReleaseIfOwned`, `ClaimFresh`,
`ClaimStale`) are atomic because Redis runs a script to its end.

The model clock starts at 0 and all clients share it; a client that stalls sees
it advance between two of its commands. Claim tokens start at 1, so 0 is no
token. A full batch makes `reclaim_stale` go round again; this is a new sweep here.

### InMemoryBackend

Each method is an action, as each holds the mutex throughout. `reclaim_stale`
alone is two (`SweepBegin` computes the cutoff before it locks, `Sweep` does the
rest). The deque, the claims and the dead-letter list keep their order and times;
`Room` is what the depth cap leaves to a sweep, and claims it cannot requeue are
left for the next sweep.

### QueueWorker

It adds to `InMemoryBackend` when each call is made: `loop` is where `run` is,
`wake` and `lastSweep` its times, `sending` the tasks with a permit and when they
began. `Tick` may pass only while no send is older than `job_timeout` and no free
permit is left while a task waits (`Prompt`): tokio runs what is ready. `ValidConfig`
is `EmailQueueConfig::validate`, and an assumption. In-memory pops answer no error,
so the loop's error branches are out of reach; over Redis they are covered by
`RedisBackend`, whose clients may pop and sweep in any order.

### JobSend

One job: `phase`, `attempts` and `due` are the queue's view, `try` and `wake` those
of `send_with_retry`. A provider accepts, answers any status of `Statuses` with any
Retry-After of `RetryAfters`, or does not answer; `JobTimesOut` cuts the send
wherever it is. `transport` chooses how answers become errors: SendGrid and
Mailgun turn a 429 into `RateLimited`, SES into a `Provider` error, SMTP makes one
error of every failure. Time is in whole units, so `calculate_backoff` is exact
where the code uses floating point. Crashes, sweeps and the backend's other jobs
are left to the backend modules.

### SendBulk

`started` is how many emails `buffered` has taken from the batch, `task` and `try`
where each of their futures is in `send_with_retry`, `results` the vector being
collected. `buffered` polls at most `Width` futures, and counts among them those
that ended but whose results wait for an earlier one (`Room`); it yields only the
oldest (`Yield`). The futures share one task, so they interleave at their awaits:
a call (`Success`, `Failure`, `AnswerLost`, `Refused`) and a sleep (`Wake`). The
length of a sleep does not matter here. `accepted` and `unanswered` are history:
what the provider saw. `bulk_concurrency` is a public field, so it may be 0.

### Message

`email` is the `Email` (or the one inside an `EmailBuilder`, while `path` is
"checked"), `asked` a history of what the caller gave, `body` what the send works
on, and `wires` what each transport would hand to its client, one entry for each
attempt. The setters are `SetAddress`, `AddRecipient`, `ToMany`, `AddHeader`,
`SetField`, `SetContent`, `AddReference`, `SetPriority` and `Attach`; `PushHeader`
writes the public field `headers` past its setter. `Canned`, `SendSimple` and
`SendTemplate` are `Mailer`'s ready-made emails. `Send` and `Enqueue` submit the
email; an attempt on a queued one goes through `send_shared`, and over Redis
through JSON (`ToJson`, `FromJson`), where a missing field becomes its default.
`ToLettre`, `Ses`, `SendGrid` and `Mailgun` are the message of each transport, or
`None` where it answers an error first. An address is what `validate_email` looks
at, a header value or id whether it is clean, an attachment its file, whether its
content type parses, its disposition and whether it has a content id. Whether
lettre's own address parser takes an address (`routable`) is external, as is what
lettre and the providers make of what they are handed, with one exception.
`to_lettre` sets headers one by one (`HeaderCalls`), once for each reference, and
lettre 0.11's builder keeps them in a map where a header replaces one of the same
name, whatever its case. lettre's source is not here; `InsertRaw` models that
documented behaviour, as an external definition, and `Inserted` is what the calls
leave in the map. The `LowerCase` and
`Reserved` constants stand for the case folding and the fixed list of names.
Filters and folds of lists (`Only`, `Combined`, `Inserted`, `Values`) are recursive functions
over a list's positions, so that theorems about them are within the provers' reach.

## 3. What is checked

| Run | Result | What it shows |
|---|---|---|
| `MCRedisCore` | passes | two processes, two jobs, crashes, errors and panics at any moment: `OnePlace`, `SoleOwner`, `AttemptBound`, `OneAttemptPerClaim`, `NoResurrection`, `ProcessedIsSent`, `NoSilentLoss`, `ClaimsAgree`, `OutcomeFinal`, and `ImplementsLifecycle` |
| `MCRedisLoss` | passes | bodies evicted or garbled at any moment: `LossIsReported`, `SweepLossIsGenuine`, `AttemptsNeverDrop` |
| `MCRedisLive` | passes | `EventuallySettled`: every accepted job ends |
| `MCRedisFabricatedLoss` | violated | a stalled pop reports a delivered job as lost |
| `MCRedisCorruptClaim` | violated | a corrupt body under a claim is never released |
| `MCInMemorySafety` | passes | `OneCopy`, `OneAttemptPerClaim`, `OldestClaimFirst`, `NewFailuresKept`, `ImplementsLifecycle` |
| `MCQueueWorker` | passes | `StopAbandonsNothing`, `PromptSendsKeepClaim`, permits, `ShutdownStops`, and `EventuallySettled`: without a shutdown every job an `InMemoryBackend` accepted ends, with a panic and a deferred sweep on the way |
| `MCQueueWorkerBacklog` | violated | a job waiting for its permit loses its claim under a valid configuration |
| `MCJobSend` | passes | `CallBound`, `EveryRetryUsed`, `NoCallAfterRejection`, `WaitsAsAsked`, `NotParked` |
| `MCJobSendRetryAfter` | violated | `job_timeout` cuts the mailer's wait for a Retry-After |
| `MCSendBulk` | passes | `ResultsTellTheTruth`, `NoNeedlessCopy`, the window, and `SlowSendsSpareTheWindow`: a send that never answers stalls nothing less than `concurrency` places after it |
| `MCMessage` | passes | `NobodyDropped`, `ContentCarried`, and `PathsAgree`: the queue and its retries hand over what `Mailer::send` would |

### Bounds, and why they are enough

`MCRedisCore` has two processes because every race of the code is between two
holders of a claim (an old one and a new one, or an owner and a sweep), two jobs
because scripts take sets of ids and a batch may be partly readable, and `MaxRetries = 2`:
a reclaim is charged before it is judged, so with 1 a sweep would never put a job
back. `VisTimeout = 1` and `MaxClock = 1` let every claim made at time 0 go stale,
be swept, and be taken again while its first holder is still about; faults may
strike throughout. `MCRedisLoss` gives up the second job and the crashes for lost
bodies and for time: at `MaxClock = 3` claims go stale again and again. It has no
crashes because one between the release of an evicted job and the LPUSH that
records it does lose the trace.
`MCRedisLive` has sweeps of one claim at a time and no dead-letter queue, so
`discard` and partial batches are on the path. `RetryDelays` is `{0}` over Redis:
`retry` scores differ anyway, by the time of the failure. `MCInMemorySafety` has
depth 1, so pushes are refused and sweeps deferred, and delays 0 and 1.
`MCQueueWorker` has one permit for two jobs, so a task waits, a queue of depth 1, so
a sweep may have to defer, and the smallest configuration that `validate` accepts with a job timeout of 1; the backlog run
adds a third job, the first that can wait too long. `MCJobSend` has two retries
in the queue and one in the mailer, waits shorter and longer than `job_timeout`
(2) and than `MaxServerRetryAfter` (4), and a clock long enough for all retries.
Every wait in it is a timer, so it stops when the job or the clock ends:
deadlock is not checked there.

`MCSendBulk` has four emails for a window of two (or of one, for a concurrency of
0): one running, one that ended behind it, one outside the window and one more
that a wrong window would let in; one retry is enough for a lost answer to be
followed by a copy. A batch ends, so deadlock is not checked. `MCMessage` lets a
caller make two calls on an empty email or on a canned one that lacks only what
the defaults give: every hazard of the message is about at most two things it was
given (two references, two headers of one name, a priority and a header of its name,
an address that does not parse and a default). Its inputs hold one address of each kind the
parser tells apart, names that differ in case, a reserved and an unclean header,
priorities out of range on both sides, files with and without a content type that
parses. Two attempts, so one follows a store. A message that was attempted twice
is the end, so deadlock is not checked.

`MaxClock` bounds time everywhere. The safety properties do not mention it, and
the proofs of section 4 hold for any.

### Fairness

* `RedisBackend`: the poll loop sweeps whenever `sweep_interval` is over and pops
  after it, so neither call can starve the other: strong fairness of `PopBegin`
  and `SweepBegin`, which each disables while it runs. Weak fairness of the steps
  of a call (a future that is ready is polled), of `TaskDone` (`job_timeout` ends
  every send) and of time. Faults stop at `FaultsUntil`; no fairness makes a
  faulty run recover before.
* `InMemoryBackend` states none of its own: its liveness is checked in `QueueWorker`.
* `QueueWorker`: weak fairness of the loop, of taking a free permit, and of a task
  that has one. The order of sweeps and pops is no longer assumed: the loop fixes it.
* `SendBulk`: weak fairness of the polling of every future that can go on and of
  the stream, since the caller awaits the batch. None of a provider's answer.
* `JobSend` and `Message` have no liveness property and no fairness.

### Disagreements with what the code says of itself

1. **A delivered email recorded as lost** (`MCRedisFabricatedLoss`). `pop` takes a
   missing body for a lost one. If the pop stalls past `visibility_timeout` between
   claim and MGET, another worker may have delivered the job.
2. **A corrupt body is never released** (`MCRedisCorruptClaim`). The sweep skips it
   and its claim is made young again, for ever, if the pop that claimed it died.
3. **A backlog outlives its claims** (`MCQueueWorkerBacklog`). `run` pops without
   back-pressure, and a claim ages from the pop. `PromptSendsKeepClaim` is the
   part that holds: a send that starts within `visibility_timeout - job_timeout`
   of its claim keeps it.
4. **Retry-After is cut by `job_timeout`** (`MCJobSendRetryAfter`). `WaitsAsAsked`
   is the part that holds: nothing else cuts it.
5. **Only the last of a name leaves lettre's builder** (no violated run: it is what
   `ContentCarried` says of SMTP and raw SES). `to_lettre` calls `references` once
   for each reference and `raw_header` once for each header, and each call replaces
   the header of its name: two references added ("Add a reference (for threading)",
   `email.rs` 221) leave as one, and so do a repeated custom header and an
   `Importance` of the caller's beside a priority, although `wire_headers` gives
   "all custom headers to emit on the wire" (`email.rs` 267-268). SendGrid joins
   them and Mailgun sends them all. The tests of `ses.rs` try one reference. This
   rests on lettre's map of headers, as modelled by `InsertRaw`. What holds on every
   transport is that a priority is never dropped.

Seen while modelling, with no run of their own: `discard_lost` drops the
processing entry and the claim with two commands, so `ClaimsAgree` holds only
without body loss, which is how `MCRedisCore` checks it; SMTP errors are all
retried, permanent refusals too; SES never reports a Retry-After; `push` may
answer an error for a job it did queue; priorities are an offset to the creation
time, so an old job overtakes an urgent one after about eleven and a half days
per level, and `InMemoryBackend` ignores them; `InMemoryBackend::fail` puts its job
back without the depth check that `push` and `reclaim_stale` make, so the queue
may outgrow `max_queue_depth` by the jobs in flight.

Of batches and messages: "one slow recipient does not stall the whole batch"
(`mailer.rs` 196-197) holds within the window only, for results that wait for an
earlier one keep their place in it; a valid `from` after an invalid one does not
take the recorded error back; Mailgun decides by the content id whether a part is
inline, where SMTP and SendGrid go by the disposition (`email.rs` 585-588 says an
explicit one wins); the doc of `build_part` (`email.rs` 560-564) says a content id alone
makes a part inline, which its code, rightly, does not; SMTP and raw SES messages carry `In-Reply-To`
and the last reference as given, while the HTTP transports wrap them in angle brackets; a
direct `Mailer::send` of an email without a Message-ID stamps none, so its retries
share no identity; the id stamped on a queued email puts it on the raw path of
SES, so an address that lettre's parser refuses is sent directly and refused when
queued.

## 4. What is proved

### RedisBackend

These theorems are about any number of jobs and clients, any configuration and
any bound. They assume what the module assumes of its constants:
`Jobs` is finite, the two markers for a body that cannot be read are not integers
(`BodyAssumption`), the configuration is in range (`ConfigAssumption`, as
`validate` and the builders ensure) and the bounds are natural numbers.

| Theorem | Statement |
|---|---|
| `TypeCorrect` | `Spec => []TypeOK` |
| `PlacesCorrect` | `Spec => []OnePlace` |
| `NoResurrectionCorrect` | `Spec => []NoResurrection` |
| `OutcomeCorrect` | `Spec => OutcomeFinal` |
| `SoleOwnerCorrect` | `Spec => []SoleOwner` |
| `AttemptBoundCorrect` | `Spec => []AttemptBound` |
| `OneAttemptCorrect` | `Spec => []OneAttemptPerClaim` |
| `AttemptsNeverDropCorrect` | `Spec => AttemptsNeverDrop` |
| `LifecycleCorrect` | `Spec => ImplementsLifecycle` |

The argument. `RedisBackend` has some twenty-five actions, but a step does one of a few
things to the sets and claims. `StepEffect` classifies every step once: nothing
(`Quiet`), `Submit`, `Take` (a pop's claim), `Requeue` or `Finish`. Three
inductive invariants are then preserved by cases on the effect, not on the action:

* `PlaceInv`: the waiting sets are disjoint from each other and from the claims,
  and a job that ended, or is not yet queued, is in none. `OnePlace` alone is not
  inductive: a claim without its processing entry would let a stale finalizer put
  a job into a second set.
* `TokenInv`: no token on record or held exceeds the counter, tokens of different
  jobs differ, and no record is held twice. It is what makes a freshly minted
  token fresh, hence `SoleOwner`. `StepRecords` classifies what a step does to the
  records clients hold.
* `AttemptInv`: the count in the body of a waiting job is the number of its
  deliveries, that of a claimed job and of the record that owns its claim is one
  less, and a job that waits has a delivery left. `AttemptBound` alone is not
  inductive: a stale body would buy deliveries. `StepBodies` classifies what a
  step does to bodies.

`LifecycleCorrect` maps each effect to a step of `JobLifecycle`; `AttemptInv`
supplies the guard of `Requeue` and `Deliver`.

The losses (`RedisLossProofs`), under the same assumptions:

| Theorem | Statement |
|---|---|
| `ProcessedIsSentCorrect` | `Spec => []ProcessedIsSent` |
| `SweepLossIsGenuineCorrect` | `Spec => []SweepLossIsGenuine` |
| `LossIsReportedCorrect` | `Spec => []LossIsReported`, if no call fails and no process dies (`FaultsUntil = 0`) |
| `SturdyJobsKept` | a job whose body Redis neither evicts nor garbles is never given up, and until it ends it waits or is claimed, with a readable body |
| `NoSilentLossCorrect` | `Spec => []NoSilentLoss`, if no job may lose its body |
| `ClaimsAgreeCorrect` | `Spec => []ClaimsAgree`, if no job may lose its body |

The three hypotheses are what the code supports, not what the provers need. A
process that dies between `RELEASE_IF_OWNED` and the LPUSH takes the only trace of
an evicted job with it, so `LossIsReported` is a theorem about runs without
crashes and errors; and `discard_lost` drops a claim with two commands, so the
hash and the set may differ once a body is gone. `SturdyJobsKept` has no
hypothesis: whatever is evicted, a job of its own keeps safe.

`CountStep` says that the counter and the set of delivered jobs move together;
the rest is the cardinality of a set with one more element. A loss follows the
job: `OnItsWay` says that the lost list has it or that a client holds it between
the release and the LPUSH. For sturdy jobs, `KeepInv` is inductive: `Safe` (the
body and the place of the job) is not by itself, because a pop or sweep acts on
what MGET answered some steps before. `RecordInv` says that a client that was
told of no body for a sturdy job, or is dropping its claim, deals with one that ended.

### InMemoryBackend

For any jobs, workers, depth, list lengths and configuration, under
`InMemoryConfig`.

| Theorem | Statement |
|---|---|
| `TypeCorrect` | `Spec => []TypeOK`, the cap of the dead-letter list included |
| `InvCorrect` | `Spec => []Inv` |
| `OneCopyCorrect` | `Spec => []OneCopy` |
| `OneAttemptCorrect` | `Spec => []OneAttemptPerClaim` |
| `OldestClaimCorrect` | `Spec => OldestClaimFirst` |
| `NewFailuresCorrect` | `Spec => NewFailuresKept` |
| `LifecycleCorrect` | `Spec => ImplementsLifecycle` |

`Inv` is the types with three parts. `CopyInv`: no job is twice in the deque, or
both in the deque and under a claim, and the jobs that are in either are those
accepted and not ended; a job not yet accepted has not been delivered either.
`AttemptInv`: the count of a waiting job
is the number of its deliveries and leaves one, that of a claim is one less.
`TokenInv`: tokens on record and held are at most the counter and differ, and a
task that owns its claim agrees with it on the count. Steps are classified as for
Redis. A sweep takes a filtered and sorted part of the claims, in which the
module has no sort or filter but any order and any subsequence that fits
(`Orders`, `Kept`), so that both are within reach of the provers.

### QueueWorker

For any configuration that `validate` accepts (`ValidConfig`), any workers, jobs
and bounds, under `BackendConfig`.

| Theorem | Statement |
|---|---|
| `RunsTheBackend` | `Spec => Backend!Spec`: a behaviour of the workers is one of `InMemoryBackend` |
| `TypeCorrect` | `Spec => []TypeOK`, permits included |
| `InvCorrect` | `Spec => []Inv` |
| `StopCorrect` | `Spec => []StopAbandonsNothing` |
| `PromptSendsCorrect` | `Spec => PromptSendsKeepClaim` |

`RunsTheBackend` makes every theorem of `InMemoryProofs` one about the workers
(`Proved`, an instance of that module). On top of its `Inv`: `HoldInv`
(tasks hold different tokens), `StopInv` (a stopped loop holds nothing), `ClaimInv`
(every claim has its task, unless it panicked), and `TimeInv` (a sweep under way
spares what is younger than `visibility_timeout`, and no send outlasts
`job_timeout`), whose sum is `PromptSendsKeepClaim`.

### JobSend

For any configuration, transport, set of answers and bound, under `JobSendConfig`
(all numbers are natural) and `PowersAssumption`, a fact of arithmetic that is
an assumption only because the provers have no theory of `^`.

| Theorem | Statement |
|---|---|
| `SendTypeCorrect` | `Spec => []TypeOK` |
| `CallBoundCorrect` | `Spec => []CallBound` |
| `EveryRetryUsedCorrect` | `Spec => []EveryRetryUsed` |
| `NoCallAfterRejectionCorrect` | `Spec => NoCallAfterRejection` |
| `WaitsAsAskedCorrect` | `Spec => WaitsAsAsked` |
| `NotParkedCorrect` | `Spec => NotParked` |

The inductive invariant `SendInv` has three parts besides the types. `CallInv`
counts calls as attempts times `RetryCount + 1`, plus the tries of the current
one: the bound on the total says nothing of how much of it is left. `EndInv`
says that a refusal has ended the job, so no call can follow. `WaitInv` puts
whatever the job waits for (`due` or `wake`) after the provider's wait unless
`job_timeout` cut one. `FailsFacts` and `ReportsFacts` classify once how a try ends.

### SendBulk

For any batch, concurrency (0 included), retry count, set of invalid emails and
answers, under `SendBulkConfig` (all numbers are natural).

| Theorem | Statement |
|---|---|
| `BulkTypeCorrect` | `Spec => []TypeOK`, the window included |
| `ResultsTellTheTruthCorrect` | `Spec => []ResultsTellTheTruth` |
| `NoNeedlessCopyCorrect` | `Spec => []NoNeedlessCopy` |
| `InFlightCorrect` | `Spec => []InFlightBound` |

The inductive invariant `Inv` adds to the types that each result is how its own
email ended (`Yielded`) and, per email, an account of its copies (`Counts`): no
more than attempts made, no more than lost answers plus one, and that one only
once it ended in `ok`. The bounds alone are not inductive, since they do not say
that an email about to be called again still has a copy to spare. Every action
but `Start` and `Yield` moves one email (`OneEmailSteps`), and the four ways a
call ends are one (`CallEnds`). `InFlightBound` follows because the running sends
lie between the last result and the last email started.

### Message

For any addresses, headers, ids, files and defaults, any number of calls of the
builder and any number of attempts, under `MessageConfig` (what the sets of inputs
are made of) and `HeaderNames` (the names of the threading headers are reserved and
differ, those of the priority are not reserved: `RESERVED_HEADERS`).

| Theorem | Statement |
|---|---|
| `TypeCorrect` | `Spec => []TypeOK` |
| `NobodyDroppedCorrect` | `Spec => []NobodyDropped` |
| `ContentCarriedCorrect` | `Spec => []ContentCarried` |
| `PathsCorrect` | `Spec => []PathsAgree` |

Three invariants. `EmailInv`: as long as no address was recorded as invalid, the
email is from and to just those the caller named (`Kept`); a malformed address
breaks this, but leaves its record, on which `validate` fails. `ContentInv` is the
same of the headers, and types the fields that no address is in. `SendInv`: every
attempt, on every path, hands over the messages of one and the same email
(`Handed`), so a property of all that leaves is one of `Wire`, which
`WireAddressed` and `WireCarries` establish for each transport.

`ContentCarried` needs facts about the lists themselves. The library's induction
theorems cannot be used, so `EveryStep` proves induction over the steps of a loop
by counting (a loop that falls short would map a finite set one to one into a
smaller one), and `EveryList` induction over lists as a statement about
sets of lists. `Only...`, `Values...`, `FileCount...`, `CombinedKeeps` and
`InsertedKeeps` say with them what each filter and fold keeps: taken apart and put
together, a list has all its files; joined headers have every value under a name, in
order, and no name twice; of headers with one value each, set in lettre's map, the
last of each name is left. `ValuesApart` then tells the caller's headers from the threading ones, since
the names of the second are reserved.

### Left to TLC

Every safety property that a passing run checks is the subject of a theorem above
(three of them under the hypotheses given there). Only checked by TLC: liveness
(`EventuallySettled` of both backends, `ShutdownStops` and
`SlowSendsSpareTheWindow`), which needs fairness, and the four violations.

## 5. What is not modelled

Texts: their wording, MIME, base64, the escaping of the canned HTML, the display
form of an address. An `Address` written as a struct literal, past its
constructors. Reading an attachment from a file behind its size cap: two I/O
calls, between which the file may grow. The template engines and the template
directory: third-party rendering and a walk at start; `send_template` takes any
answer of theirs. What lettre does with the calls `to_lettre` makes of it (but for its
map of headers, which is modelled from its documented behaviour), TLS, pooling, and the endpoint check of the HTTP helpers. `RedisBackend::stats`: five
reads that change nothing. The wall clock jumping back: the clock of the models
only moves forward.

## 6. Plan

Written, in this order: `JobLifecycle`, `RedisBackend` and its proofs,
`InMemoryBackend`, `QueueWorker`, `JobSend` and its proofs, `SendBulk` and its
proofs, `Message`; then `RedisLossProofs`, `InMemoryProofs`, `QueueWorkerProofs`
and `MessageProofs`. Next:

1. `LossIsReported` with crashes, as a theorem that names the two places where a
   trace may be lost instead of excluding them.
2. Safety facts that the liveness properties rest on and that no run states yet:
   that an accepted job always has a step to take, and that a worker's permits are
   all free when it has stopped.
3. The lemmas about loops and lists, now in `MessageProofs`, used for `SendBulk`'s
   results as well.
