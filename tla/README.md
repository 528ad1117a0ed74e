# AI Statement Analyzer in TLA+

A verification project for the AI statement analyzer: TLA+ modules translated
from its source, TLC runs on small instances, and theorems that TLAPS proves for
all instances. Paths are relative to the repository root.

## 1. The system

A client registers a bank or card statement, uploads its image to S3 with a
presigned URL, declares the upload complete and asks for the analysis. The API
queues a job in SQS. A worker claims the statement in PostgreSQL, reads the image,
has Bedrock recognise its lines, saves them and completes the statement. Reports
(monthly analytics, monthly insights) read what was saved.

    client --PUT--------------------------------> S3 (object per statement)
      |                                            ^            |
      |  POST /statements                HeadObject|            | GetObject
      |  POST /statements/:id/upload/complete      |            v
      +----> API (src/app.ts) ---------------------+        worker (src/worker/*)
               |        \                                   ^    |      \
               |         +--sendAnalyzeJob--> SQS --receive-+    |       +--> Bedrock
               |                               ^---deleteMessage-+
               +------> PostgreSQL: statements, transactions <---+

### Components

| Component | State | Operations | Source |
|---|---|---|---|
| Statement store | `statements` (status, processing token, lease, failure code), `transactions`; row locks | create, markUploaded, markQueued, resetQueuedToUploaded, claimForProcessing, markFailed, saveTransactionsAndComplete | `src/database/statement-repository.ts`, `migrations/` |
| HTTP API | a request in progress: the status it read, the call it awaits | POST /statements, .../upload/complete, .../analyze; GETs | `src/app.ts`, `src/server.ts` |
| Job queue | messages, their visibility and receive counts; dead-letter queue | send, receive, delete; redrive, retention | `src/queue/sqs-job-queue.ts`, `infra/lib/messaging-stack.ts` |
| Object store | one object per statement | presigned PUT, HeadObject, GetObject, expiry | `src/storage/s3-object-store.ts`, `infra/lib/storage-stack.ts` |
| Job handler | where an attempt is, its token, the lines recognised, its transaction | claim, fetch, OCR, save or record a failure; ACK or RETRY | `src/worker/analyze-job-handler.ts`, `src/worker/analyze-job-error.ts` |
| Worker loop | shutdown flag and deadline, receive backoff, abort controllers | receive, run the handler, delete, back off, shut down | `src/worker/analyze-worker.ts`, `src/worker.ts` |
| OCR | none | one call, classification of its errors, validation of its answer | `src/ai/bedrock-ocr.ts`, `src/ai/ocr-schema.ts` |
| Monthly analytics | none (one snapshot) | two aggregates, ranges, shares | `src/analytics/`, repository |
| Monthly insights | `monthly_insights`, an advisory lock, the pool | find, generate under the lock, save | `src/insights/`, `src/ai/bedrock-insights.ts`, repository |
| Migrations | `schema_migrations` | run what is missing | `src/database/migrate.ts` |
| Logging, configuration, smoke tests, one-off consumer, other infrastructure | none | | `src/observability/`, `src/config/`, ... |

### Interactions, and what makes them hard

* API and workers share nothing but rows, messages and objects. Every `await` in
  a handler is a point where anything else may happen; what was read before it
  may be stale after it.
* SQS delivers at least once. The message an attempt works on may be delivered to
  a second attempt while the first one runs, and a receipt handle may be stale when
  the job is acknowledged.
* A claim is a lease: it ends by the clock, not by an action of the holder. The
  holder may go on, and find out only when it writes (fencing by the token).
* `NOW()` is the time at which a PostgreSQL *transaction* began. An UPDATE that
  waited for a row lock, or the second check of a long transaction, compares with
  an old time.
* A client of the database that gives up (`query_timeout`, a lost connection, a
  killed process) does not take its statement back: the server may run it later.
  The worst case is COMMIT, whose answer may be lost either way.
* The API writes QUEUED and then sends the message: two systems, no transaction.
* The dead-letter queue, the retention period and a request that stops between
  the two writes end the automatic path; an operator goes on from there.

### What makes each component correct

* Store: the claim excludes; terminal statuses are final; lines and COMPLETED
  appear together, and all of one attempt.
* Handler and worker: a message is deleted only when the outcome is committed;
  work begun is settled or leaves a trace.
* API: QUEUED is backed by a message or by a request that will send it or take the
  status back; a client error does not become a worker failure.
* Queue and object store: what SQS and S3 promise, no more.
* Reports: consistent snapshot; no stale insights presented as current; requests
  that wait do not exhaust the pool.
* Migrations: each version at most once, all or nothing; overlapping runs get there in the end.

`PROJECT.json` lists the hazards, each at its line, with the properties aimed at it.

## 2. The modules

    Environment            statement ids, clock, failures
      StatementStore       rows, lines, row locks, late statements
      JobQueue             messages, dead-letter queue
      ObjectStore          images
        AnalyzeJob         the handler of a job    (StatementStore, JobQueue, ObjectStore)
        StatementApi       the three POST handlers (StatementStore, JobQueue, ObjectStore)
          StatementSystem  everything together; fairness; properties
            SystemInvariant       the inductive invariant
              MCSystem            model checking
              StatementSystemTypes, StatementSystemProofs,
              LifecycleProofs     theorems
    StatementLifecycle     what the whole promises to a reader of the tables

    MonthlyInsights        a request for the insights of a month; cache, lock, pools
      MCInsights           model checking
      MonthlyInsightsProofs   theorems

    ErrorClassification    what is made of an error
      AnalyzeWorker        one worker process: loop, backoff, shutdown
        MCWorker           model checking
        AnalyzeWorkerProofs   theorems

    OcrResult              which OCR answers are accepted, and stored
    MonthlyAnalytics       ranges, sums, shares and changes of a month
      InsightsDocument     fingerprint, and which insights are accepted
        StatementFigures   from the OCR answer to the insights (OcrResult, InsightsDocument)
          MCFigures        model checking
          StatementFiguresProofs   theorems (SumTheorems: sums over finite sets)

    Migrations             overlapping runs of the schema migrations
      MCMigrations         model checking
      MigrationsProofs     theorems

### Environment

One integer clock `now`, read by PostgreSQL as `NOW()` and by SQS for visibility.
`faults` counts what goes wrong: `Fault` is a conjunct of every action that models a
lost connection, a timeout, an aborted call, a killed process, a duplicate
delivery or an expired message. `MaxTime` and `MaxFaults` bound both.

### StatementStore

`row[s]` holds the columns that control anything: `status` ("ABSENT" before the
INSERT), `token` (processing_token), `lease` (processing_lease_expires_at) and `failure`
(failure_code). `lines[s][n]` is the attempt whose upsert wrote line `n` of the
`transactions` table; the other columns of a line are data. `lockedBy[s]` is the
transaction holding the row (`SELECT ... FOR UPDATE`). Operators have the names of
the repository methods and give the new table; `Claimable` and `Owns` are the two
WHERE clauses on the lease. A statement runs only when `Unlocked`.

An autocommit statement whose caller gave up becomes a member of `orphans`: it
keeps the time at which it read `NOW()` and runs once, later, or never.

The image metadata, the timestamps, the model names and `updateStatus`, which
nothing calls, are left out.

### JobQueue and ObjectStore

SQS and S3 are not in the repository; they are modelled from the settings in
`infra/lib/` and from what the adapters in `src/` use. A message has a place
(unsent, queue, deadLetter, expired, deleted), a time at which it is visible and a receive
count. A stale receipt handle may or may not delete. A duplicate delivery, of a
message that is invisible, is an action of `AnalyzeJob` and counts as a failure. An object
is absent, matching or mismatched: the only comparison the code makes is with
the registered content type and length. `trust` is a history variable that
`SourceFailureNeedsChange` needs. A malformed message body, on which `receiveOne` throws,
does not arise: only `sendAnalyzeJob` fills the queue.

### AnalyzeJob

An element of `Attempts` is one delivery and the run of the handler for it; it
stands for the UUID the handler draws as token, too. `pc[t]` follows the handler;
the diagram at the head of the module has all its states. Every await is a state,
so anything may happen between any two. `txn[t]` follows the transaction of
`saveTransactionsAndComplete` on the server's side, which may outlive its attempt: "begun" (NOW() is
fixed), "checked" (locked and found to be owned), "written", "completed",
"committed"; "doomed" when a check failed; "inDoubt" when a COMMIT was sent and its answer lost;
"aborted". Lines become visible at the commit only, so `WriteLines` changes nothing but
the state of the transaction.

`Abandon` is every way in which an attempt stops without deleting its message: a
call fails and the handler answers RETRY or throws, the deadline of the shutdown
passes, the process dies. What is in flight then is left to the server.
RETRY without a failure (somebody else holds the claim, a check failed) is an
ordinary step to "left".

The OCR is its outcome: a nonempty set of lines, or the permanent failure that
the handler records (three failure codes of the code, one value here), or a
retryable one (`Abandon`).

### StatementApi

A request is a handler in progress; `phase` is the await it is at and `target` its
statement. Requests that only answer change nothing and are not actions.
`CompleteUpload` and `Enqueue` cover both branches of the UPDATE (a row, or none because the
status had changed). `SendFails` is a failed send as the API sees it; the message may
exist. `AbandonRequest` is a call that fails or times out where the handler answers 503,
or the end of the process. `stranded` is a history variable: the statements one of whose requests
was cut off between markQueued and its end. `MessageLeft` only keeps a request from
running out of message ids.

### StatementSystem

Composes the two, adds time, redrive, retention and late statements, and states
the properties. `Tick` is enabled while some test of the clock could still change its answer
(`TimerPending`), so behaviours do not differ by idle time. `Backend` is all but the clients.

### StatementLifecycle

The abstract specification: `status`, `holder` (the token) and `outcome` (the lines), and seven
transitions, each atomic and without leases, messages, locks or failures.
`Complete` sets the status and all lines of one holder in one step; a `Claim` may take over from another
holder. `LifecycleImplemented` says that `StatementSystem` implements it under the mapping in
`StatementSystem.Lifecycle`.

### MonthlyInsights

Stands alone: it shares with the path of a statement only that a completed statement
changes the figures (`CompleteStatement`). An element of `Requests` is one run of
`getMonthlyInsights`; `phase[r]` is the await it is at (diagram at the head of the
module) and `on[r]` the pooled connection it holds. The data are versions: `figures` counts the
completions, and insights are the pair of versions of the two months they were made from with
the model and prompt of the process (`Lookup`, the fingerprint and columns of the cache row). `cached` is
the one row of the month. `snapshot[c]` is what a REPEATABLE READ transaction on connection
`c` sees; `lockedBy` the transaction-level advisory lock; `writer` the uncommitted upsert, behind
which another one waits.

`Return` gives a connection back clean; the one place that may give it back with its transaction is
`AnalyticsFail`, when the ROLLBACK fails too (`RollbackMayFail`). `Abandon` is a failed
ROLLBACK of the generation, whose connection is closed, and the end of the process: the
server settles later (`ServerSettles`), a COMMIT either way. A statement that waits for the lock for a
client that is gone gets it at some time and lets it go at once; that is left out.
The shape of Bedrock's answer and its validation are one choice of `Generate`, and a cached
row that is no longer valid for its own figures does not arise.

External, and assumed: pg's pool lends a connection in the state in which it was
released unless it was released with an error; `query_timeout` ends the wait of the client only, and
takes a query off the client's queue when it has not been sent.

### ErrorClassification and AnalyzeWorker

`AnalyzeJob` lets every attempt be cut off anywhere; `AnalyzeWorker` is the process that does it. It models
one `AnalyzeWorker.run` with the process around it (`src/worker.ts`): `loop` is the await the loop is at,
`backoff` and `wait` the receive backoff, `requested`, `remaining` and `aborted` the
shutdown, its deadline and the abort signal of the handler. The handler is its stages (`handler`), the error a stage failed
with and what was recorded. Everything between two awaits is one step: an action that ends a turn of the loop
tests its condition too (`Again`). When the deadline has passed the loop goes on and its
handler is left behind: `handler` still runs while `loop` is "stopped", and `pool.end()` waits only for
connections in use (`PoolEnds`). `Raised` says what a stage may fail with; an aborted signal adds
`Aborts` to the calls that take one, which saving does not.

Assumed: an aborted receive settles before the deadline; nothing else of S3, Bedrock or PostgreSQL is
assumed to answer. ECS's own `stopTimeout` is 30 s (`infra/lib/application-stack.ts`), as long as the deadline, so ECS may
kill the process at the moment the deadline passes; `Killed` may happen at any time.

`ErrorClassification` is `classifyAnalyzeJobError` and `classifyBedrockError` over errors that are a name
and a code. Of the errors that are treated alike its sets hold one or two.

The documents differ on what a shutdown does to the job in progress: docs/sqs.md:52 and plans/phase-06.md:48 let
it end, docs/bedrock.md:125 says that it is aborted. The code aborts its calls at once, but waits for
the handler; the model follows the code.

### OcrResult, MonthlyAnalytics, InsightsDocument, StatementFigures

The first three are functions of the code over small data; `StatementFigures` is the way of the data through them, with
one step for the end of a job and one for a request for insights (the interleavings are those of
`StatementSystem` and `MonthlyInsights`). `lines[s]` are the rows of a statement by line number, `cache[m]` the row of a month with its
fingerprint, `reply` the last answer.

* A document is a sequence of lines, an insights document a sequence of insights; one value each stands for all
  that have another shape. Names and merchants are values, a date is a record. `DateUtc` is
  `Date.UTC` with its overflow into the next month and its reading of the years 0 to 99.
* Buckets are sets: their names are unique and the code sorts them by amount and name, so their order says nothing more.
* Percentages count in tenths. `toFixed(1)` rounds the double, which for a value halfway between two tenths lies above or
  below it; `tieUp` makes both happen.
* The fingerprint is the canonical input itself: SHA-256 is taken as injective.
* The save is one `INSERT ... ON CONFLICT (statement_id, line_number) DO UPDATE` per line (docs/idempotency.md:51): a line
  whose number another one of the answer has takes its place (`Upserted`) and fails nothing. That this does not happen is the
  work of `validateLineNumbers`; `NoLineIsLost` says so, with `answer[s]`, a history of what was to be saved.
* What an INSERT does fail on is `Insertable`: dates that do not exist, the CHECKs of the table, and text
  with a U+0000 (`UnstorableNames`), which zod's `trim()` lets through and PostgreSQL refuses. Such a statement
  stays PROCESSING and its job is tried again with another call of the OCR; the model calls it "REFUSED" meanwhile, and
  `OnlyNulIsRefused` says that nothing but a U+0000 leads there.

### Migrations

One element of `Runners` is a task that runs `runMigrations`, again and again, from images whose files are 1..n
(`Images`). `created`, `looked`, `ran` and `inserted` are what its open transaction has done; the locks behind them make
other runs wait (`ClaimName`, `RunSql`, `LookForRows`, `AlterStatements`, `RecordVersion`). External: READ COMMITTED, the
catalog's unique index that makes the second of two `CREATE TABLE IF NOT EXISTS` fail or pass, the table locks with their
queue, the detection of deadlocks. Every migration of the repository fails when its SQL is run a second time;
`Repeatable` stands for later ones that would not (`CREATE ... IF NOT EXISTS`, an UPDATE), of which only the primary key
of `schema_migrations` keeps the second run away.

The SQL of 003 is two steps, because its two halves lock `statements` in two modes. `LookForRows` is the DO block: it
reads the table and keeps ACCESS SHARE, which lets an API insert and another run look. `AlterStatements` is the ALTER
TABLE, which needs ACCESS EXCLUSIVE: it waits for every other run that has looked (`QueueForTable`), and whoever asks
for the table later waits behind it (`SomeoneQueues`). Two runs that have both looked wait for each other until PostgreSQL
fails one (`LoseDeadlock`), which is rolled back and repeated by its operator. `InsertOldRow` is an API of an image older
than 003 that is still running, and may insert between the two halves; the ALTER then fails, because
`NOT NULL` columns without a default cannot be added to a table with rows. That, and not the look, keeps old rows
out: the look makes the failure one with a message.

## 3. Properties

| Property | Says | Would break if |
|---|---|---|
| `AckOnlySettled` | a deleted message's statement is COMPLETED or FAILED | a job claimed by somebody else were acknowledged, or a failed markFailed ignored |
| `LinesOfOneAttempt` | lines exist exactly with COMPLETED and are one attempt's, complete | upserts and UPDATE were not one transaction, or the row not locked |
| `LeaseIsExclusive` | a row with a good lease changes only to COMPLETED or FAILED, and by a step for the attempt whose token it carries: a save of its own, or an UPDATE to FAILED that was sent with its token | markFailed did not compare the token, or a claim ignored the lease |
| `OnlyTheHolderWrites` | lines change only for the token in the row, in PROCESSING | the token were not in the WHERE clause |
| `TerminalIsFinal` | nothing changes a COMPLETED or FAILED statement | a late UPDATE, claim or reset were unguarded |
| `QueuedIsBacked` | QUEUED has a message, a request that will send it or take it back, or a request that was cut off | the reset after a failed send were missing |
| `SourceFailureNeedsChange` | an image failure implies the object changed after HeadObject accepted it | upload/complete accepted an object that does not match |
| `WorkSettles` | QUEUED or PROCESSING leads to a settled status, UPLOADED, the dead-letter queue, retention or a request cut off | redrive or a lease did not end |
| `LifecycleImplemented` | the whole implements `StatementLifecycle` | the reset were not conditional on QUEUED |
| `ConnectionsAreReturned` | a request holds a connection exactly in the phases between taking and returning it, and nobody shares one | some way out forgot the release |
| `GenerationIsNeeded` | what a request pays Bedrock for is not in the cache, until it has put it there | there were no second look, or the lock were in the process's memory |
| `InsightsAreNotOld` | an answer is of one moment not before the request, and of its process's model and prompt | the two aggregates had two snapshots, or a row of another version were returned |
| `RequestsEnd` | requests end without any timeout | the holder of the lock needed a second connection |
| `StopsByDeadline` | receive, handler and delete share one deadline after the request for shutdown | a second signal moved it, or each had its own |
| `AbandonedIsAborted` | a handler that is left behind knows | one that starts after the request were never aborted |
| `ShutdownFailsNothing` | an abort never makes a statement FAILED | aborts were classified by the stage |
| `BackoffMatchesFailures` | the n-th failure in a row waits 2^(n-1) times the first wait, up to the maximum | a success did not put it back |
| `DatabaseIsLeft` | after the end of the pool no handler is in the database | the pool let a late handler in |
| `ShutdownEnds` | `run()` returns after a request, also if handler and delete hang | the delete had no deadline |
| `KeepsReceiving` | the loop comes back to the queue after whatever it received | an invalid message ended it |
| `AppliedOnce` | no migration takes effect twice | `version` were no primary key |
| `RecordedIsApplied` | what took effect is what is recorded | the SQL ran outside the transaction |
| `DoneIsApplied` | a run that reports success has left its schema | an error were swallowed after the ROLLBACK |
| `MetadataIsComplete` | no statement without upload metadata once they are columns, also if one is inserted between the look and the ALTER of 003 | the columns of 003 had a default |
| `SchemaArrives` | overlapping, failing and deadlocked runs get there in the end | `CREATE TABLE` had no `IF NOT EXISTS` |
| `NoLineIsLost` | a COMPLETED statement has every line of its answer | only neighbouring line numbers were compared |
| `OnlyNulIsRefused` | of what the OCR schemas accept, the table refuses only a U+0000 | any day from 1 to 31 were a date |
| `EachLineCountsOnce` | a line counts in one month, and the months together have all the money | months were counted from 1 in the shift |
| `MonthsAgree` | the month before is what its own request answers | a month whose amounts cancel out counted as empty |
| `SharesAddUp` | buckets make up the total and their shares 100 %, but for rounding, with refunds | shares were of the absolute total |
| `IncreaseIsReal` | an insight of an increase, cached or not, is true of the lines | changes were in parts of a signed amount |
| `FoundIsUsable` | insights found under the fingerprint are valid for the figures | the fingerprint left out the month before |
| `SafetyInv`, `TypeOK` | the inductive invariant of the proofs | |

Each property of a passing run has a mutant of a definition (an operator named for it, just
before the definition it changes) under which TLC finds it violated.

## 4. Runs

`workers` and `completing_update` start in `QueuedInit`: the statement queued with one
message, its image possibly changed since it was checked, no clients. It is the state after a
first analyze request; `liveness` starts just before it (`RequestedInit`, a request has read the uploaded statement and is about to
queue it). `requests` starts in `Init` and covers the way to both.

| Run | Specification, instance | Shows |
|---|---|---|
| `workers` | QueuedSpec; 1 statement, 3 attempts, 2 lines, 1 message, MaxReceive 2, 2 faults | fencing: expiry, redelivery and a duplicate, three attempts at once, crashes and lost answers at any two points |
| `requests` | Spec; 2 requests, 2 messages, 1 attempt, 2 faults | both writes of analyze against a concurrent one and a worker; inductive invariant, types, refinement |
| `liveness` | RequestedFairSpec; 1 request, 2 attempts, MaxReceive 2, 1 fault | work settles, from the API on |
| `completing_update` | QueuedSpec; 1 attempt, no fault; **violation** | finding 1 |
| `insights` | Spec; 3 requests, 2 processes of equal or different profile, pools of 2, 1 completion, 2 faults | safety in one process and across two, with failures and cut-offs at any two points |
| `insights_liveness` | FairSpec; 3 requests, 1 process, pool of 2, 1 fault | nobody waits for ever |
| `leaked_transaction` | Spec with RollbackMayFail; **violation** | finding 2 |
| `numbers_available` | Spec, no fault; **violation** | finding 3 |
| `worker_process` | FairSpec; waits 1, 2, 3, 3 of at most 3, a deadline of 3, 4 counted failures | the loop and its shutdown at every point |
| `permanent_errors` | Spec, all bounds 1; **violation** | finding 4 |
| `migrations` | FairSpec; 2 runs, images 1 to 3, 3 versions of which one is repeatable, 2 faults | overlapping runs, deadlock in 003, lost answers, an old API |
| `figures` | Spec; 3 statements, 38 OCR answers of which 16 do not pass and one is refused, 9 insights documents, 24 months | the data from the OCR to the insights |

Bounds. `LeaseTime` 1 and `VisibilityTime` 2 keep the order of 600 s and 900 s; a longer attempt than a
lease, or than a visibility timeout, is still possible because nothing limits the ticks
between its steps. `MaxTime` lets lease and visibility end at least twice in the safety runs
and never stops the clock in the liveness runs (it is above the last time any test can
be about). `MaxReceive` is 1 or 2 for the real 3: first delivery, redelivery and redrive all
happen with 2. Three attempts are a holder, a usurper and a duplicate. Two lines let two results differ,
overlap and be contained in one another; one line is enough where the run is not about
lines. Two failures let a failure meet another's recovery. Statements, attempts, messages,
requests and lines are symmetric in the safety runs; the liveness runs use no symmetry. One statement is enough:
a row, its lines, its lock, its messages and its object are functions of the statement, and the only thing two
statements share is the supply of attempts and requests, of which each belongs to one of them.

In `MCInsights` a pool of 2 stands for pg's 10: three requests in one process are more than its
connections, with one that generates, one that waits and one without; two processes let two requests meet
that share nothing but the database. One completion gives every request, row and snapshot an older and a newer value to have.

In `MCWorker` the waits 1, 2, 3 reach the maximum other than by doubling to it, and four failures in a row go past it. A deadline of
3 leaves time for a handler and a delete within it, and for each to pass it. In `MCMigrations` two runs are what a
deadlock, a wait for a lock and a second COMMIT take; both may start from image 3 after one has committed the files of image 1
or 2, and so meet at 003, and image 1 is the old API's. Version 3 is 003, and 2, below it, is repeatable. Two faults let a lost
COMMIT meet a killed run. In `MCFigures` the dates are the first and last days around a year's end, the amounts a refund, one that
cancels it, and one of which a change by 1 is half a tenth of a percent; three statements put two into one month or all
into two. `MaxTransactions` 3 and `MaxInsights` 2 stand for 100 and 5, `MaxAmount` for 100_000_000.

`CHECK_DEADLOCK FALSE`: a statement that is settled with clients gone is the end
of the system's work, as are requests that were answered, and the bounds on ids end the rest; a worker process
ends. `migrations` and `figures` check for deadlock.

Fairness. Weak fairness of the steps of requests and attempts (Node.js goes on
with a handler whose call was answered, and calls are answered or fail), of the
workers' receiving (`AnalyzeWorker.run` loops for ever), of PostgreSQL settling what it was
left with, of SQS redriving, and of time. None for clients, failures or retention.
In `MonthlyInsights` fairness is strong: the pool serves its waiters in their order, and PostgreSQL
those of a lock, so a request that waits is not passed over for ever. Completions
and failures have none; Bedrock's call ends because it is aborted after 30 s.
A stop of all workers for good is not covered: ECS restarts the service.
In `AnalyzeWorker` the timers fire and a receive is answered, after 20 s of long poll or at once when it is aborted.
Handler, delete and pool have no fairness: that the shutdown ends without them is the point. `KeepsReceiving` has
their end as its premise. In `Migrations` queries are answered or fail, PostgreSQL ends a deadlock, and an operator repeats a run that failed.

## 5. Findings

1. **The second check of the lease repeats the first.**
`docs/worker.md:74-78` and `docs/database.md:28` say that the lease is compared with the database's
time at the start of the saving transaction and again at the completing UPDATE.
The UPDATE (`src/database/statement-repository.ts:864`) uses `NOW()`, which PostgreSQL fixes at
BEGIN, and the row is locked since the first check. The second check therefore never
fails when the first passed: a save that outlives its lease completes. The run
`completing_update` shows it. No harm follows: `OnlyTheHolderWrites`, `LinesOfOneAttempt` and
`LeaseIsExclusive` hold and are proved, because the lock, not the second check, excludes others.

2. **A transaction may stay on a connection of the pool.** When a query of
`findMonthlyAnalytics` fails and its ROLLBACK fails too, line 559 of the repository drops the second error and
line 562 releases the connection as if it were clean. Two timeouts of `query_timeout` in a row do that: the
first SELECT still runs at the server, so the ROLLBACK behind it is not even sent. The
next request that gets the connection reads in the old REPEATABLE READ transaction. The run
`leaked_transaction` ends with an answer older than its request, against plans/phase-11.md:50
("古いInsightsをfallbackとして返さない"). The generation, lines 756-764, releases with the error in the
same case. What else of the API may run on such a connection, and not be committed, is on the plan.

3. **Requests for insights use up the pool.** API_DESIGN.md:268 and the last line of docs/analytics.md
say that the API of the figures goes on when the insights fail. A request takes its connection before
it waits for the advisory lock (line 733) and keeps it during Bedrock's call. In the run
`numbers_available` one that generates and one that waits hold a pool of two, and the third, which needs
the figures, finds none; with pg's ten it takes ten requests. They then fail after 2 s for as long
as Bedrock takes. It is not a deadlock: `RequestsEnd` holds.

4. **Unknown errors of the OCR call are permanent.** docs/worker.md and plans/phase-09.md:23 describe `OCR_NON_RETRYABLE` as an
explicit non-retryable error of Bedrock, and docs/sqs.md:58 counts errors of the network among those to retry.
`classifyBedrockError` (`src/ai/bedrock-ocr.ts:238`) calls everything NON_RETRYABLE that is not on its list of eleven names and codes. A
name lookup that fails (ENOTFOUND) or credentials that cannot be read for a moment make the statement FAILED, and its
message is acknowledged. The run `permanent_errors` shows the shortest case.

## 6. Proofs

Every invariant and action property of a passing run, and the refinement, is a theorem, for all values of the constants
that meet the named assumptions. Only liveness stays with TLC.

| Module | Theorem | Statement |
|---|---|---|
| `StatementSystemTypes` | `TypeCorrect` | `Spec => [](TypeOK /\ WorkIsBound)` |
| `StatementSystemProofs` | `SystemIsSafe` | `Spec => [](TypeOK /\ SafetyInv)` |
| | `AcknowledgedIsSettled` | `Spec => []AckOnlySettled` |
| | `OneAttemptsLines` | `Spec => []LinesOfOneAttempt` |
| | `TerminalStays` | `Spec => TerminalIsFinal` |
| | `HolderWrites` | `Spec => OnlyTheHolderWrites` |
| | `LeaseExcludes` | `Spec => LeaseIsExclusive` |
| `LifecycleProofs` | `TokensStayNew` | `Spec => []TokensAreNew` |
| | `SystemImplementsLifecycle` | `Spec => LifecycleImplemented` |
| | `HeadComesFirst` | `Spec => []CheckedFirst` |
| | `FailuresHaveCause` | `Spec => []SourceFailureNeedsChange` |
| | `QueuedHasWork` | `Spec => []QueuedIsBacked` |
| `MonthlyInsightsProofs` | `InsightsTypes` | `Spec => []TypeOK` |
| | `PoolIsKept` | `Spec => []ConnectionsAreReturned` |
| | `LockExcludes` | `Spec => []LockIsHeld` |
| | `NothingIsPaidTwice` | `Spec => []GenerationIsNeeded`, if `~RollbackMayFail` |
| | `AnswersAreNotOld` | `Spec => []InsightsAreNotOld`, if `~RollbackMayFail` |
| `AnalyzeWorkerProofs` | `WorkerTypes` | `Spec => []TypeOK` |
| | `DeadlineHolds` | `Spec => []StopsByDeadline` |
| | `NobodyRunsUnaware` | `Spec => []AbandonedIsAborted` |
| | `AbortsAreRetried` | `Spec => []ShutdownFailsNothing` |
| | `PoolEndsLast` | `Spec => []DatabaseIsLeft` |
| | `WaitsDouble` | `Spec => []BackoffMatchesFailures` |
| `MigrationsProofs` | `TypeIsInvariant` | `Spec => []TypeOK` |
| | `SafetyIsInvariant` | `Spec => [](TypeOK /\ SafetyInv)` |
| | `MigrationsApplyOnce` | `Spec => []AppliedOnce` |
| | `MigrationsAreAtomic` | `Spec => []RecordedIsApplied` |
| | `SuccessIsTrue` | `Spec => []DoneIsApplied` |
| | `MetadataStaysComplete` | `Spec => []MetadataIsComplete` |
| `SumTheorems` | `TotalPartition` | a sum over a union of disjoint sets is the sum of their sums |
| `StatementFiguresProofs` | `FiguresTypes` | `Spec => []TypeOK` |
| | `EveryLineIsSaved` | `Spec => []NoLineIsLost` |
| | `RefusedForNul` | `Spec => []OnlyNulIsRefused` |
| | `LinesCountOnce` | `Spec => []EachLineCountsOnce` |
| | `NeighboursAgree` | `Spec => []MonthsAgree` |
| | `SharesMakeUpTheTotal` | `Spec => []SharesAddUp` |
| | `IncreasesAreReal` | `Spec => []IncreaseIsReal` |
| | `FoundIsValid` | `Spec => []FoundIsUsable` |

### Assumptions

TLC evaluates them in each run of the module.

* `StoreAssumption`, `QueueAssumption`, `BoundsAssumption`: the "no such" constants are not members of their sets; LeaseTime,
  VisibilityTime and MaxReceive are positive integers, the bounds natural numbers. The sets of statements, attempts, messages,
  requests and lines may be infinite.
* `MigrationsAssumption`: images and `Repeatable` are sets of versions, and 003 is not the first.
* `TimesAssumption`: the timers of the worker are positive, and its first wait is not above the maximum.
* `InsightsAssumption`, `NothingAssumption`: bounds and "no such" constants again. `NothingIsPaidTwice` and `AnswersAreNotOld`
  have a hypothesis, `~RollbackMayFail`: that no ROLLBACK of `findMonthlyAnalytics` fails after a query of it has failed.
  Without it the second is false, which is finding 2. What the pool lends and the lock excludes holds all the same.
* `FiguresAssumption`: finitely many statements and years; an answer of the tool that is of any shape is a sequence of
  lines with the fields of its schema, which may hold anything but the value that stands for no field; the months of
  insights are months; what stands for "no row" is no row. `NullAssumption`: null is neither a number nor a row of totals.
  `OcrAssumption`, `InsightsDocumentAssumption`: the limits are positive, and the subcategory "なし" is in no list.

### The statements: why the invariants hold

None of the properties is inductive. That a commit writes only its own
lines follows from `SaverHoldsClaim`: from the check under the row lock to the end of the
transaction, the row is locked by the attempt, in PROCESSING and with its token.
It is inductive because every other UPDATE waits for the lock (`Unlocked`) and
because two attempts cannot hold the lock of one row. `AckOnlySettled` needs `AckFollowsOutcome` (an
attempt in "acking" has a settled statement), which needs that settled stays
settled; that in turn needs `SaverHoldsClaim`, since a commit is the one write without a WHERE
clause at its moment. `LinesOfOneAttempt` is `LinesFollowCommit`: the lines are the `result` of a
committed transaction, and `result` is not touched after the commit (`SaveFollowsOcr`). `LeaseIsExclusive` needs
`ClockIsAhead`: a claim that waited compares the lease with a time not after now. That the step is the holder's needs only the
guards: `MarkFailed` compares the token, and the completing UPDATE comes from the attempt that `SaverHoldsClaim` is about. `WorkIsBound` and
`RegisteredFirst` tie messages, jobs and requests to registered statements.

The proofs split each step twice: by what it may do to a row (`RowMove`, `NextMovesRows`)
and by whose step it is (`ActionOf`, `NextByAttempt`, `NextByActor`); the invariants are then
proved from these facts rather than action by action, except where an action
matters.

The refinement goes by the steps that change a row or a line: a claim, a recorded failure, a commit, the four UPDATEs of the
API, and each of these run late. A claim must give the row a `holder` other than the one before, and `Complete`
must bring the lines of the present one. The first is not in `SafetyInv`: it needs `TokensAreNew`, that a token which is in a row, or in
a claim that was given up and may still run, is no other attempt's and never drawn again. The second is
`SaverHoldsClaim` and `SaveFollowsOcr`.

`SourceFailureNeedsChange` looks back: who records a failure of the image (an attempt about to, or an UPDATE that may still
run) has met a changed object (`FailuresAreFound`), because each job is for a statement whose HeadObject matched
(`CheckedFirst`), and an unchanged object stays the one that matched. `QueuedIsBacked` lacks one thing to be inductive, the
UPDATE to QUEUED that runs after its request has gone (`QueueingIsKnown`).

### Insights

`ConnectionsAreReturned` is inductive with the types. `LockIsHeld` says who has the lock of a profile, also after its client has gone:
the upsert that awaits its COMMIT. `SnapshotsEnd`, that only a comparing request has a snapshot, is where the hypothesis is
needed: the failed ROLLBACK returns a connection with one. `ReadsAreConsistent` follows the figures a request has read from
the first aggregate to the answer. `GenerationIsNeeded` follows from the second look under the lock, which no other
writer of the profile can pass.

### Worker

`TimeIsShared` (what has passed since the request for shutdown and what is left make up the timeout) gives the
deadline. `HandlerIsWatched` (a handler runs while the loop waits, later only with an aborted signal) gives
`AbandonedIsAborted`. `VerdictIsFinal` and the table of errors (`PermanentHasCode`) give `ShutdownFailsNothing`.
`BackoffIsKnown` gives the next wait in every turn of the loop, between two waits too. That it
is a power of two needs 2^(n+1) = 2 * 2^n, of which the provers know nothing; `PowerDoubles` takes it from the number of subsets of a
set, which the library has as a theorem.

### Migrations

The four invariants speak of what is committed; what keeps them is what the open transactions hold. `RanIsInserted`: a
transaction has recorded what it has run, but for the file between the two statements. `OneRecorder`: a version it has inserted is neither
committed nor in another open transaction, which the wait in `RecordVersion` gives. With both, a commit adds one to `applied` only where
it was 0 (`AppliedIsRecorded`). `FilesAreBehind` carries `DoneIsApplied` from file to file: versions are only added to `recorded`, so what a
run has seen stays. `OldRowsAreBefore` also excludes old rows while a transaction that has run 003 is open, but not while one has only
looked: the ALTER tests again. The proof goes action by action,
each with the conjuncts of the invariant.

### Figures

The invariant of the steps is short (`StoredInv`): rows and insights that are stored have passed their validation, with what
`ParsedIsAccepted` makes of that (dates exist, amounts are whole and not 0, numbers differ, names are names). `UpsertsAreRows`:
of lines whose numbers differ the upserts make as many rows, which is `NoLineIsLost`. The rest is about what
is computed of such lines.

The sums are `MapThenSumSet`, a fold. The induction theorems of the library take an operator, which no installed prover can
instantiate, but induction over data is not out of reach where a set can stand for the formula: `SetInduction` derives from the well-foundedness of
the strict subset relation that a set of subsets that is closed has them all. `SumTheorems` proves with it that the
fold is defined, is the same in whatever order, and adds up over partitions (`TotalPartition`), is linear, and bounded by its largest
term. So the buckets of a column and the months of the years, which partition the lines (`ResponseOfLines`, `CurrentIsMonth`),
have all the money.

Rounding. `TenthsError`: a share in tenths, times the total, is off by half the total at most. Summed up over n buckets,
the shares are off by n halves (`BucketsAddUp`). `PositiveIsMore`: a change that rounds to something above 0 is above 0, so that an insight of an
increase is true (`IncreaseIsMore`).

### What is only model-checked

`WorkSettles`, `RequestsEnd`, `ShutdownEnds`, `KeepsReceiving` and `SchemaArrives`: liveness under fairness is beyond the
prover, which has no rules for ENABLED. The properties of the four runs that expect a violation are false.
`InsightsAreNotOld` with `RollbackMayFail` is one of them.

## 7. Not modelled

* What a user sees: response bodies, logging, validation of requests, formatting.
* The texts and the severity of insights and the prompts, which decide nothing; what Bedrock answers is any of the documents.
* Sums beyond 2^53, on which the figures answer 503: they take 90 million lines of the largest amount.
* Start-up and configuration; infrastructure other than queue and bucket.
* The one-off consumer and the smoke tests, which are not part of the running system.
* Redrive of the dead-letter queue by an operator, who acts outside the code.

## 8. Plan

Done: every component that keeps state or decides about data is modelled, and every safety property that a run
checks is proved. Next, in this order:

1. Proofs about what the properties do not say yet: the parts of liveness that are safety, such as that an attempt, a
   request or a run of the migrations that is not over has a next step, and that what a step works off does not come back.
2. The pool in `StatementApi`: an UPDATE of the API that runs inside a transaction somebody
   left on the connection (finding 2).
3. `AnalyzeWorker` shown to give the steps of an attempt of `AnalyzeJob` (a refinement).
