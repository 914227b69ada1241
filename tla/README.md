# A verification of the trade-finance document service

The program is a FastAPI service that takes PDF batches, stores them in S3, has them read by
Bedrock Data Automation (BDA) through Celery workers, and keeps jobs, users, API keys and an audit
log in PostgreSQL, with sessions and a key cache in Redis. This directory holds TLA+ modules
translated from its source, TLC configurations that check them on small instances, and proofs that
hold for instances of any size. `PROJECT.json` maps every definition to its lines.

Contents: 1 inventory, 2 modules and how they follow the code, 3 runs, bounds and what they show,
4 fairness, 5 what is proved, 6 where code and documentation disagree, 7 what is not modelled,
8 what is left.

Paths are relative to `src/src/app/` unless they start with `src/`.

## 1. Inventory

| Component | State it keeps | Operations | What is hard | What makes it correct | Modules |
|---|---|---|---|---|---|
| Upload API `routes/jobs.py` | the request in hand; writes S3, `jobs`, the queue, `audit_log` | `create_jobs`: per file put, insert, commit, publish; then one audit entry and a 202 | four stores, no common transaction; `get_session` commits after the response has left | row before message, object before row, a 202 lists only jobs that will be run, the audit log tells of no upload that broke off | `UploadJobs` |
| Job runner `services/jobs_runner.py` | columns of one row of `jobs` | `run_job`: mark processing, invoke, record the ARN, poll, fetch, mark success; `_mark_failed` | each session reads and commits separately and the ORM writes changed columns only; attempts at one job can overlap | ended rows are complete and agree with BDA; no job is left without anyone to end it | `JobRunner`, `JobLifecycle` |
| Task delivery `worker/` | unacknowledged messages | late ack, requeue, prefetch of one, soft and hard limits | crash, lost connection, double publish, killed child, cancellation inside the event loop | once without faults; again, and to an end, with them; never two attempts side by side while connections hold | `JobRunner` |
| BDA client `bda/` | none (BDA holds the invocations) | `start_invocation`, `wait_for_completion`, `fetch_and_parse` | retries of a call that took effect; two lists of transient codes; a deadline beside Celery's limit; four layouts of the output | what is on the row is the output of one invocation of this job and stays so, however often the call is made; its end is noticed in time | `JobRunner`, `BdaPolling`, `BdaOutput` |
| Result parsing `bda/parse.py` and the detail page `src/static/js/job-detail.js` | `extracted_fields` of a row | walk, merge and show confidences; choose the output; count pages and fields | recursive, and the page pairs by index what the walk filters | every score reaches the database (it does where it comes with a value); each is shown at its leaf | `BdaParse`, `BdaOutput` |
| Billing `services/billing.py` | `cost_usd` | `compute_cost` | the 30-field threshold; what counts as a field or a page | as the published formula | `BdaOutput` |
| API keys `routes/me.py`, `routes/admin.py`, `deps/auth.py` | `api_keys`, Redis `apikey:<hash>` | rotate, resolve | resolution is four calls to two stores; rotations overlap; nothing clears the cache | one active key (two only after overlapping rotations), never none; a dead key dies in bounded time | `ApiKeys` |
| User administration `routes/admin.py`, `routes/me.py`, `repos/users.py` | `users` | create, patch, soft-delete, reset and change of passwords | lost updates; live sessions and cached keys outlast a suspension | deleted stays deleted; a suspended user gets out in bounded time | `Accounts` |
| Sessions and login `routes/auth.py`, `services/sessions.py`, `deps/auth.py` | Redis `session:<token>` | login, logout, resolve | role and user are copied into the session; a slow login is overtaken by a suspension; the audit entry of a failed login shares a transaction that is rolled back | a session dies at its own time whoever uses it, and has a user; every attempt is audited | `Sessions` |
| Job queries, user and audit lists `repos/*.py`, `src/static/js/` | none; the page on the screen | count and page by offset, Prev and Next; a detail page that polls | rows come, change and go between two queries and two pages; one failed poll stops the page | paging through misses no more rows than came or went; an open page comes to show the end | `Listings`, `DetailPage` |
| Dashboard `routes/admin.py` | none | three periods, two queries each | six readings of a moving table | the figures fit together | `Dashboard` |
| Migrations `db/migrations.py`, `src/alembic/` | schema, advisory lock | upgrade at start-up | replicas starting together, crashes, a lost lock connection beside an upgrade that goes on | nobody serves on half a schema; upgrades do not meet; no start waits for ever | `Migrations` |
| Audit log `repos/audit.py` | `audit_log` | append | the entry's transaction is or is not the one of what it tells | see upload and login | `UploadJobs`, `Sessions`, `Listings` |
| Rate limiting `deps/ratelimit.py` | Redis windows | admit or 429 | which identity a window belongs to | (section 7) | |
| Infrastructure (settings, logging, middleware, health) | none | - | - | no state a property could be about | |

How they interact: the API and the workers share only PostgreSQL, RabbitMQ and S3 (`Stores`); a
worker calls BDA and polls it; authentication reads Redis and PostgreSQL on every request and
writes the key cache; the browser lists, pages and polls over the API while the workers change what
it lists. `PROJECT.json` lists the hazards of each part at its line with the properties that guard
it.

## 2. Modules

```
 JobLifecycle   <--refines--  JobRunner  --+
      ^                                    +--> DocPipeline      (MCDocPipeline)
      |         UploadJobs  ---------------+
      |         both EXTEND Stores; JobRunner alone:             (MCJobRunner)
      +-- INSTANCE -- Listings <- Dashboard <- DetailPage  --+
                            BdaParse, BdaOutput, BdaPolling  --+  (MCClient)
 Accounts <---- ApiKeys                                          (MCApiKeys)
          <---- Sessions  --+
              Migrations  --+                                    (MCServer)

 proofs: JobRunnerProofs <- PipelineProofs
         AccountsProofs  <- ApiKeysProofs, SessionsProofs
         BdaClientProofs  (of BdaParse, BdaOutput and BdaPolling)
         MigrationsProofs
         QueriesProofs  (of DetailPage, and so of Dashboard and Listings)
```

**`Stores`** is what the API and the workers share. `jobs` maps an id to its committed row, cut to
the columns the worker writes: `arn` is `bda_invocation_arn`; `result` stands for the fields, raw
output, counts and cost that one commit writes together, and is named by the invocation it came
from; `error` for code and message. `ready` counts the messages in the queue, `s3` the input
objects. `Flush(row, read, edit)` is what the ORM writes at commit: the columns whose value differs
from the one the session read, so a column another transaction changed meanwhile survives if this
one left it alone.

**`UploadJobs`** is `create_jobs` (`routes/jobs.py:35-106`). `req[r].pc` is the call the handler is
at: `read` a file, `insert` its row, `send` its message, `audit`, `teardown` of the dependency
`get_session`. Every call also has its failing form, with and without effect. `ApiCrash` ends all
requests of the process.

**`JobRunner`** is `run_job`, `_mark_failed`, the Celery settings and the BDA client. A session of
`run_job` is two steps, `x.get` and `x.set`. `run[s]` is the task in pool child `s`; `held` says
whether its message is still unacknowledged on the worker's connection. `InTry` is the extent of the
`try` block: an exception there reaches `_mark_failed` with the error code the handlers derive,
elsewhere it leaves the task. `tries` is tenacity's attempt counter. The client token is the job
id, so BDA's invocations are named by it. `dropped` is a history variable: jobs an attempt at which
ended by an escaped exception or a dead process and whose message will not come back.
`WorkerCrash` requeues what the worker held; `ConnectionLoss` requeues it and lets the tasks run on
(this is how two attempts come to overlap); `ChildKilled` acknowledges, since
`task_reject_on_worker_lost` is not set; `SoftLimit` either reaches a handler as an exception or
cancels `run_job` past both (`asyncio.run` cancels the main coroutine and `CancelledError` is no
`Exception`); `DbError` fails a database call, whose commit may have gone through.

**`JobLifecycle`** is the abstract specification: what a client may see of a job's status. With
`Reopening = FALSE` a job goes through its states once, with `TRUE` it may be processed again.
`JobRunner` is mapped to it by `status <- StatusOf`.

**`DocPipeline`** interleaves the API and the workers over the shared stores.

**`Accounts`** is the `users` table and `create_user`, `patch_user`, `delete_user`,
`admin_reset_password` and `change_password` as transactions: what was read, what is wanted, and a
commit that writes the columns that differ (`Changed`, `Written`). A request whose transaction is
open may be overtaken by any other.

**`ApiKeys`** adds both rotation handlers and `_resolve_api_key`. A rotation is `RotateRead` (select
the active keys), `RotateFlush` (the updates and the insert, which wait for row locks another
rotation holds) and `RotateCommit` or `RotateFails`; a resolution is the Redis lookup (`Hit`,
`Miss`), `CheckKey`, `CheckUser` and `Remember`. A Redis entry is the number of ticks it has left;
its value, the user's id, is determined by the key and left out. History variables: `since` counts
the ticks a key has been bad, `late` holds keys whose entry was written when they already were,
`crossed` the users whose last rotation to commit had been overtaken, which is that another rotation
of theirs committed after it had begun (`Overtaking` marks them at that commit).

**`Sessions`** is `login` step by step: the row and the password (`LoginCheck`, `LoginRefused`), the
Redis entry (`LoginStore`), the commit of the audit entry in the teardown (`LoginCommit`), and the
failure of each (`LoginFails`, which leaves a session already written). A session is the user and
the role as they were read, with the ticks it has left (`left`). Requests present one (`Use`,
`Logout`, `Authenticate`); what `require_admin` lets through changes `Accounts` (`AdminRequest`), a
user changes the own password (`OwnRequest`), the rest is `Turned` away. Nothing else ends a session
but `SessionTick`: no handler of `Accounts` touches Redis. History variables: `since` counts the
ticks a session has disagreed with its user's row, `late` holds logins overtaken by a change.

**`Listings`** is `list_paged` of the jobs, the users and the audit log, and the pages that walk
through them. `Count` and `Show` are the two queries of a request, `Turn` what the Prev and Next
buttons offer (`LastPage` is `renderPaginator`), `Open` a new filter. `Commit` is any transaction in
between; jobs live as `JobLifecycle` with reopening says, users are created, suspended, restored and
deleted, audit entries only appear. A row is its `created_at`, which is when its transaction began,
so rows may be committed out of their order. History variables: `unseen`, rows listed throughout and
not on a page yet; `left` and `grew`, how many rows left, or entered between a count and its page.

**`Dashboard`** reads the three periods one after another, each by `Totals` (all jobs and what they
cost) and `Rate` (those that succeeded), while `JobStep` goes on. **`DetailPage`** is the page of one
job: `Tick` is one request of the timer, which asks again while the job is not ended, and
`TickFails` one that throws, after which nothing asks again. A behaviour has one reader, since
readers do not disturb each other.

**`BdaParse`** is the walk of `explainability_info`, the field count and the detail page that shows
the confidences, as operators over JSON trees. A confidence is named by the path of the leaf it was
given for, so a score shown elsewhere is seen to be wrong. What BDA says of a leaf takes three forms
(`LeafForms`): a value, a value with its score, or a score alone, which is the form of the unit
test's and the fake BDA's payloads (`Bare`). `WalkNode` is `_walk_confidences` of a
node, given what becomes of the nodes below it. The code's recursion is unrolled to the depth of
`explainability_info`: `Walk` of an entry, `WalkField`, `WalkRow`, `WalkLeaf`. That nothing is
cut off by this is a theorem (`WalkIsDeepEnough`).

**`BdaOutput`** is `_resolve_output_paths`, the reading of the two outputs, the page count and
`compute_cost`. A key under the output prefix is its kind; a document is its pages and fields and
which of its outputs tells them. Money is in units of 0.0001 dollars.

**`BdaPolling`** is the clock of `wait_for_completion`: checks that take time, the sleeps of
`BACKOFF_SCHEDULE`, the loop's deadline, and the task's soft time limit, which is the same number of
seconds from an earlier moment (`limited` is whether the pool enforces it).

**`Migrations`** is `run_migrations` in several replicas: `Start` of the lifespan, `Acquire` of the
advisory lock, the upgrade in a transaction on another connection (`NothingToDo`, `Begin`, `Create`
object by object, `Collide`, `CommitUpgrade`), `Unlock`, `GiveUp` after an exception, and `Stop`.
Faults are `Crash`, `UpgradeFails` and `LockLost`, which frees the lock while the thread goes on.
`Crash` ends both of the process's PostgreSQL sessions at once: a COMMIT that the server is still at
work on when the lock is already free is not modelled.
`exposed` says that the lock was lost, `collided` whose upgrade met another's object (history).

Data left out everywhere: file contents and names, text of messages, timestamps beyond their order
(of `completed_at` only that it is set), hashes and ciphertexts, log lines.

Operators whose comment says "is not the code" are deliberate faults, each the mutation of one
definition under which a named property must fail.

## 3. Runs

| Run | Instance | Distinct states | What it asks |
|---|---|---|---|
| `runner_once` | 2 jobs, 2 children of 1 worker, a retried and a fatal AWS error, 2 attempts, killed children | 38 thousand | without redelivery each row goes queued, processing, one final status, once (refinement of `JobLifecycle`) |
| `runner_faults` | 1 job, 1 child on each of 2 workers, all five kinds of fault, every AWS call may raise an error that is not retried, with or without effect | 798 thousand | overlapping and broken attempts: no orphan, complete rows, agreement with BDA, stable extraction, refinement with reopening |
| `runner_recovery` | 2 jobs, 2 workers, crashes | 88 thousand | crashes alone never make two attempts overlap, and once they end every job settles for good |
| `pipeline` | batches of 2 files and of 1, 2 job ids, 1 or 2 copies of a message, 1 worker, killed child, API crash | 1.8 million | what a 202 promises and what a broken upload may leave |
| `api_keys` | 1 user, 1 edit at a time, 3 keys, 2 rotations, 1 caller, cache life 2 ticks | 906 thousand | time a bad key works, which rotations may leave two active keys |
| `client` | 2 fields of 4 shapes, 2 columns, tables up to 2 rows, every leaf with a value, a score or both, 3 forms of the input; every layout of up to 3 keys or 2 segments, up to 3 pages, field counts around 30; polling of 90 s with every end and checks up to 3 s. Or: 3 rows of a listing, pages of 1, one row may leave; a period of the dashboard begins with each row | 943 thousand | no score that comes with a value is lost, each is shown at its cell if every row has one; the output is found and priced by the formula; the end of an invocation is noticed in time. What a walk through the pages misses, whether a dashboard's figures fit together, whether a detail page comes to show the end |
| `server` | 1 account, an administrator's to begin with, 2 roles, 2 passwords, 1 login, 2 requests at a time, life 2 ticks. Or: 3 replicas that migrate and 1 that does not, an upgrade of 3 objects, 3 faults | 123 thousand | time a stale session works, that it has a user, that it ends, and that no overlap of requests undoes a deletion. Half a schema is never served, upgrades do not meet, no start waits for ever |
| `success_undone` | as `runner_faults`, with crashes and a fatal AWS error | | section 6 |
| `login_unaudited` | as `server` | | section 6 |
| `chip_on_wrong_row` | as `client`, the first part | | section 6 |
| `score_without_value` | as `client`, the first part | | section 6 |
| `two_active_keys` | as `api_keys` | | section 6 |

Two runs put components together that share no state (`MCClient`: the functions of the BDA client,
and the pages; `MCServer`: sessions, and the start of servers). Their "or" is a choice in the
initial state: a behaviour is of the one part, and the other stands still.

Why the bounds are enough. Jobs do not interact but through slots, so one job with two slots on two
workers shows every overlap of two attempts; two jobs are used where slots are contended. Two
attempts of tenacity (`runner_once`) have a first and a last. `runner_faults` has one attempt, since
its errors are not retried by tenacity and the call is made again by the next delivery; a retry
inside an attempt under all five faults is covered by the theorems only. In `pipeline` two ids serve
three files: the second batch can run only in the gaps of the first, and a run in which an id is
used up just stops; a batch of two has a first, a last and a broken middle. For keys, three ids and
two rotations give an old key and two new ones that miss each other, or two such new ones and the
rotation that repairs it; a life of two ticks separates a fresh entry, an ageing one and none. One
account suffices for keys and for sessions because no key, cache entry or session is shared by two,
and the proofs cover the rest; two requests at a time are what a lost update takes, and both may be
let in by one session. Pages of one row put a boundary between any two rows; three rows give one
before, at and after it, and one in each period of the dashboard. Three migrating replicas are a
holder, one that lost the lock and one that waits; three faults let all of them fail. Two table rows
give an unscored one before a scored one. 90 seconds reach past the last entry of the backoff
schedule (3+5+8+13+21+21 = 71), where it has become periodic.

Counters that could grow are bounded by their guards: `tries` by `MaxTries`, `since` by the life of
the entry plus one, messages by the number of jobs and `Copies`, keys by `Keys`, `left` of a listing
by `MaxLeft`, faults of migrations by `MaxFaults`.

Symmetry is over job ids, key ids, request slots, and, in `runner_faults`, the two pool children
(each on a worker of its own; no variable names a worker, so exchanging the children maps behaviours
to behaviours). It is used only in runs without liveness properties; the box-action and refinement
properties checked beside it are themselves symmetric.

`CHECK_DEADLOCK FALSE` stands in the runner and pipeline configurations because their workload is
finite: when every message is handled and every request over, the system rightly stops; and in
`client`, whose functions return. The others check for deadlock.

## 4. Fairness

`runner_recovery` (`RunnerFairness`):

* a message is delivered while one waits and a slot is free: the broker's job, weak fairness on the
  delivery as a whole, not per job (a slot that keeps coming free takes from a finite queue);
* a task in a slot keeps running (`RunStep(s)`, weak per slot): nothing in `run_job` waits for
  another task;
* BDA ends every invocation. This is an assumption about an outside service. The code's own guard,
  the polling deadline (`bda/poll.py:52`), is not counted on: the soft time limit of the task is the
  same number of seconds (`worker/celery_app.py:18`), runs from an earlier moment, and cancels
  `run_job` with the row in `processing`. Without this assumption the property does not hold.

No fairness is put on faults; `CrashesEnd` is a hypothesis of `EventuallySettled`.

`server`, of sessions: time passes (`SessionTick`, weak). Nobody need do anything for a session to end.

`client`: the browser's timer fires (`Tick`, weak). Neither workers nor users are assumed to move;
`PageShowsTheEnd` has as a hypothesis that the job comes to stay ended, and a failed request
(`TickFails`) as the way out.

`server`, of starts: a process that runs goes on (`StartStep`, weak per replica), and PostgreSQL grants the
lock in the order of its queue, so that no waiter is passed over for ever (`Acquire`, strong per
replica: the lock is free only now and then). Nothing starts a replica that is down.

## 5. What is proved

All theorems are about any number of jobs, slots and workers, any assignment of slots to workers,
any sets of retried codes and of faults, any number of requests and files, of users, logins, keys,
rotations and calls, of replicas and of objects of the schema, any number of rows of a listing, any
page size and any beginnings of the dashboard's periods, any number of pages, fields, columns and
table rows, any polling deadline and any duration of a status call. They assume the named constant assumptions
(`StoreConstants`, `RunnerConstants`, `UploadConstants`, `NoUserIsNoRow`, `ApiKeyConstants`,
`SessionConstants`, `MigrationConstants`, `ListingConstants`, `SinceOrdered`, `OutputConstants`,
`PollingConstants`, `ParseConstants`), which TLC evaluates in
every run of their modules: null values are no rows, slots are finite and have a worker, a document
has finitely many fields and columns, none of them called `confidence` or `value`, a batch has
a size, `MaxTries`, the lives of entries and the size of a page are positive, and a longer period
begins no later than a shorter one. A theorem that needs a hypothesis beyond these states it as an
ASSUME of its own; there are five, on faults and copies, discussed where they come.

`JobRunnerProofs`:

* `TypeCorrect` by `TypeInv`. The types alone are not inductive: a commit applies `Flush` to a row,
  so an attempt must have a row (`TaskInv`), which a delivered message must have had
  (`ready[j] > 0 => Exists(j)`).
* `SettledComplete` by `RowInv`. The difficulty is that a commit writes changed columns only: an
  attempt may set `status` to success and leave `result` as it read it. Rows only grow, though
  (`RowsGrow`: no commit clears a result, an error code or a completion time), and `AttemptInv` says
  what an attempt has to show at each label: an ARN once it has invoked, a code once it has failed,
  and at a commit a complete reading that the row has only outgrown. So what the commit leaves
  unwritten is still there.
* `NoneOrphaned`: on top of it, an argument by hand-over. Each step that stops an attempt from owing
  its job an end (`Owes`) gives the message back, commits a final status or counts the job in
  `dropped` (`HandOver`, `HandsStep`).
* `RowAgrees`, `ArnIsOnRow` and `ExtractionStays` by `InvocationInv`. What is on a row is its own
  job's invocation or nothing (`OwnRow`), and `Knows` says what an attempt knows where it stands: the
  ARN from the call on, that it is on the row once it was recorded, how the invocation ended from
  BDA's answer on, and whose fault it was when it writes one down. An ended invocation stays ended
  (`EndedStays`), and a commit, which may be another attempt's, leaves an ARN or a result that is
  there (`CommitSteady`), so what an attempt knows survives the steps of all others (`KnowsKept`).
* `OneAttempt`, under the hypothesis that `connection_loss` is not among the faults, by `HeldInv`: a
  job's message is in the queue once or held by one slot. Without the hypothesis it is false: the
  broker gives a message back while its task runs on.
* `Refinement`: every step is a step of `JobLifecycle` with reopening, or a stutter (`LifeGoesOn`).
* `OnceOnly` and `SuccessIsFinal`, under the hypothesis that only children of the pool are killed
  (`Faults \subseteq {"child_kill"}`): the lifecycle without reopening, and no success undone.
  `HeldInv` keeps attempts apart; `OnceInv` says that a waiting message means a queued row, and that
  an attempt finds its row as it left it (`Alone`), so that what it read is what it overwrites
  (`CommitAlone`). Each other fault breaks the statement in the code as it is: a crash or a lost
  connection delivers a message again and `run_job` reopens an ended job (`success_undone`), and a
  database fault or the soft limit may cut short a commit that went through, whose handler then
  writes failed over success. A killed child may be allowed because its message is acknowledged.

`PipelineProofs`, of uploads and workers together: `PipelineTypeCorrect`, `RowsFirst`, `AuditIsTrue`,
`NoneForgotten`, `AcceptedMeansProcessed`, `InputsAreThere`, `PipelineRowsRight`. The invariant
counts each batch (`BatchInv`: files left plus jobs created are the files of the request), keeps
requests out of each other's ids (`IdsInv`), and says that each job of a response is in good hands
or lost (`ListedInHand`). A step of the workers is taken over from the proofs above: it moves jobs
between hands, never out of all of them. A step of the API only adds rows and messages
(`UploadGrows`), so that what is proved of the workers is not disturbed (`WorkersUndisturbed`).

What the properties of the workers promise is therefore proved of the whole as well, where rows and
messages come into being beside running attempts: `PipelineRowsRight` (complete rows that agree with
BDA, the ARN on the row), `PipelineExtractionStays`, `PipelineRefinement`
(from a row's first commit on) and, with `Copies \subseteq {1}`, that is without a publish that is
retried after it went through, `PipelineOneAttempt` and `PipelineOnceOnly`. The last two need `Unsent`: a
job in the hand of a request that has not published it has no message and no attempt yet, and its
row is queued. Requests may fail and API processes crash at will; a connection that is lost
(for the first of the two), and any fault but a killed child (for the second), are excluded for the
reasons above.

`AccountsProofs` (lemmas) and `ApiKeysProofs`:

* `KeysTypeCorrect` by `KeysInv`, which adds that edits work on rows that exist, rotations saw keys
  of their own user only, and the key a rotation is about to insert is nobody else's.
* `KeysDie` by `TimeInv`: a good key has `since = 0`, so the sum bounded by `KeyTtl` starts at the
  life of a fresh entry when the key goes bad, and the clock moves the two summands oppositely.
* `AlwaysAKey` from `OnlyCommits` (no other step touches the keys) and `CommitLeaves` (after a commit
  its user has the new key and those the rotation had not seen).
* `KeysLeftByOvertaking`, on top of these, by `OvertakingInv`: a rotation that no other commit of its
  user's overtook has seen every active key (`SeesAll`). A commit of the same user ends that for all
  the others under way (`CommitOvertakes`), every other step leaves it alone (`SeesAllStays`); so
  such a rotation revokes all keys but its own. That overtaken ones leave two is `two_active_keys`.

`SessionsProofs`: `SessionsTypeCorrect`, `SessionsDie`, `UserIsThere` and `DeletedForGood`. The
invariant adds to the properties that a login about to write its session has a user with a row,
and that nothing counts against a session before it is written (`LoginInv`). `DeletedForGood` rests
on `CommitRespects`: a commit writes the changed columns only, and no request ever changes
`deleted_at` back.

`MigrationsProofs`: `MigrationsTypeCorrect`, `NobodyServesHalf`, `UpgradesApart`. `SchemaInv` (the
schema is whole or empty, and whole for whoever is past its upgrade) needs no lock at all:
transactional DDL is enough. `LockInv` (who is inside has the lock, and its transaction found the
database empty) holds until a lock connection is lost.

`QueriesProofs`: `QueriesTypeCorrect`, `WalksMissFew`, `PeriodsNest` and `RatesAreRates` by
`QueriesInv`. A walk may meet its last page in any state of the table, so `WalkInv` bounds the rows
missed on the way: of those due to be shown and not shown yet, no more rank within the pages already
turned than rows have left. A row that enters pushes ranks down and so only shows rows again; one
that leaves lets one row slip over the boundary (`RankFalls` and the lemmas after it, on
cardinalities of initial segments). At the last page what is missed beyond that came after the
count. `FiguresInv` compares what was read of a period with what there is now (`FiguresOf`): jobs and
costed jobs are never taken back, so an earlier reading of a shorter period is no more than a later
one of a longer. `ReaderInv` says that a behaviour has one reader.

`BdaClientProofs`:

* `EndIsNoticed` by `PollingInv`: the clock is ahead of the invocation's end, and of the deadline, by
  at most one call when the loop is about to sleep and by a call and a sleep when it is about to ask;
  the numbers of the schedule matter only through its longest entry (`BackoffBounded`).
* `ResultIsPriced`. The core is `PricedRight`, about every output with lists of any length
  (`Readable`), wider than the model's: where the metadata names one segment it is the first of the
  first asset that has any, and where there is no metadata the first key of a kind is found because
  there is one (`LeastIsThere`). `CostAsDocumented` is the arithmetic of the 31st field. A document
  split into several segments is excluded by the property itself (`Unsplit`): the code reads its
  first segment only (the hazard at `bda/parse.py:142`).

* `TablesAreByColumn`, `ValuedScoresStay` and `ChipsAreComplete`, about what loops and folds of
  `parse.py` compute for every document. The provers have no induction over data, but a set of
  numbers has a least member and a family of finite sets a smallest, which gives induction with a set
  in place of a predicate (`UpTo`, `OverSubsets`), and by it that a fold is whatever agrees with it
  step by step (`FoldIsUnique`). The field count is the cardinality of the headings, one field at a
  time (`LabelsAdd`, `CountIs`). The walk is followed from the leaf up: what becomes of a leaf, of a
  row, of a table (`LeafWalk`, `RowWalk`, `TableWalk`), where `KeptIs` says that filtering a list
  loses nothing that is there and nothing at all where all is there. Merging the entries gives the
  same in all three forms of `explainability_info` (`Merged`, `FlattenIs`): under each field the one
  structure `Conf`. `ValuedScoresStay` collects the scores in it;
  a leaf scored without a value leaves nothing (`score_without_value`). `ChipsAreComplete` needs its
  hypothesis, that each row of a table has a score, exactly where `KeptIs` does; without it the page
  shows scores in wrong rows (`chip_on_wrong_row`).
* `WalkIsDeepEnough`: on an entry, `Walk` satisfies the equation by which the code recurs.

Checked by TLC only: liveness, that is `EventuallySettled`, `SessionsEnd`, `StartsEnd` and
`PageShowsTheEnd`, since it rests on fairness and so on ENABLED.

## 6. Where code and documentation disagree

Five runs end in a counterexample:

* `success_undone`: `run_job` starts over whatever the row says, so a job delivered again after its
  success can end as failed, its result still on the row (`src/FEATURES.md:120`: safe to dispatch
  several times).
* `login_unaudited`: a refused login adds its entry to a transaction that its own exception rolls
  back (`src/FEATURES.md:111`: success and failure are audited).
* `chip_on_wrong_row`: the walk drops an unscored table row from the list, and the page pairs rows
  and entries by index (`src/FEATURES.md:30`).
* `score_without_value`: the walk takes a dict for a scored leaf only if it holds a value as well
  (`bda/parse.py:45`), so a score given alone is not stored; `src/tests/unit/test_bda_parse.py:25`
  expects it stored and fails on this code.
* `two_active_keys`: two overlapping rotations of a user each revoke the keys they saw, and both new
  keys stay active. `get_active_for_user` (`repos/api_keys.py:19`) then raises, and with it the view
  of the current key (`src/FEATURES.md:36`, `:38`), until a rotation that is not overtaken repairs it.

The models show these as well; they are behaviours of the passing runs, and no run states the
contrary:

* a job cancelled by its soft limit is acknowledged with its row in `processing`
  (`SoftLimit`; `src/FEATURES.md:119`: tasks ack only after success);
* `InternalServerException` is retried by `start_invocation` but not by the status call
  (`PollTransients`; `src/FEATURES.md:117`);
* the soft limit is due before the polling deadline, so the deadline's `TimeoutError` is reached
  only where the limit is not enforced (`BdaPolling`; `src/FEATURES.md:93`);
* a batch that breaks after its first file leaves jobs and no `jobs_uploaded` entry
  (`AuditTellsTheTruth` goes one way only; `src/FEATURES.md:72`);
* rotation leaves the Redis entry of the revoked key, which goes on working until it expires
  (`KeysDieInTime` is the bound; `src/FEATURES.md:38`: disabled atomically);
* a detail page whose poll fails once never polls again (`TickFails`; `src/FEATURES.md:171`).

Met on the way and outside any model: `logout` writes no audit entry (`src/FEATURES.md:72`);
a standard output whose `pages` list is empty prices a document at
nothing; `usage_me` compares times with a zone to columns without one.

## 7. Not modelled

* `usage_me`, which fails in the database driver whatever the data; `get_job_raw` and the preview,
  which hand out a column and a signed URL; the mapping of blueprint names, a set membership.
* The moving window of the rate limiter, a library's: `UploadJobs` has only that a request may be
  refused. That the key it counts by ignores the user is one branch of `deps/ratelimit.py:17` and
  takes no state to see.
* Tokens, CSRF values, hashes and encryption, from libraries: a token is unique, a hash stands for
  its password.
* Unique user names and addresses: a duplicate is one more way for a request to fail.
* Two rows with the same `created_at` in one listing, whose order the query leaves open.
* S3 reads of a result are one step in `JobRunner`, since what they read does not change; that
  `list_objects_v2` pages is hidden in it.
* Infrastructure: configuration, logging, error bodies, headers, health probes. The browser's upload
  form, user forms and toasts, which keep no state of their own.
* The broker is assumed not to lose messages, BDA to honour client tokens, PostgreSQL to be
  transactional in DDL and fair in its locks.
* In `ApiKeys`, who may send an administrator's request is not checked; `Sessions` does that.

## 8. What is left

Everything planned has been modelled. Worth adding to it:

1. Two accounts and two sessions in one TLC instance of `Sessions`: 10 times the states of the
   present one, and covered by the proofs.
2. The browser's forms, if they come to keep drafts or retry.
