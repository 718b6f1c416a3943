# Career Copilot in TLA+

Formal models of the backend of career-copilot (`src/backend/app`), the TLC
runs that check them on small instances, and TLAPS proofs of what holds for
every instance.

## The system

A user signs in with a one-time code, uploads or pastes a résumé, registers
career pages ("job sources") and gets a ranked list of job postings. The API
answers requests in one database transaction each and hands slow work to a
queue; workers do the work.

```
 browser ── API (FastAPI, one transaction per request: api/deps.py get_db)
               │ enqueue (queue/sqs.py)          │ rows (PostgreSQL)
               ▼                                 ▼
        SQS queue + DLQ ◄── scheduler      resume_versions, job_sources,
               │            (ingest/       jobs, job_postings
               ▼             scheduler.py)       ▲
     poll loop / Lambda ── dispatch ── handlers ─┘
     (workers/runner.py,  (idempotency  resume.process, job_source.fetch
      lambda_handler.py)   table)         │
                                          ▼  LLM, S3, career pages
```

| Component | State it keeps | Operations | What is hard about it | What makes it correct |
|---|---|---|---|---|
| Queue and workers | messages, receive counts, receipt handles; processed keys (DynamoDB, one day); a worker's batch | enqueue, receive, dispatch, mark, delete, redrive | redelivery while a worker still has the message; crash between handler and mark; a look-up that lags behind a mark; partial batches | nothing deleted undone, everything settles, second runs only through known holes |
| Résumé processing | `resume_versions` row; a handler's local variables | register, edit, `resume.process` | enqueue before commit; overlapping runs; edits that read, wait and write only what differs | a finished version is complete and is left alone; nothing hangs silently |
| Job sources and fetch | `job_sources` row: status, failure counter, last fetch | register, pause, resume, remove, fetch now, scheduler run, `job_source.fetch` | several fetches of one source at a time; read-modify-write of the row | the counter counts; error means a streak; the user's pause stands; due sources get fetched |
| Ingestion and postings | `jobs` and `job_postings` rows; what resolve found | resolve, persist, prune; manual add, delete | snapshot of known hashes; late flush; two persists at once; shared postings | every held job is shown; ranking covers its jobs; pruning takes orphans and only those |
| Polite fetching | per-host lock, last request, robots entry | acquire, check, load, fetch | concurrent callers of one host; a robots.txt that changes or cannot be read; redirects | fetches spaced, robots obeyed, no page refused for nothing, every fetch ends |
| Sessions | session items (DynamoDB) | create, look up, touch, list, revoke one, revoke others | a touch after a deletion; lagging reads; deleting one by one | what is revoked stays so; what is in use stays valid; only its user ends a session |
| One-time codes | code item with attempts, `users` row | request, verify | read-modify-write of the item; a new code in between; two sign-ins of a new user | a code works once; tries are counted; the newest code is usable |
| Rate limits | one counter item per key and hour | hit | updates that arrive late or twice; DynamoDB's own deletion | no window lets through more than its limit |
| Preferences | `job_preferences` row | PUT, GET | two saves at once, each writing only the columns it found changed | a save that did not race is whole |
| Boards and rules | none; the jobs held for a source are what they decide about | detect, fetch, parse, filter, score | routes that give one job different identities and leave different things out; scores that cannot be had | what is held suits the user; what is pruned is pruned for a reason |
| Schema and migrations | eleven tables, their foreign keys, the revision | upgrade, downgrade, insert, delete | rows that are already there; two kinds of cascades, the ORM's and PostgreSQL's | migrations work on any rows; a deletion takes no more than its own |
| Storage, e-mail, LLM accounting, shell, frontend | none of their own | – | their failures | – |

The state is shared only through PostgreSQL, the queue and DynamoDB; there are
no callbacks between components. `PROJECT.json` lists every component with its
files, and under `hazards` each place where the code can go wrong in a way a
test would hardly reach, with the properties that watch it.

## The modules

| Module | Models | Status |
|---|---|---|
| `TaskDelivery` | what the queue promises to those who enqueue (abstract) | done |
| `TaskQueue` | SQS queue, dead-letter queue, idempotency table, poll loops and Lambda invocations | done |
| `TaskQueueProofs` | proofs about `TaskQueue`, refinement of `TaskDelivery` included | done |
| `ResumeProcessing` | résumé versions and `resume.process`, composed with `TaskQueue` | done |
| `ResumeProcessingProofs` | proofs about `ResumeProcessing`, on those about `TaskQueue`; that it too implements `TaskDelivery` | done |
| `JobSourceFetch` | job sources, the scheduler, `job_source.fetch`, over a queue that keeps `TaskDelivery` | done |
| `JobSourceFetchProofs` | proofs about `JobSourceFetch` | done |
| `JobIngest` | resolve and persist of a fetch, postings, and the user's own additions and deletions | done |
| `JobIngestProofs` | proofs about `JobIngest` | done |
| `SessionLife` | what becomes of a session, seen from outside (abstract) | done |
| `UserSessions` | session items, and the requests that look up, extend, list and revoke them | done |
| `UserSessionsProofs` | proofs about `UserSessions`, refinement of `SessionLife` included | done |
| `CodeLife` | what becomes of a code, seen from outside (abstract) | done |
| `OneTimeCodes` | requesting and verifying a code, the attempts, the user's row | done |
| `OneTimeCodesProofs` | proofs about `OneTimeCodes`, refinement of `CodeLife` included | done |
| `PoliteFetch` | robots cache, host limiter and redirects of a worker process | done |
| `HourlyLimit` | the fixed-window counters in DynamoDB | done |
| `Preferences` | saving the job preferences of a user | done |
| `DataModel` | tables, foreign keys, migrations, insertion and deletion of rows | done |
| `JobBoards` | detection, adapters, JSON-LD, the primary filter and the score as operators | done |
| `JobScreening` | the runs of a source over `JobBoards`: route, diff gate, rules, scoring, persist and prune | done |
| `ScreeningProofs` | proofs about `JobScreening`, `Preferences` and `HourlyLimit` | done |
| `MCTaskQueue`, `MCResume`, `MCFetch`, `MCIngest`, `MCSessions`, `MCCodes` | instances for TLC | done |
| `MCParts`, `MCScreening` | one instance that runs `PoliteFetch`, `HourlyLimit`, `Preferences`, `DataModel` or `JobScreening`; postings, sites and sources for the last | done |
| `PartsProofs` | proofs about `PoliteFetch`, and about `MCParts` on those of its parts | done |

### TaskQueue

A step is what a worker does between two awaits. `queue` says where a message
is, `receives` is its `ApproximateReceiveCount`, `owner` who holds the latest
receipt handle, `processed` the DynamoDB table and `lagging` the copy of it that
`get_item`, called without `ConsistentRead`, may be answered from (`CatchUp`
brings it up to date, key by key). A worker goes
`idle → loop → check → handle → mark → ack → loop → … → idle`:

* `Receive` is `receive_message` in `_poll_once` (and the event source of the
  Lambda): a batch, in any order. `Take`/`Reject` go to the next message;
  `Reject` is a body that does not parse or a task without handler, where
  `dispatch` raises before it consults the store.
* `Skip` and `Start` are the two answers of `store.seen`, from the table or from
  the copy: either may come as long as the two differ. `HandlerReturns`,
  `HandlerRaises` and `Mark` follow; `StoreRaises` is an exception of either
  DynamoDB call, after which a timed-out `put_item` may have been applied.
* `Ack` deletes the message (poll loop) or leaves it out of
  `batchItemFailures` (Lambda), where `EndBatch` lets the event source delete
  it. A delete with a stale receipt handle may do nothing (`Delete`).
* `Crash` is the death of the process, the uncaught exception of
  `delete_message` included; `VisibilityExpires`, `Redrive`, `KeyExpires` are
  the clocks of SQS and DynamoDB. Any of them may come between any two steps.

`gap` collects the keys for which the idempotency guard had one of its four
holes: two runs overlapped (its docstring admits this one), a crash or a store
error came between the handler's end and the mark, the key expired, or a run
began when the key was marked but the copy did not show it yet (`Unguarded` has
the first and the last). Left out: `LoggingQueue` (`queue/sqs.py:27-31`), which
takes SQS's place when no queue URL is configured and drops every message.

### ResumeProcessing

Instantiates `TaskQueue` with one message per version, and puts the steps of
`resume_process` in the place of its `handle` state: `Load`, `SetExtracting`,
`Extract`, `SetStructuring`, `Answer`, `Store`, or `SetFailed` where the file
cannot be read; `Fail` is any exception but `ExtractionError`. `Register`, `Send`
and `Finish` are the request's flush, enqueue and commit (or rollback), which are
separate because a worker may run in between.

The user's PATCH, in any status, is `Edit` (the SELECT) and then `Save` (flush
and commit) or `Abandon`. Like `Answer` and `Store`, and `Extract` and
`SetFailed`, these are two steps because the transaction awaits in between and
the ORM then writes only the columns whose new value differs from the one read
(`read`, `Dirty`): an error that was NULL when it was read is not written as NULL
over one that has come since. `Replace` lets the new document equal the one
read. A `_set` of a single column is one step: between its read and its write it
has the effect of a write at the commit if the values differ, and of none, like a
write of the same value at the SELECT, if they do not. `crossed` is history: the
versions whose last settling transaction committed over a status or error other
than it had read. `missed` has those whose task found no row.

### JobSourceFetch

Fetches come from registration, "fetch now" and the scheduler, each with a
message and key of its own; so two fetches of one source may run at a time and
the idempotency table is of no help. The queue is reduced to the promise proved
of `TaskQueue`: `Begin` (a message is given to a worker, perhaps to several),
`Retire`, `Bury`. The task's last transaction is two steps, `ReadRow` and
`WriteRow`, since it holds no lock in between; `WriteRow` writes only the
columns whose value differs from the one read, as the ORM does (`Dirty`).

### JobIngest

`run[w]` holds the local variables of a worker's fetch. `Load` takes
`known_hashes`; `Resolve` lets the board list anything and every listing get
any verdict; `Upsert`, `Flush` and `Commit` are `persist`: the rows read, the
rows written (and locked) with the orphans selected, and the end of the
transaction. `Conflict` names what makes the flush fail (unique index, foreign
key, an UPDATE of a row that is gone); then only `Abandon` is left.
`CreateManual`, `RemovePosting` and `RemoveSource` are the user's transactions.
Two simplifications: a listing has one dedup key for good, where the code computes
it from each content anew, and the SELECTs of `persist` and `_upsert_posting`
before the flush are one step.
The count of applications in `prune_orphan_postings` is left out: nothing in
the repository creates an `Application`.

### UserSessions

`table` is the DynamoDB table, `lagging` the copy an eventually consistent read
may still be served from, item by item: `get_item` is called without
`ConsistentRead`, and `list_for_user` reads an index. `created` keeps the order
of `created_at`. A request goes `get → touch → handle → delete → …`, a step per
DynamoDB call: `Get` and `Touch` are `get_current_session`; then the handler
reads (`Read`), logs out (`Logout`), revokes one session (`Revoke`) or all
others (`RevokeOthers`), whose deletions come one by one, newest first
(`DeleteNext`). `StoreRaises` is a failing call. `Touched` is `update_item`,
which makes an item when there is none: without a `user_id`, so that
`_from_item` raises on it and the request is answered 500 (`crashed`) until the
item expires. `ended` and `promised` are history: the sessions deleted, and
those a revocation cannot miss because no read of them lags.

`SessionLife` is what all this comes to: a session is opened once and over once,
admits its own user until it expires, and before that is ended by nobody but a
request admitted as that user. The refinement (`ImplementsSessionLife`) calls a
session open while the table's item is usable, *fading* once only the lagging
copy shows it – it may still admit a request, as an eventually consistent read
does, but is extended no more – and over when neither does. A request is
admitted from its look-up to its end.

### OneTimeCodes

One e-mail address: its item (`table`, `lagging` as above), what the user has
received (`mailed`), each browser's challenge cookie, and the `users` row. `Ask`,
`Issue` and `Send` are `POST /auth/otp/request`; a rate-limited one gets a
cookie no code goes with. `Verify`, `Get`, then `RecordWrong` or `Consume`, then
`FindUser`, `InsertUser`, `PutSession` and `Commit` are `POST /auth/otp/verify`;
the unique index on the address makes a second insert wait for the first
transaction. `get_db` commits after the answer is out, as FastAPI does it from
0.118 on (`uv.lock` pins 0.141.1).

`slipped` (history) collects the codes for which a write came between a
verification's read and its own write, or whose read was served from the older
copy. Everything the code promises of a code holds outside `slipped`; inside it
a code may be accepted twice, a try may go uncounted, a newer code may be
deleted or inherit a count, and an item without `expires_at` may be left that no
verification can read until the next code replaces it (`crashed`). `wrong` and
`used` (history) count what has happened to a code until it slips.

`CodeLife` is what it comes to for who asks for codes: only the newest code
signs in, once, in time and within its tries, and the next one, the last try or
its end puts it out of use. The refinement (`ImplementsCodeLife`) maps a slipped
code to a disputed one, of which `CodeLife` promises nothing, and calls a code
live until it is used, out of tries, or lapsed and in no verification's hands.

### PoliteFetch

The fetches of one worker process share the robots cache and the limiter. A
fetch goes `check → load → lock → sleep → get`, a step per stretch without an
await: `Check` and `Load` are `RobotsCache.check`, which takes no lock, so that
several fetches may load robots.txt and the later answer stays; `Acquire`,
`Enter` and `Wake` are `HostRateLimiter.acquire` with the `asyncio.Lock` as a
queue; `Get` is `safe_get` with its redirects. `FetchApi` is the route without
robots.txt. Times are ages that `Tick` advances up to where they make no more
difference. Left out: how long an answer is in flight (seconds, against a TTL of
a day); an exception that is no `FetchError`, which ends the fetch without a
cache entry; and the classifier's own `check_robots`, a first check that the
fetch repeats. Redirects and the request for robots.txt itself pass neither the
robots check nor the limiter, in the model as in the code.
The pipeline runs one fetch after another today; the limiter and the cache are
written for concurrent ones, and the model has them.

### HourlyLimit

A hit computes its window from the clock (`Hit`) and sends one atomic `ADD`,
which reaches the table later, up to `Patience` after; an answer that is lost
makes botocore send it again, so that one hit may count twice (`Count` with
`n` = 2) or count although it failed (`Fail`). `TtlDelete` is DynamoDB's
deletion, at any time after `expires_at`. `passed` is history: how many
hits each window let through. `OneTimeCodes` lets the limiter answer either way.

### Preferences

A PUT is `Put → Get → Flush → Commit` (or `Rollback`), with the row as it was
read: `upsert` assigns every field, and the ORM writes the columns whose value
changed (`Dirty`). Two columns stand for the document, the two that
`PreferenceIn` asks an order of. An INSERT that finds its user's row there
already fails. `raced` (history) collects requests that have seen another's
commit since they read.

### DataModel

`Schema` is the foreign keys of each table, as the initial migration creates
them; `Creates`, `Drops` and the other scripts are the statements of the three
migrations that can fail on a database: tables in the order of their foreign
keys, columns that may be without a value for old rows. `Migrate` runs `upgrade`
or `downgrade` to any revision in one transaction (`alembic/env.py`). `Insert`
and `Delete` are the program's, on the latest revision: a deletion follows the
relationships of the models first (`OrmDeletes`, `OrmUnlinks`), then the
foreign keys (`Cascades`). One user with at most one row in each table: rows
refer to rows of their own user only.

### JobBoards and JobScreening

`JobBoards` has no state: `Detect` on the links of a page in the order of
`_URL_PATTERNS` and `_EMBED_PATTERNS`; `Greenhouse`, `Lever`, `Ashby` and
`JsonLd`, which say what each route makes of a posting's identity, page, type
and workplace; and the primary filter, `Rejected`, on written forms that are
sequences of words made of parts, so that "Full-time", "full_time" and "full
time" differ exactly where the code tells them apart. A score is its digits.

`JobScreening` runs one source, fetch after fetch: `Begin` reads preferences
and held jobs once; `CallApi`, `CheckRobots`, `FetchPage` and `ParsePage` are
the route with every fall-through and error; `Score` and `ScoreRaises` are the
concurrent answers of the language model, in any order; `Persist` stores and
prunes. `SiteChanges` and `PreferencesChange` come at any time. A row remembers
the posting it came from (`of`), its route and the preferences it was screened
under: history for the properties. `JobIngest` is the same pipeline from its
other side: overlapping runs and clustering, with verdicts taken as given.

## The runs

| Run | Question | Instance | Why it is enough |
|---|---|---|---|
| `queue` | Can a task be lost, or run twice outside the guard's known holes? Does everything settle beside a poison message? Does the queue keep `TaskDelivery`, liveness included? | one task, one poison message, a poll loop and a Lambda, batches of 2, 3 receives | the real receive limit; two workers are what an overlap needs. Two messages of one key are covered by the theorems, which hold for any messages |
| `resume` | What may redeliveries, overlaps, lagging reads, late commits and edits do to a version? | one version, two workers, one edit at a time, 2 receives | versions share no row; two deliveries are what an overlap, a stale look-up or a retry needs, and an edit beside a task crosses it at every step. A third delivery (SQS's real limit) takes TLC past its time; the theorems hold for any limit and any number of edits |
| `fetch` | Is the counter exact, is error earned, does the pause stand, is every due source fetched in the end? | one source, two workers that may both hold its message, limit 2 | sources share no state; a limit of 2 has "below", "at" and "above"; the theorems cover more messages |
| `ingest` | Are jobs shown, postings ranked rightly, orphans and only orphans pruned? | one job listed by two sources, two workers, two contents, two scores, 3 fetches | one key is the hardest case for clustering |
| `sessions` | Does a revoked session stay so, does a used one last, does nothing else end one (`SessionLife`)? | two sessions of one or two users, two requests, lifetime 2, refresh after 1, clock to 2 | touching, deleting and listing race pairwise; the clock reaches the expiry |
| `codes` | Does a code work once, are tries counted, is the newest code usable, is what becomes of a code all that may (`CodeLife`), do sign-ins of a new user get along? | two codes, three tries, two requests, one browser | a code and its successor; a read and a write overlap pairwise; addresses share nothing but the IP's limit |
| `parts` | Five questions about five parts that share no state, below | | |
| `fetch_race`, `ingest_manual`, `ingest_twice`, `screen_on_site` | Four sentences of the repository that the code does not keep (below) | | |

**`parts`** is a sum, not a product: `part` is chosen in the initial state, one
part runs and the others rest, so the states add up. The parts:

* *polite*: two fetches of one host, interval 1, crawl delay 2, TTL 2, one
  redirect. Hosts share nothing, and the two intervals differ.
  `FetchesAreSpaced`, `RobotsAreObeyed` (what the site has disallowed
  or allowed for longer than the cache lives is refused or let through, errors
  and concurrent loads notwithstanding), `EveryFetchEnds`.
* *limiter*: two hits at a time on one key, limit 2, windows of 2, an update up
  to 2 late, clock to 5: three windows, the first of them deleted before the
  last is over. `LimitHolds`.
* *preferences*: two requests, two salaries or none in each column: below, equal
  and above, set and cleared. `SavesAreWhole`.
* *data*: every order of inserts, deletions and migrations, up and down, of one
  user's rows in all eleven tables. `MigrationsRun`, `DeletesStayInBounds`.
* *screening*: a source that is a Lever board, one whose page has a Greenhouse
  board behind a reserved Lever name, one whose board a reserved name hides; three
  contents of the site with two postings each (reworded, on site, of another
  type, of another job family, gone); preferences or none; answers that are
  above and below the threshold, unusable or unavailable. Two postings are what
  one can do to the other. `PruningIsGrounded`, `KeptSuits`.

Only the first part needs fairness and has a liveness property; the fairness
conditions name it. The slots `s1` … `s6` hold the variables of whichever of the
other parts runs.

Where an invariant says little alone it stands with the type invariant of its
module in one definition: `VersionsAreSound` (ready versions are complete),
`RowsAreSound` (a posting is ranked no lower than its jobs), `ItemsAreSound` (an
item no verification can read comes only from an overlap), `TypesOK` (with what
each part's type invariant ties together, the unique indexes of `jobs` among it),
`MigrationsRun` (with the types of `DataModel`, foreign keys included).

Bounds are constants: `MaxReceive`, `BatchSize`, `MaxFailures`, `MaxRuns`,
`MaxTime`, the sets of messages. The failure counter is capped one above its limit
(`Cap`), where every larger value behaves the same.

### What the violations show

* `fetch_race` – two overlapping fetches read the same counter; a failure is
  recorded on top of a value read before a success reset it, and the source goes
  into error without five consecutive failures. `CounterIsExact` and
  `ErrorOnlyAfterStreak` state what does hold.
* `ingest_manual` – a fetched job with the key of a manual posting overwrites
  its `source_type`; when the job disappears the posting is pruned, although
  "manual postings are never pruned". `ManualIsLeftAlone` states what holds.
* `ingest_twice` – the session does not autoflush, so the second listing of a
  key in one run inserts its posting again and the whole persist fails. The
  tests use a session that does autoflush.
* `screen_on_site` – the filter drops a job when remote work is required and
  `remote is False`, but no route ever says False: the adapters have `or None`.
  A job whose board says "on-site" is scored and kept. The docstring of
  `jobs/filter.py` lists it among the obvious mismatches it drops; its test
  builds the job by hand.

Two outcomes that a run finds and that no sentence of the repository speaks of;
the properties of `resume` except them by name. A version's task is enqueued
before the request commits: a faster worker finds no row, returns, its message is
deleted, and the version stays `pending` for ever (`missed`). And a PATCH that
read a version before its task failed it saves `ready` and leaves the error
standing (`crossed`), until the next edit. A look-up that lags behind a mark adds
a third to the known holes of the guard: a run that begins after another has
completed and retired the message sets the version back to `structuring`, over
what the user has saved, and leaves it there if it fails (`gap`).

Smaller disagreements of code and text, without a run: the comment at
`job_source_fetch.py:98` says an LLM outage propagates to the queue, but
`services/ingest.py:158-165` records it as the run's error; ADR-0013 says a
disallowed source is not retried and its schedule backed off, but the
scheduler retries it every interval until the failure limit; `llm/client.py:31`
calls `LlmRequestError` non-retryable, but for a résumé the queue retries it;
a posting's score never comes down when its best job is pruned; a rate-limited
request for a code replaces the challenge cookie, and the code that is still
valid no longer verifies in that browser. Of the routes and rules: an identifier
given as schema.org's `PropertyValue` is read by its `name`, the company's, so
that all jobs of a JSON-LD page share one identity (`jsonld.py:120`, where
ADR-0009 has one row per external identity); a board's API that fails for one
run hands over to the page's JSON-LD, and that run prunes all the API's jobs;
"Full time" with a blank never matches `full_time`, although `_key` says it
folds it (`filter.py:60`, `:92`); a place of two words is folded to one and is
not found in a job's location (`:97-99`); an unchanged job is not screened again
when the preferences change, although the comment at `ingest.py:302` prunes jobs
"that stopped matching"; a score "8.5" is read as 85 (`schema.py:56`). All of
these are in the models; none contradicts a sentence as plainly as the ones
with a run. Deleting a posting that has an application would fail in the ORM
although its foreign key cascades (`models/job.py:102`); nothing creates
applications yet.

## Fairness

* Workers keep polling and a handler that began ends (weak fairness of
  `WorkerStep`): `run` loops until a signal, and every call a handler makes has
  a timeout. Crashes are never forced and never excluded.
* SQS keeps its clocks (weak fairness of `VisibilityExpires` and `Redrive`).
* A request that began ends in a commit or a rollback (`Respond`).
* The scheduler is run at a fixed cadence (weak fairness of `ScheduleSelect`),
  and does not die before a given source in every run (strong fairness of
  `ScheduleSend`): it sends without a failure in between unless its process or
  SQS is down.
* Time passes and the event loop runs what can go on, every request of a fetch
  being answered or timing out (weak fairness of `Tick` and of each fetch's
  `CallStep` in `PoliteFetch`). The lock needs no more: it is handed on in order.
* Nobody has to enqueue, edit, pause or remove, an open PATCH need not end, and a
  copy that lags need never catch up (`CatchUp`): no liveness property needs it.
  `UserSessions`, `OneTimeCodes`, `HourlyLimit`, `Preferences`, `DataModel` and
  `JobScreening` have no fairness and no liveness property: nothing in them has
  to happen.

## The proofs

All theorems assume only the modules' named assumptions on the constants
(`QueueAssumption`, `FetchAssumption`, `IngestAssumption`, `SessionsAssumption`,
`CodesAssumption`, `PoliteAssumption`, `PreferencesAssumption`,
`ResumeAssumption`, `LimitAssumption`, `ScreeningAssumption`) and hold for any
number of messages, versions, keys, workers, sources, listings, sessions, codes,
requests, hits, fetches and hosts. What they assume of data is what the code
says of it: a match score is a number from 1 to 100 (`jobs/schema.py` bounds it,
and 0 stands for none), listings and keys are different things, an update
reaches the rate limiter's table within a window of being sent.

Two theorems about `JobScreening` have a hypothesis on the data beside that.
`FormsMeanAlike` says that written forms which the filter takes for one kind of
employment mean one; `PagesTellApart`, that on each route a page is that of one
posting. The second is needed: if a page passes from one posting to another
while the first is listed under a new page, the row found by its page takes the
other's identity, and a listed job that suits is no longer held, until a later
run stores it anew (`repositories/jobs.py:103-112`). TLC finds this when such a
site is among `Sites`. `MCParts` evaluates both hypotheses on its sites
(`PartsAssumption`), which is all that the theorems about it assume beside
`PoliteAssumption`; they hold for any callers, hosts and intervals.

**TaskQueueProofs.** `QueueTypeCorrect`; `NoTaskRetiredUnrun`;
`NoRerunWithoutGap`; `QueueImplementsDelivery`. Neither safety invariant is
inductive. `RetiredOnlyAfterRun` needs that whoever is about to delete or to
report success has a completed run behind it (`SuccessFollowsRun`), which needs
that a message in someone's hands was sent (`HeldWasSent`), and that a key that
`seen` may find, in the table or in the copy, has run.
`RerunOnlyThroughGap` needs that a key that ran is marked, about to be marked,
or in `gap` (`RanIsGuarded`), where `Start` on a marked key puts it in `gap`
because only a lagging copy can miss it, and that two workers between check and mark for
one key have it in `gap` (`OverlapIsGap`). `QueueInv` is their conjunction, one
lemma per part and one step per action. The refinement maps a deleted message
to a retired one and the completed keys to `done`, and uses `QueueInv` for the
one hard case, that a deleted message's key is done.

**JobSourceFetchProofs.** `FetchTypeCorrect`; `FailureCountIsExact`, from
`FetchInv`, which adds that a transaction about to write either read the
current counter or is on a source where two of them overlapped
(`ReadIsCurrent`); `ErrorNeedsStreak` and `FetchLeavesStatus` are action
properties proved from it.

**ResumeProcessingProofs.** `VersionsStaySound`; `OnlyRacesStall`; the action
property `CompletedStays`. Every step of the system is a step of `TaskQueue` or
leaves the queue alone (`StepsOfQueue`), so `QueueInv`, proved there of any
messages, is here an invariant as well, instantiated with the versions as
messages and keys. It says that whoever is in the task of a version that has
completed has its key in `gap`. `ResumeInv` adds that a message is sent after its
rows are flushed (`SentIsBegun`), that what an open transaction has read stays
where it matters (`ReadIsKept`: structured data, once there, is never taken away,
and a settled status read by a task either lasts or its key is in `gap`), and that
a version whose task completed has settled, or fell to a race (`RanIsSettled`).
`ReadIsKept` is what two-step transactions need: `Save` leaves out a status it
read as `ready`, or a document it read as its own, and relies on their being there
still. No step after a completed task sets the version back, for the only ones
that could are those of a task, and outside `gap` nobody is in it.
`RowStep` says once what any step does to a row, and the lemmas use it in the
place of the actions.
`VersionsAreProcessedFirst` is the refinement of `TaskDelivery` once more, now of
the queue with the request, the task and the user around it: what `TaskQueue`
leaves open about a handler, `resume_process` fills in without breaking the
promise.

**JobIngestProofs.** `RowsStaySound`, `JobsStayShown`, and the action properties
`ManualStays` and `RunsTidyUp`, from `IngestInv`, whose first half holds whatever
overlaps. What a run has read is still there or the run has been told that it
went (`ReadsAreCurrent`); what its flush has found, that its new rows are not
there yet and its orphans are fetched postings none of its jobs needs, stays so
(`FlushHolds`), because the rows are locked and no row is locked twice
(`LocksExclude`). The proof has one lemma for what a foreign transaction may do
to the rows a run relies on (`RowsChange`, `StaysSound`) and one per transaction
that shows it does no more. The types need it all: a job's link leads to a
posting only because the flush fails on one that is gone. The second half holds
until a transaction overlaps a persist (`AloneInv`): one run persists at a time,
a posting it read has not changed under it but to go, and the orphans selected at
its flush are exactly those its commit would leave (`OrphansAreRight`), even if
the user deletes postings in between. Then a commit takes no posting from a job,
leaves no orphan, and gives a posting the greatest of the scores it has seen
(`TopScoreTops`, by well-founded induction on the distance to 100).

**UserSessionsProofs.** `EndedForGood`, an action property, from `EndedInv`:
an ended session was created, so its token is not made again (`OnlyCreated`),
and its item, if a late touch has made one, has no user (`EndedHasNoUser`). The
step that matters is `Touch`: it writes two attributes into whatever item there
is, so it keeps the user an item has and gives none to one it makes.
`RevocationIsKept`, `OthersCannotEndIt`, `UseKeepsAlive`, `CrashedIsOver` and
`SessionsAreTyped` need `ViewsInv` beside it, which relates the three views of a
session: the table's item, the copy that lags and the record a request has read.
An item has both times of one write (`TimesAgree`); an older view is of the same
user and no younger (`CopiesPrecede`), so that a touch left out on an old view
was not needed; a view that misses a created item is of an ended one
(`MissingIsEnded`); what a request is about to delete is its own user's
(`PendingIsOwn`), and what it has promised to end it is about to delete or has
(`OwedIsPending`). `ItemStep` says once what any step does to an item, and the
lemmas use it in the place of the actions.
`SessionsImplementLife` is the refinement of `SessionLife`. A look-up admits
whatever view it was served because older views are of the same user and expire
no later (`CopiesPrecede`); a touch extends an open session, or writes into an
item that is no session's any more, which tells nobody anything; a deletion is `End` by a
request of its user (`PendingIsOwn`), after which the copy that lags is no
younger than the item was, as fading asks. `OthersCannotEndIt` follows the same
argument for the deletions alone.

**OneTimeCodesProofs.** `CodesAreSound`, `AcceptedOnce`, `TriesAreCounted`,
`NewestStays`, `OlderIsRefused` and the action property `SignedInIsUser`, from
`CodesInv`. What carries it is `HeldIsCurrent`: a request between the read and
the write of an item sees the table as it read it, or both its code and the
table's are in `slipped`; `TwoHaveSlipped` says the same of two that hold one at
once. So outside the overlaps an update, counting or deleting, is of the item
that was read, the table has the newest code (`TableIsNewest`) and a used one is
gone (`UsedIsGone`). `SignedInIsUser` needs that whoever makes a session has
found the user or inserted it (`UserIsSeen`), and that one transaction at a time
holds an uncommitted row (`OneInserts`).
`CodesImplementLife` is the refinement of `CodeLife`, action by action. What is
hard is that a verification decides on what it read, several steps back:
`DecidedIsLive` shows that if its code is out of dispute, the item it holds is
the table's, so the code is the newest, unused, and its attempts are the wrong
tries; the step that decides is then `Accept` or `Miss`. Every other step either
puts codes in dispute (`Disputed`), lets go of a lapsed one (`LetGo`) or leaves
every fate as it was. `OlderIsRefused` is a corollary one may read by itself.

**PartsProofs.** Of `PoliteFetch`: `PoliteTypeCorrect`; `FetchesKeptApart`, an action
property, from `LimiterInv`: a lock's queue holds exactly who waits for it or
sleeps under it (`QueueIsTheirs`), each once (`NoOneTwice`), a sleeper in front
(`SleeperIsFirst`), so nobody is let through while it sleeps, and its timer and
`last` always make up its interval (`SleepCovers`). That each is queued once is
what makes releasing the front release the holder. `RobotsObeyed`, from
`RobotsInv`: an entry younger than the site's last change of mind says what the
site says (`EntryIsCurrent`); the cache drops entries by age and refreshes them
without a lock, and this survives both.

Of `MCParts`: `PartsTypeCorrect`, `PartsKeepLimit`, `PartsHoldWhatSuits`,
`PartsPruneForAReason`, `PartsSaveWhole`, which state the properties of the run
`parts` as it has them. `PartsInv` has each part's own invariant while that part
runs; every step is one of the part that runs (`StepsOfParts`), and the lemmas of
the parts' modules do the rest. `LimiterAlike`, `PreferencesAlike` and
`ScreeningAlike` are bookkeeping: two instances of a module with the same
substitutions say the same.

**ScreeningProofs.** `HeldJobsSuit` and the action property `PrunedForAReason`,
from `ScreenInv`: the jobs of a run are what its route makes of postings
(`JobsAreTaken`), and a row is what its route made of its posting and passed the
rules under the preferences of its time (`RowsArePassed`). `PersistSays` takes a
persist apart: a row it does not leave was overwritten by a kept job that
matched it, which is one of its own identity, or fell to the prune, which then
had a score for every job. `JobBoards` has the pattern table and the adapters as
operators on sequences; what the proof needs of them is that a detected board is
of a known vendor and that a route keeps a posting's type (`TakenTells`).
`UnracedSavesAreWhole`, of `Preferences`, is an action property from `SaveInv`:
what a request sends is a document in order (`Documented`), a stored row is never
taken away (`RowStays`), and who has not raced has read it as it still is
(`ReadIsCurrent`), so that the columns the ORM leaves out of its UPDATE already
have the request's values.
`LimitIsKept`, of `HourlyLimit`: a window whose item may not go yet has let
through no more hits than the item counts (`PassedIsCounted`), retries and
failures only adding to the count; and while a hit is on its way, its window's
item may not go (`HitIsInTime`), because `expires_at` is a whole window past the
end of its own. Were it the end of its own window, neither would hold: the
mutant of the run `parts`.

Left to TLC: all liveness (`EverySubmissionSettles`, `EveryVersionSettles`,
`DueIsPickedUp`, `EveryFetchEnds` and the fairness part of the refinement of
`TaskDelivery`), which TLAPS does not reach; `MigrationsRun` and
`DeletesStayInBounds` of `DataModel`, which has no constants: one concrete schema
and one set of scripts, so that TLC's run goes through all of its states, and a
proof would be of the same finitely many; and what `Coerced` makes of the digits
of a score, a fold over data (the proofs take its value as it is).

## Not modelled, and the plan

In this order:

1. An abstract specification that joins `CodeLife` and `SessionLife`: a sign-in
   asked for, confirmed, signed in and out.
2. The LLM client's retry of an invalid answer and its usage rows.

Not modelled: salaries, places beyond the filter's look at them, HTML to text and the
walk over nested JSON (they feed the content hash and nothing else the
properties tell apart); the normalisation behind the dedup key (`JobIngest`
takes keys as given); PATCH of a posting's status and bookmark, on which nothing
depends; `add_version`, which has no caller; columns, types and indexes other
than those named in `DataModel`; storage, e-mail, LLM accounting and the
application shell (stateless wrappers, whose failures the `Fail` actions cover);
and the frontend.
