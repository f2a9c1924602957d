# Formal models of sr-landmarks

TLA+ models of the landmarks service, checked with TLC on small instances and, for all
safety properties, proved with TLAPS for instances of any size. File and line numbers
refer to the repository; `src/...` below is relative to its root.

## 1. The system

| component | code | state it keeps | operations |
|---|---|---|---|
| Webhook API | `src/modules/webhook/webhook.controller.ts`, `webhook.service.ts` | the handlers in flight, the timer of a sync request | `POST /webhook`, `POST /webhook/sync`, `GET /webhook/:uuid` |
| Webhook request repository | `webhook-request.repository.ts`, `prisma/schema.prisma` | rows of `webhook_requests`: status, error | `createRequest`, `markAsCompleted`, `markAsFailed`, reads |
| Landmarks queue | `src/modules/queue/` | BullMQ jobs in Redis: state, attempts made, stalls, lock | `addLandmarkProcessingJob`; BullMQ's own moves |
| Worker | `queue.consumer.ts`, `worker.module.ts`, `worker.ts` | the job in hand | `process` |
| Landmarks processor | `landmarks-processor.service.ts`, `landmark.repository.ts` | rows of `landmarks` | `processLandmarksByCoordinates` |
| Overpass service, pipeline, client, response processor | `src/modules/overpass/` | nothing | `findNearbyLandmarks`, `makeRequestWithRetry`, `processResponse` |
| Landmarks API | `landmarks.controller.ts`, `landmarks.service.ts`, `landmarks-search.service.ts`, transformer | nothing | `GET /landmarks` |
| Cache service | `src/common/cache/` | a cache manager in each process, entries `cache:<geohash>` in Redis | `get`, `set` (`delete` has no caller) |
| Coordinates | `coordinate.util.ts` | nothing | rounding, geohash |
| Deployment | `Dockerfile`, `docker-compose.yml`, `main.ts`, `worker.ts` | the processes | start, crash, stop, restart, reset of the stores |
| Health checks | `src/common/health/` | nothing | `GET /health`, `GET /health/queue` |
| Authentication | `src/modules/auth`, `src/common/guards` | nothing: a token is signed and verified with a secret of the environment | `POST /auth/token`, the guard |
| Validation pipe, exception filter | `src/common/pipes`, `src/common/filters` | nothing | 400 for a body, a status for an exception |
| Configuration | `src/common/config` | the environment, read once | two layers of defaults |
| DTO classes, API documentation | `*.dto.ts`, `src/common/docs` | nothing | none |

How they interact: the API creates a row, answers 202 and lets a floating promise publish a
job; a worker takes the job, runs the processor, completes the row. The sync handler runs
the processor itself and races it against a timer. The processor asks the cache, the table
and Overpass in turn and fills the first two; `GET /landmarks` asks the cache and the table.
Processes share the SQLite file and Redis and nothing else. Before a handler of the API stand
the parsers, the guard, once for every route and once more for the POSTs of the webhook, and the
validation pipe; behind it stands the exception filter.

What is hard about it:

- **order**: the 202, the publication, the worker and the row are four actors without a
  common lock; the abort signal of the timer is armed before and heard after an await;
- **partial failure**: every write may fail alone, the reply to `queue.add` may be lost after
  the job was added, the catch block of a floating promise rethrows into nothing and ends
  the process;
- **redelivery**: BullMQ delivers a job again when its lock is lost, while the first
  delivery still runs; attempts and stalls are bounded separately;
- **check then act**: a lookup that finds nothing in cache and table saves later, whatever
  other lookups have done in between;
- **two cache tiers** that fill one another, each with its own lifetimes;
- **restarts**: the API container empties Redis and then the database under running workers,
  which have lists in memory and lookups under way;
- **time**: a token ages while its request is on its way, and its clock counts whole seconds;
- **stale status**: the queue's client learns late that Redis is gone, and late that it is back;
- **boundaries**: rounding against geohash cells, coordinates that are 0, last retries.

The full list, line by line, is `hazards` in `PROJECT.json`.

What makes the parts correct: a row says what happened to the request and agrees with what
the client was told; no request is forgotten; a settled row stays settled; queued jobs end;
sync requests are answered; what is cached or returned has been stored; a retry stores
nothing twice; a completed queued request can be found; a landmark keeps its fields from
Overpass to the client; a reset leaves nothing half behind; a health check tells the truth; no
client is served or refused without cause.

## 2. The modules

| module | models | 
|---|---|
| `WebhookRequests` | API handlers, rows, queue, workers, crashes: the core |
| `RequestLifecycle` | what a client may rely on: the abstract specification `WebhookRequests` implements |
| `WebhookRequestsProofs` | proofs about `WebhookRequests` |
| `LandmarkLookup` | lookups and readers over table, cache and Overpass |
| `LandmarkLookupProofs` | proofs about `LandmarkLookup` |
| `LookupReset` | `LandmarkLookup` across the starts of the API container |
| `LookupResetProofs` | proofs about `LookupReset`, on top of those about `LandmarkLookup` |
| `CacheService` | the two tiers of the cache, for one key |
| `LooseCache` | the cache as its callers see it: the abstract specification `CacheService` implements |
| `CacheServiceProofs` | proofs about `CacheService` |
| `LandmarkData` | a landmark's way from Overpass through the rows to the client: retries, duplicates, field mappings |
| `LandmarkDataProofs` | proofs about `LandmarkData` |
| `Deployment` | stop, start and reset of the API container around `WebhookRequests`, and `GET /webhook/:uuid` |
| `DeploymentProofs` | proofs about `Deployment`, on top of those about `WebhookRequests` |
| `Health` | the health checks: the steps of a check, without a specification of its own |
| `HttpApi` | tokens, guard, pipe and filter around the handlers, with `Health` as two of them |
| `HttpApiProofs` | proofs about `HttpApi` and so about `Health` |
| `MC*` | values for TLC, nothing else |

Definitions whose comment begins with *Mutant* are not part of any specification. Each
changes one definition the way a plausible bug would, and shows that a property notices.

### WebhookRequests

One action is what the event loop runs between two awaits. `handler[r]` is the program point
of the API's handler of request `r`; `wpc[w]` that of a worker in `process`.

- `POST /webhook`: `Arrive`, `CreateRow`/`CreateRowFails`, `Accept` (the 202; the publication
  is not awaited), `Publish`/`PublishFails`, `MarkUnpublished` (the catch block of
  `processCoordinates`, whose rethrow nobody awaits, so the process exits: there is no
  `unhandledRejection` handler in the repository).
- `POST /webhook/sync`: `Arrive` arms the timer, `StartRace` starts the lookup and begins to
  listen, `TimerFires` and `LookupEnds` race, `CompleteSync`, `CompleteSyncFails`, `FailSync`
  are the end of the `try`, and the `catch` with the `finally`. A lookup that lost the race
  runs on, as in the code, which cancels nothing.
- worker: `Take`, `Progress` (three calls of `updateProgress`), `Process`, `MarkCompleted`,
  `ProcessThrows` (any await may reject), then `FinishJob` or `FailJob`.
- queue (external, as the code configures it): `RecoverStalled`, `LoseLock` (both `Stall`),
  `Promote`. A finish or failure is refused unless the worker holds the lock.
- `ApiCrash`, `ApiRestart`, `WorkerCrash`: any process dies at any point. Nothing looks for
  unfinished work after a restart, because the code does not.

Abstractions: a statement to SQLite or a script in Redis is atomic; the lookup only succeeds
or fails; `completedAt` and the coordinates are left out; a publication is not retried by
the Redis client in a way that would add a second job.

`RequestLifecycle` knows only the row, the answer and whether the request has been worked
on. `WebhookRequests` maps to it with `doubt[r] <- InDoubt(r)`: the API was told that
queueing the job had failed, and it had not. In doubt a row may go from Failed to
Completed; otherwise a settled row is final.

### LandmarkLookup

A *slot* runs lookups one after another, so that a retry, the next job of a worker and the
next sync request are the same thing. Program points are the awaits of
`processLandmarksByCoordinates` and of `findNearbyLandmarks`, which asks the cache a second
time. A list of landmarks is a bag, so that storing something twice shows. The plane is a
line: points are integers, `roundCoordinate` rounds to multiples of `Grain` and a geohash
cell is `CellSize` wide; what matters, that a cell edge is not a multiple of the rounding,
is kept. Overpass knows a fixed set of landmarks around each point.

The cache is a set of lists for each cell: a get may miss or return any of them, a set may be
lost, any list may expire. `CacheService` is shown to provide that.

### LookupReset

Extends `LandmarkLookup` by what `Deployment` adds to `WebhookRequests`, for landmarks: the
entrypoint flushes Redis (`FlushAll`), then drops the tables (`MigrateReset`, which may fail
after that), then starts the program (`Bootstrap`). `WorkerSlots` are the lookups of workers:
they go on all the time, though they begin nothing between the flush, which empties the queue,
and the start. The other slots and the readers are the API's and end with it (`ApiEnds`).

The flush empties the cache in Redis, and the cache manager of the API is gone with its
process; that of a worker is not, so what was in a cache goes to `kept`, of which only
workers' lookups get anything (`Recalls`), wherever they ask the cache. `Forgets` is an expiry
or the end of a worker.

`CachedIsStored` and `FoundAfterQueue` do not survive that. `carried` remembers the cells of
which the last reset left a list where the rows no longer are: in a cache, in a memory, or in
the hand of a lookup about to cache it. `StoredUnlessCarried` and `FoundUnlessCarried` say that
these are the only cells to suffer, and `NoSecondSave` that not even there does a slot save
again what it has saved since the reset. The flush comes first, so that a worker may fill
the empty Redis before the tables are dropped; in the other order only memories and hands would
carry lists over.

### CacheService

The cache manager of each process in front of one Redis entry. Each entry has its list, its
age since it was set and what is left of its lifetime. `get` is `GetMemory`, `GetRedis`,
`Refill`, `GetFails`; `set` is `SetMemory`, `SetRedis`, `SetRedisFails`. Lifetimes are three
constants, because the cache manager need not measure what it is given in the unit of Redis.
A `Tick` does not pass under a call: a lifetime is an hour and a call takes milliseconds.
The refinement mapping takes for `held` what a tier holds or a call carries between two
awaits.

### LandmarkData

`Fetch` and `FetchFails` are one try of `makeRequestWithRetry`, as often as
`OVERPASS_MAX_RETRIES` allows: `setting` is what `parseInt` reads, `envSchema` has a default for
none, and `maxRetries` another for what is falsy. `Process`, `Save` and `Read` run the pure
functions, which have the names of the code. Responses are all that
`OverpassResponseSchema` accepts over the small sets of `MCLandmarkData`.

### Deployment

`Deployment` extends `WebhookRequests`: `Runs` is any of its steps but the restart, which
becomes the entrypoint of the container, one action for each command: `WaitForRedis`,
`FlushAll`, `MigrateReset`, `Bootstrap`. `set -e` ends the entrypoint at any of them
(`BootFails`; a reset that fails may have dropped the rows). Workers go on in between, and
their updates of rows that are gone, retries and stalled checks are the steps of
`WebhookRequests`. The `rm` of `DATABASE_FILE` is left out: Prisma opens `prisma/dev.db`
(schema.prisma:5), so that it removes a file nobody reads. `ApiStops` and `ApiExits` are the
signal handler of `main.ts`: no new requests, and the end once the open ones are answered,
which is what `app.close()` waits for. It waits for neither the floating publication nor a
lookup that lost its race.

The clients' `GET /webhook/:uuid` only reads; `seen` remembers what it said.

`KeptUnlessErased` and `ServedStaysSettled` carry what `WebhookRequests` promises of a request
(`Kept`) over to here, for the requests that no reset has erased and while the API serves. In
between it does not hold: from the flush to the reset there are Pending rows without a job.

### Health

The steps of a check; `HttpApi` puts them into its next-state relation. One check at a time, its
probes side by side, each with the awaits it has (disk and heap, measured at once, are one probe).
`reached` and `missed` remember which stores could and could not be reached during the check.

The queue's probe does not ask Redis but its client first, so `client` is apart from `reachable`:
`starting` until the first connection since the program started, `ready`, `broken` (lost, and
still called ready), `reconnecting` (`Notices`). `Connects` may come any time after Redis is back,
up to 20 seconds of backoff in the code. `isHealthy` (queue.health.ts:20) awaits the client, which
BullMQ gives with its first connection and not before, and then looks at the status; `Counts` are
four commands, which wait for a connection and reject when enough tries to reconnect have failed.
A check therefore fails while Redis is there if the client is still reconnecting (`lagged`
remembers that; `HealthIsTrue` allows a 503 for it and `FalseAlarmsEnd` says that this ends), and
a check of a client that never connects is not answered (`RequestIsAnswered`). That BullMQ's own
command on a first connection is answered is taken for granted.

The Redis probe asks the cache manager, which
keeps its entries in memory (the `store` of `redis.config.ts` is not an option of
cache-manager 6), so it is always up. That @nestjs/terminus 11 waits for all probes and
answers 503 if one is down is taken from its interface. A probe that throws instead, which
only the disk probe can, makes a 500 and is left out.

### HttpApi

One request on its way: `Send`, `parse` (the parsers of main.ts:94, before the guard: 400 for what
does not parse; another error of theirs, as for a body that is too long, is no HttpException and
gets the filter's 500), `canActivate` (as often as the guard is applied to the route),
`transform` (the pipe), then `getToken`, `Handle` (the handlers modelled elsewhere, which here
return or throw) or `HandleHealth` with the steps of `Health` and `HealthAnswers`. `Throws` is
the exception filter. Requests share only the clock and the token, so one at a time is enough.

`now` counts ticks, `Ticks` of them to a second. jsonwebtoken cuts `iat`, `exp` and the time of
a check to seconds, while the client is told `3600` from now: `ServedOnlyInTime` and
`RefusedOnlyForCause` say that the cut shortens a token by less than a second and never
lengthens it. The clock may tick between the two runs of the guard. `ApiRestarts` ends the
program at any point; tokens outlive it, as the secret is in the environment.
`PublicRoutes` names the routes that the code marks with `Public()`, `Guarded` those it does not.
Only the POSTs are documented to want a token (README.md:128, 167): `RefusedOnlyForCause` gives a
cause for their 401 and claims none for that of `GET /webhook/:uuid` (section 4). A header without
a token and one whose token does not verify are one value.  Which bodies a schema accepts is left out: a body is
valid, invalid, missing, or holds a wrong key.

## 3. The runs

| run | question | instance |
|---|---|---|
| `RequestsSafety` | do rows, answers and jobs agree, do jobs move only towards their end, and is `RequestLifecycle` implemented? | one async and one sync request, two workers, 3 attempts (the configured number), 1 stall |
| `RequestsLive` | do jobs end, are accepted requests settled and sync requests answered? | one async and one sync request in one API process, a worker, 2 attempts, 1 stall |
| `Restarts` | what is left of requests when the API stops, dies and starts with empty stores, and are those that came since served as promised? | one async and one sync request, one worker, 2 attempts, 1 stall, any number of restarts |
| `Lookups` | does the cache follow the table; does a retry save twice, and what can an overlapping lookup save again; is what is returned stored, and a completed queued request found? | two slots and a reader at a point that rounding moves to the next cell, one radius with and one without a landmark |
| `CacheTiers` | how stale can a list get; are the tiers a loose cache? | two calls in the API, one in a worker, two lists, lifetimes of 1 and 2 ticks |
| `Resets` | what of landmarks outlives a reset, and where? | a worker's slot, a slot of the API and a reader in one cell, one end of the API, which may start more than once |
| `LandmarkTrip` | do landmarks survive duplicates and missing fields; does the client give up in time? | all pairs of 75 elements, all triples of 15 elements with one id; settings none, no number, -1, 0 and 1 |
| `HttpApi` | is nobody served or refused without cause; does a health check say what was so, and again after an outage; is every request answered? | all routes, tokens of a second of 2 ticks, a clock of 2 ticks; two stores and the queue's client, four probes |

Why these bounds are enough to show something. Two workers are what a second delivery needs;
one stall and two attempts make both kinds of redelivery happen, and the third attempt is the
configured limit. Requests share the API process (its death), the workers (contention), and
nothing else; the runs have each sharing with two requests. That one worker
takes each of two waiting jobs in the end is not run: the fairness below assumes it. Two slots overlap in every way a
pair can, and a slot repeats for ever, so retries are unbounded. A refill needs a second
process or a lost cache manager, an overwrite by a refill needs a second call in the same
process: `CacheTiers` has both. One end of the API (`MaxEnds`) starts the container as often as
its steps fail, so flushes and resets repeat, and one cell with one landmark is enough, since
a list either has rows or has none. In `HttpApi` a token is signed at the
first or second tick of a second, and expires, at tick 2 for both, by `MaxTime`: all the cuts the grain allows. Settings
cover each branch of the two defaults. The theorems of section 5 do not depend on any bound.

`CHECK_DEADLOCK FALSE` is only in the configurations of `LandmarkData`, which ends after one lookup.
The others cannot stop: something may always crash, expire or arrive again.

### Fairness

`HttpApi` assumes that parsers, guard, pipe and handlers go on (`Process`), that the client of the
queue notices a lost connection in the end and does not stop trying (`Client`; BullMQ's retry
strategy never gives up), that a probe that can settle does and that the answer follows.
Nothing is assumed of the stores, the clock and the restarts: a Redis that comes and goes for ever
may keep a command waiting, so `RequestIsAnswered` is about runs in which it stays or stays away
in the end, and `FalseAlarmsEnd` about those in which it stays. That the handler of a sync
request returns is what `SyncIsAnswered` is about. `Deployment` and `LookupReset` have no
liveness properties and no fairness.

`Fairness` of `WebhookRequests` says that what has begun ends. An await settles (weak fairness
of the handler, the lookup and the worker steps; which way it settles is open), a timer
fires, a backoff runs out and the stalled check of a dead worker's job comes round (weak),
and a waiting job is taken in the end although workers are busy with other jobs in between
(strong: BullMQ's wait list is a queue). Nothing is assumed of arrivals, crashes, or slow
lock renewals, and nothing says that a lookup ever succeeds. Properties that need the API
process to live say so.

## 4. Where documents and code disagree

Each has a run that expects TLC to find the disagreement.

| run | what happens | what is written |
|---|---|---|
| `FailedJobLeftPending` | when the last attempt of a job fails nothing marks the row; it stays Pending for ever | schema.prisma:16, README.md:452 |
| `TimeoutUnheard` | a timer that fires while the row is being created is lost: the abort listener is added later, and the handler waits for the lookup however long it takes | webhook.controller.ts:195 |
| `SyncStoresElsewhere` | the sync endpoint does not round, `GET /landmarks` does: near the edge of a cell it answers 404 for a request that has completed (and only there: `FoundAwayFromEdges` is proved) | landmarks.service.ts:30 |
| `ZeroCenter` | a way centred on the equator or the prime meridian gets no latitude or longitude, and the save of the whole response fails | README.md:276-281 |

Met on the way and not run: every start of the API container, a restart after a crash too, drops
all requests and landmarks, where Dockerfile:36 speaks of the first instance; a reset between a
worker's save and its cache leaves lists without rows (README.md:467, `carried`); the GET
endpoints of the webhook are called public (webhook.controller.ts:46, and README.md:145 asks for no
token) but only the health, token and landmarks routes are marked so, and `GET /webhook/:uuid`
without a token is answered 401, which is why `RefusedOnlyForCause` leaves it out; two overlapping lookups of a cell both save its landmarks, as
there is no unique key, and one that finds the list of another in the cache saves it again, duplicates
and all (`SaveAtMostDoubles`; README.md:466 says that only what is not in the database is fetched);
the Redis probe is up without Redis (redis.health.ts:10); the queue's probe is to tell whether
the queue is connected (queue.health.ts:19), but waits for ever if it never was since the start,
which is the exception of `RequestIsAnswered`, and says that it is not for up to the backoff after
it could be (`lagged` in `HealthIsTrue`); a timeout is answered 500 where the API documentation says 408
(webhook.controller.ts:177, 238); a row completed in doubt keeps its error (README.md:161;
`ErrorTellsFailure` says exactly when); the radius is not part of the cache key, so the first
radius asked for in a cell decides (README.md:17); the retries have no backoff
(overpass-api.client.ts:25); a landmark answered from Overpass has an empty `moreInfo` where
one answered from the table has none (README.md:292; `RowsKeepLandmarks`, which is proved, says
that this is all that a row loses); a way and a
relation with the same id count as duplicates (overpass-response.processor.ts:37).

## 5. What is proved

The proofs assume what the modules' ASSUMEs say: async and sync requests are disjoint, the
null values are not requests, workers, lists or numbers, `Attempts` and the lifetimes are
positive, the coordinates are naturals, responses are sequences of elements of the schema's types. TLC evaluates these on every run.

**WebhookRequests**, for any requests, workers, attempts and stall limit: `TypeOK`,
`CompletedWasProcessed`, `SyncAnswerAgreesWithRow`, `RaceIsOpen`, `CompletedJobSettlesRow`,
`PendingIsOwed`, `ErrorTellsFailure`, `SettledStaysSettled`, `JobsAdvance`, and that it implements
`RequestLifecycle`. None is inductive alone. Even `attempts <= Attempts` needs to know that a
job that has not failed has attempts left and that only the holder of the lock of an active
job may fail it (`QueueInv`). The invariant `IInv` says what every program point knows:
`HandlerInv` (which rows, jobs and lookups a handler can have left behind), `AnswerInv` (what
the client has been told by then), `SettledInv` (where a settled row comes from, and its
error), `WorkerInv` (what `process` knows of its request although others run it too). Each is about the
requests of a set `R`, all of them here; the step lemma holds for any `R` and has a case for each action.
`JobsAdvance` needs `QueueInv` only: `JobRank` counts the attempts and stalls a job has left, and
every step that moves the job lowers it, so that no mix of the two delivers a job for ever. That is
the safety half of `JobsEnd`, for any limits, as `RaceIsOpen` (a handler in its race has a lookup that
still runs; proved, and no run lists it) is of `SyncIsAnswered`. The refinement proof has a lemma, `DoubtStays`, that only
`PublishFails` changes doubt; each remaining step then maps to a step of `RequestLifecycle`
or to none.

**LandmarkLookup**, for any slots, readers, points, radii, landmarks and grid: `TypeOK`,
`CachedIsStored`, `ReturnedIsStored`, `NoSecondSave`, `FoundAfterQueue`, `FoundAwayFromEdges`,
`SaveAtMostDoubles`. The argument: rows
only grow; every list that is cached, or in hand past the save, is below the rows of its
cell; a slot that has saved a cell leaves rows there, so its next lookup cannot get past the
database check; and a point completed by way of the queue has rows in the cell its reader
computes. The invariant `CellsInv(C, returned)` says this of the cells C only, and its step lemma
holds for any set of them: `LandmarkLookup` takes all. Of a reader that was answered 404 it says
that the cell of a completed lookup was another than the reader's. For the queue there is no other;
for the sync endpoint `RoundingKeepsCell` shows that there is none unless rounding, which moves a
coordinate by half a `Grain` at most, may cross an edge: the defect of `SyncStoresElsewhere` reaches no
further. (No run has this property: a second coordinate in `Lookups` is out of its time, and with
one slot and the points 9 and 11 TLC agrees.) `SaveAtMostDoubles` adds `SaveInv`: what is about to be
saved has one of each landmark, from Overpass, or as many as the rows, from a cache.

**LookupReset**, for any lookups, workers, readers, grid and number of ends: `ResetTypeOK`,
`StoredUnlessCarried`, `FoundUnlessCarried`, `NoSecondSave`. The cells that are not carried obey
`CellsInv`, without what has been returned, which a reset may forget; the memories of workers
hold nothing else than the caches did (`KeptInv`). A reset makes the cells fresh of which it
finds no list anywhere, and for these the invariant is empty at that moment.

**CacheService**, for any processes, calls and lifetimes: `TypeOK`, `BoundedStaleness`, and
that it implements `LooseCache`. An entry's age and what is left of it add up to a lifetime
in Redis, and to at most two in a cache manager; a call that carries a list to a refill has
it from a live entry.

**Deployment**, for any requests, workers, attempts and restarts: `DeploymentTypeOK`,
`ErasedIsGone`, `KnownUnlessErased`, `StopAnswersAll`, `KeptUnlessErased`, `ServedStaysSettled`.
The type part reuses the step lemma of `WebhookRequestsProofs` for `Runs` and for `Bootstrap`. What
is added is `BootInv` (while the container starts no handler runs, and after the flush there
is no job), `ErasedInv` (an erased request has left the handler, so nobody can add its row or
its job again) and `ToldInv` (an answer that names a uuid comes after its row).
A reset breaks the `IInv` of `WebhookRequests`, which ties rows to answers and jobs to rows. For the last
two properties `UntouchedInv` keeps it for every set of requests that no reset has touched: not
erased, and, while the API is down, not arrived. No step makes a request untouched, with one
exception: at `Bootstrap` all that are not erased have not arrived (`ResetInv`). The flush and the
reset leave those as they are, since they have no row, no job and no worker (`IdleIsBlank`), and every
other step is one of `WebhookRequests`, whose step lemma holds for any set.

**LandmarkData**, for any responses and any settings of the retries: `TypeOK`, `GivesUpAfterRetries`,
`LandmarksAreBest`, `RowsKeepLandmarks`. `DataInv` says what the lookup has at each step:
`FetchInv` (the tries so far and the retries they may come to), `LandmarkInv` (the landmarks are those
of the response) and `RowInv` (the rows are those of the landmarks). That `removeDuplicates` keeps
the best element of each id, the first of equals, is `RemoveDuplicatesKeepsBest`: the fold of the
community modules is unfolded one element at a time (`RemoveDuplicatesReduces`, which first has to
show that the function it is defined by exists), and one step keeps the best of a prefix
(`KeepBestStep`). Both go on by least counterexample, from the well-foundedness of the naturals
(`LeastElement`), since the library's induction theorems cannot be instantiated here.

**HttpApi**, for any lifetime of tokens, any grain and bound of the clock: `HttpTypeOK`,
`HealthIsTrue`, `ServedOnlyInTime`, `RefusedOnlyForCause`. `CheckInv` ties the request to its
check (there is one from the handler on, the one the route asks for, and its code is that of
its probes), `ProbeInv` each finding of a probe to the stores that were reached or missed,
`ClientInv` that of the queue to its client as well (a ready client is connected; one that is
reconnecting during a check makes it `lagged`), and `PipeInv` what is behind the guard to a token. The two properties about tokens rest on the lemma
`SecondsCut`: cutting both ends of a span to seconds changes it by less than one.

Only model-checked: everything under fairness (`JobsEnd`, `SyncIsAnswered`,
`AcceptedSettlesUnlessJobFails`, `RequestIsAnswered`, `FalseAlarmsEnd`), which TLAPS does not reach here.

## 6. Not modelled

- DTO classes and the API documentation: types and decorators without behaviour. Which bodies the
  schemas accept: the models begin with a valid request, or with one that is refused.
- `verifyToken`, `getRecentRequests`, `CacheService.delete`: no caller.
- `getQueueInfo` and the queue's event listener: they read or log.
- Configuration beyond the retries: read once, its values are constants. That the secret has two
  names with two defaults matters in no environment that sets one of them.
- The order in which a worker told to stop (`worker.ts:43`) closes: it is one of the ways it dies.
- The length of a geohash and two dimensions of the plane; the order of a list of landmarks.

## 7. Plan

Done: `WebhookRequests` with `RequestLifecycle` first, since requests and their rows are what
the service promises; then `LandmarkLookup`; then the two parts it takes as given,
`CacheService` and `LandmarkData`; then `Deployment` around the first and `LookupReset` around
the second; `Health` with `HttpApi` around it; proofs of all of them.

Next, in this order:

1. `LandmarkLookup` over the instantiated `LooseCache`, so that the composition is by
   refinement rather than by argument.
2. Rows, queue and lookups in one module: a request whose row says Completed is found by
   `GET /landmarks` away from the edges, unless there was nothing to find.
3. Liveness of the container: a start that keeps failing but not for ever comes up, and the
   caches forget in the end what a reset has orphaned.
4. The radius: whose radius decides what a cell holds.
