# EraseGraph: a TLA+ model of its deletion workflow and console

EraseGraph deletes a person's data from several stores, and keeps an audit trail
that says it did.  A NestJS backend accepts a deletion request, announces it on a
RabbitMQ exchange, and five cleanup services each erase one store and report
back.  The backend turns the reports into rows of Postgres and, once all are in,
into a message for a notification service.  A React console submits requests,
uploads files of them, follows them and shows the audit trail.  This directory
holds TLA+ modules of all that, TLC configurations that check them on small
instances, and proofs, checked by TLAPS, of what the coordinator, the scanners,
the cache worker, the proof chain, the event publisher, the console and the
composed system guarantee for any number of requests, replicas and stores.

Paths below are relative to the repository.  `DR` is
`backend/src/deletion-request/deletion-request.service.ts`, `EC`
`backend/src/events/event-consumer.service.ts`, `pages` `frontend/src/pages`.

## 1. Inventory

| Component | Code | State it keeps | Operations |
|---|---|---|---|
| Coordinator | `DR`, `EC` | tables `deletion_requests`, `deletion_steps`, `proof_events` | create a request (two inserts, one publish); consume a step result (write the step row, read request and steps, decide, write the request, publish the lifecycle message, append the proof event, ack) |
| Primary, search, backup, analytics workers | `*-service/src/*-consumer` | the store they erase; analytics also writes `deletion_steps` | take, (mark RUNNING,) erase, publish, ack |
| Cache worker | `cache-cleanup-service/.../cache-consumer.service.ts` | Redis keys of the data and of the circuit breaker; `processed_events`; three retry queues and a dead letter queue | breaker check, claim of the event id, delete keys, record success or failure, retry, dead-letter, ack |
| Event publisher | `backend/src/events/event-publisher.service.ts` | `connection` and `channel`; any number of reconnect timers | connect, publish (connecting first when it must), schedule a reconnect on `error` and on `close` |
| SLA monitor | `backend/src/admin/sla-monitor.service.ts` | none but its interval; writes `deletion_requests` and `proof_events` | every minute: list stuck requests; for each: flag, look up the proof row, insert it |
| Notification service | `notification-service/...` | `deletion_notifications` | consume a lifecycle message: upsert, ack |
| Proof chain | `backend/src/proof`, `proof-service` | `proof_events` with `previous_hash`, `event_hash` | append under an advisory lock (backend), append without one (proof-service), verify |
| Attestation | `backend/src/proof/proof-attestation.service.ts`, `DR` | none | load request, steps and events; verify the chain on a second read; sign |
| DLQ replay | `backend/src/admin/dlq-replay.service.ts` | none; holds one message at a time | count the dead letters, then take, publish, ack one by one |
| Circuit status | `backend/src/admin/circuit-breaker.service.ts` | none | read the breaker's three keys, one connection each |
| Bulk deletion | `backend/src/bulk-deletion`, `pages/BulkUpload.tsx` | the page: file, result, error; the service: rows done, subjects seen | choose or refuse a file, upload; parse, and create one request per new subject |
| Demo users | `backend/src/users`, `pages/Users.tsx` | four stores of demo rows and keys | list; restore, statement by statement |
| Progress stream | `DR:608-671` | per client: an interval, the signature of the last row sent | read the row every 500 ms, send what changed, end on a final status |
| Submit page | `pages/SubmitDeletion.tsx` | the created request, live status and steps, an `EventSource` | submit, open and close the stream, take its events |
| Dashboard, history | `pages/Home.tsx`, `pages/History.tsx` | filter, list, selected request; proof, verification, notification, attestation, and whether each is loading | two effects that load the list and the proof panel, and cancel each other |
| Admin page, data discovery | `pages/Admin.tsx`, `pages/DataDiscovery.tsx` | what was fetched last | independent reads |
| Health, metrics, tracing, schema bootstrap, gateway | | | plain reads, start-up statements, a proxy |

**How they interact.**  `deletion.requested` is bound to one queue per worker.
All results go to one queue, `erasegraph.step-results`, with one consumer per
backend replica, and (successes and failures) to proof-service's own queue.
Lifecycle messages go to `erasegraph.deletion-notifications`.  Every consumer
has `prefetch(1)`, acknowledges after its handler, and drops the message
(`nack` without requeue) when the handler throws.  Backend, scanner, analytics
worker, proof-service and notification service share one Postgres database, and
no two statements of a handler are in one transaction (the exception is
`appendEvent`).  `k8s/backend.yaml` runs two replicas of the backend, so two
handlers and two scanners interleave at every `await`; the other services have
one.  Containers are restarted when they end (`restart: unless-stopped`).

The console calls the backend over HTTP.  A page holds its state in React hooks:
an effect runs when what it depends on has changed, after the cleanup of its
predecessor set `isActive` to false, and it cannot withdraw the calls that
predecessor has sent.  The backend's admin endpoints work on the same queues and
Redis keys as the cache worker; the users endpoints on the stores the workers
erase.

**What is hard here, and what correctness means.**

- *Coordinator*: the decision is taken on rows read one await earlier, compared
  with a status read two awaits earlier, and written three awaits later.  Status,
  `completed_at`, lifecycle message and proof event are four separate effects; a
  crash or a throw may keep any suffix of them from happening, and a redelivery
  runs the handler again on rows that moved on.  Correct: no outcome is ever
  shown or announced that the workers did not report; no proof event is lost to a
  crash; every accepted request ends, and row and notification then agree.
- *Cache worker*: a claim that outlives the crash of the work it claimed; a
  breaker of three Redis keys written one after the other; retries published
  before the ack.  Correct: success means erased, one final word, a dead letter
  was reported, the breaker is open only with a cause, every request is answered.
- *Workers*: redelivery after a crash; analytics puts a finished step back to
  RUNNING.  Correct: what they say is true.
- *SLA monitor*: a stale list, updates by id, three statements per row, two
  scanners.  Correct: a flag has its audit event, and late requests are noticed.
- *Notification*: redelivery and loss.  Correct: the subject is told the truth.
- *DLQ replay, circuit status*: messages are published before they are acked, and
  keep a retry count that lets them pass claim and breaker; three keys are read
  one by one while the worker writes them one by one.  Correct: no dead letter is
  lost, every replay ends, a circuit shown OPEN was open.
- *Progress stream*: ticks overlap when a query is slow and answers overtake each
  other; the last event and the end are separate; rows open again after the end.
  Correct: the page shows the request it names; when it says how the request ended,
  status and steps are those of the read that was decided on; a request that is
  COMPLETED or FAILED is not shown as running for ever.  One whose outcome is
  PARTIAL_COMPLETED is (section 3).
- *Dashboard*: every answer to the list makes new objects, so that the two effects
  set each other off; answers come to a page that has moved on.  Correct: what is
  on the screen belongs together, the page comes to rest, and the attestation of
  the selected request is shown in the end.
- *Bulk deletion*: a row is saved before its event is published, and an error at
  any row ends the file.  Correct: the result accounts for every row; what was
  saved and not announced belongs to an upload that failed.
- *Publisher connection*: `error` and `close` each start a timer, events connect
  beside them, and all these `connect()` calls write the same two fields one await
  after the other; the channel an event makes has no handlers.  Correct: a lost
  connection comes back, whatever overlaps.  A lost channel may not (section 3).
- *Demo users*: a restore is a dozen statements without a transaction, beside
  erasures and other restores.  Correct: a restore that answers has repaired what
  an earlier one left behind.
- *Attestation*: the verdict is on rows read after the ones that are listed.
  Correct: a report that says verified can be verified by itself.
- *Proof chain*: three writers of which one holds the lock; the order of
  `created_at` is not the order of the lock.  Correct: links resolve, no result
  loses its proof, and the chain verifies.

`PROJECT.json` lists each hazard at its line.

## 2. Modules

```
DeletionTypes       status values, event types, their conversion; how a row may move
Coordinator         createDeletionRequest and the result consumer, await by await
 └ CoordinatorProofs    TLAPS proofs about it
StepWorker          primary, search, backup, analytics workers
CacheWorker         the cache worker: claim, breaker, retries, dead letters
 └ CacheAdmin           the same with the admin's replay and circuit status
    └ CacheAdminProofs  TLAPS proofs about both
SlaMonitor          the scanners
 └ SlaMonitorProofs     TLAPS proofs about them
Notification        the notification service
EraseGraph          composes the five above over shared tables and queues
 └ EraseGraphProofs     TLAPS proof that it implements Coordinator
    └ EraseGraphTruth   TLAPS proofs about outcomes, the promise, agreement, types
Erasure             abstract: what the whole system promises a client
ProofChain          the rows of proof_events of one request, three writers
 └ Attestation          the same with the readers that attest to it
    └ ProofChainProofs  TLAPS proofs about both
Publisher           the connection events leave through, await by await
 └ PublisherProofs      TLAPS proof about it
RequestRows         the request rows as the console sees them
SubmitPage          the submit page and the progress stream
Dashboard           the dashboard and the history page
Intake              bulk upload, page and service
DemoData            the demo users: restores and erasures
Console             one page of the four above, and the other clients
 └ ConsoleProofs        TLAPS proofs about the pages
MC*                 model values for TLC
```

`EraseGraph` instantiates the five component modules with variables of the same
names: a table or a queue two services share is one variable.  Each step of
`EraseGraph` is one component's step with the other components' own variables
unchanged, so interaction happens through shared state only, as in the code.
Backend process death is composed: `CrashReplica` ends handler and scan together,
because they live in one process.

Two abstractions sit above it.  `Erasure` knows nothing of services: one outcome
per request, decided once, backed by what was erased, told as decided
(`ErasurePromise`).  `Coordinator!Spec` itself is the abstraction of the *other*
services: its `Environment` may publish any result of its vocabulary, mark
analytics RUNNING, flag any request and take lifecycle messages; the real
services do no more (`CoordinatorSpec`, checked by TLC and proved), so what is
proved of `Coordinator` holds of the composed system.

`CacheAdmin` and `Attestation` extend the component they act beside, so their runs
cover the component too.  `Console` extends its four pages and chooses one at
`Init`: pages share nothing but the backend, and leaving one drops its state
together with the answers still on their way to it.

`RequestRows` stands for the coordinator there: every page takes what `Progress` or
`RowsMove` does to a row, and both do what `RowMoves` of `DeletionTypes` allows.
That this is all a row ever does is not left to the reader: `RowsMoveAsShown` of
`Coordinator` says so of the rows its handlers, analytics and the scanners write, and
is checked in `coordinator` and proved (`RowsAreAsShown`); `SystemIsCoordinated`
carries it to the composed system.  A row is `open` until every service has reported
its end, `reported` from then on, and `settled` while all its step rows are terminal:
it goes back and forth between the last two, because analytics puts a finished step
back to RUNNING when its request is redelivered, and a late RETRYING overwrites a
final row (`DR:497`).  The status is written later than the steps and from older
reads, so any status stands beside any of the three; an outcome dates the row.

### Correspondence with the code

`PROJECT.json` "map" gives the lines of every definition.  In outline:

- One action per `await` whose effect other processes can see or that sees
  theirs.  Local computation joins the await before it.  What a handler read
  earlier is kept in `before` (the request's status) and `snap` (the step rows)
  until it goes out of scope.
- `pc` names the await a replica is at: `update` (`EC` handlers →
  `updateStepStatus`), `request` and `steps` (the two reads of
  `updateRequestStatusIfNeeded`), `partial` and `outcome` (its two writes),
  `publish` (the lifecycle message), `proof` (`saveProofEvent`), `ack`.
- `Decision` is `DR:526-558` with both early returns; `Outcome` is `DR:547-554`.
- `creation` follows the awaits of `createDeletionRequest`.  `AbandonCreate` is
  the crash or exception in between: rows stay, nobody resumes.
- A queue is a sequence where its order matters (`results`, `lifecycle`).  A
  crash returns the unacked message to the head; a worker's queue is the set of
  published requests it has not acked.
- `reported` and `erased` are history variables: what was ever published, what
  was ever deleted.  No guard reads them, except that `Repeats = FALSE` keeps
  the environment of the stand-alone coordinator from publishing one result twice.
- Cache worker: `cpc` names the Redis, Postgres or AMQP call it is at.  `retries`
  counts the copies of a request per retry count, in a retry queue or back in the
  main one: the TTL between the two is only time.  The breaker's keys are
  `circuit`, `failureCount` (followed to the threshold) and `openUntil` (present
  and in the future, or not).  `WindowExpires` is the 30 seconds passing.
- Scanner: `spc`, `slist`, `sreq` are position, rest of the list, current row;
  `rejected` is the insert refused by the unique index, which nothing handles
  and which ends the Node process.
- `CacheAdmin`: `apc` is the position of the operator's call; `rleft` the count the
  replay took from `assertQueue`, `rreq` the message it holds.  A republished
  message keeps its headers, so it is a copy at the last retry count.  `sawOpen`
  and `sawWindow` are what the circuit call has read.  `calm`, `dropped` and
  `wasOpen` are history.
- `Attestation`: `seen` is the events loaded; `Verify` judges the rows of its
  moment.
- Console: a fetch is a call, a read by the backend and an answer.  A React effect
  runs in the step that changes its dependency.  An effect that is replaced is
  forgotten when all it would still do is guarded by `isActive`; the proof effect
  is not, so the replaced ones that have not reached `loadAttestation` are counted
  in `late`.
- `SubmitPage`: `stream[q]` is both ends of one `EventSource`: the server's phase
  (`first` read, `ticking`, `ended`), the row it sent last, the `reads` not
  answered yet, and the `wire` to the page.
  `endedOn` is the row the page's final word was decided on (history).
- `RequestRow` of `DeletionTypes`: a row as its readers see it.  They take SLA_VIOLATED
  for one more status that ends nothing; PARTIAL_COMPLETED stands for both, and
  `dated` tells the intermediate one from the outcome.
- `Publisher`: `connection` and `channel` are the two fields.  A connection is named
  for the `connect()` that makes it, a channel for its connection and for who made
  it; `open` and `handled` hold those that are open and those that have handlers,
  whatever the fields name.  `call` is the await each `connect()` is at (`connect`,
  `channel`, `declare`: `amqplib.connect`, `createChannel`, the assertions) and whether
  a timer or an event made it; `remaking` the connections an event awaits
  a channel of.  The assertions and `.on(...)` go by way of the fields, as in the code:
  of two overlapping calls both may listen to one connection, and nobody to the other.
- `DemoData`: a step per statement; `copies` counts the rows of a user in a store up
  to two, which is what a repeated insert makes.
- `ProofChain`: a row is its dedupe key (which stands for its hash), its
  `created_at` and its `previous_hash`.  In the backend `created_at` is `now()`,
  the start of the transaction, and the advisory lock is taken afterwards.

### Left out on purpose

Payloads, logging, tracing; the simulated per-region sleeps; the TTL of retry
queues as time; two overlapping ticks of one scanner; ties of `created_at`;
proof rows that differ only in their timestamp (one element of `proofs`).  The
binding of the cache worker's main queue comes from
`infra/init-scripts/rabbitmq/definitions.json` (and its copy in `k8s`), outside the services; it is taken to be
there.

Of the console: the development double mount of StrictMode; listings longer than
their limit (25 and 50); the exports and expanded events, which are views of the
proof; more than one `retryAttestation` at a time.  Of the publisher: its orderly
disconnect at shutdown; `publishLifecycleMessage`, which throws without a channel and
makes none; the events themselves, whose failure is `UploadFails` and
`AbandonCreate`; and what becomes of a process whose connection or channel emits an
`error` nobody listens to.

## 3. Runs

| Run | Question | Instance |
|---|---|---|
| `coordinator` | Is every status, `completed_at` and lifecycle message justified, when either of two handlers may throw or die at any await?  Does a row move only as the pages are explored with? | 2 replicas, 1 request, 2 steps, the fast one with two contradictory final words; most general environment |
| `cache_admin` | Are success, breaker and dead letters truthful under failures, outages, crashes, replays and circuit reads?  Is there one final word and an answer for everyone while nothing but cleanups goes wrong? | 1 request, 3 retries, threshold 3 |
| `timers` | What the backend does by its timers.  Are late requests noticed and flags audited?  Is somebody always on the way to a new connection, and does it come, whatever `connect()` calls overlap? | 2 scanners, 2 requests, coordinator writes anything; or 3 connections, 2 losses |
| `workflow` | Does the composed system implement `Erasure`, finish every request and end in agreement? | 1 replica, primary, cache, analytics; failing cleanups and a retry |
| `monitored` | Do two replicas with scanners decide every request, although a refused insert restarts one, and is every request dated once nothing is on its way? | 2 replicas, cache and analytics, 1 late request |
| `drops` | Is nobody told what did not happen when any consumer may lose its message? Are the services a `Coordinator` environment? | 2 replicas, cache and analytics, breaker in any state |
| `restarts` | Does COMPLETED mean erased, and do settled steps keep their proof, when every service may die anywhere? | 1 replica, cache and analytics, breaker in any state |
| `chain_writers` | With all writers and crashes: do links resolve, is every result proved, do the rows of a single replica verify, does a verified report stand alone? | 2 results, 2 replicas, proof-service, scanner, a reader |
| `console` | Does each page show what belongs together, come to rest, account for its upload, repair its demo data, while answers come late, in any order or not at all? | 2 requests; every page |
| `two_replicas` | *(expected violation)* do rows that all succeeded give COMPLETED? | 2 replicas, no faults |
| `open_circuit` | *(expected violation)* is a request whose cache step is skipped finished and its subject told? | 1 replica, no faults, breaker open |
| `attestation` | *(expected violation)* does the panel of a loaded proof show its attestation? | dashboard, no faults |

What is proved of the composed system for every kind of fault is checked in the run
whose faults threaten it most, and not in each: `NotifiedTruthfully` in `drops`,
`CompletedMeansErased` in `restarts`, its `TypeOK` by the proof alone.

**Bounds, and why they are enough.**  One request in the composed runs and in `cache_admin`: rows,
decision and messages of different requests share nothing but queue positions
and the breaker.  Three retries reach the threshold of three by one request, which
may also find the breaker open; the scanners share a list, so `timers` has
two.  Two replicas are
the deployment.  One fast step besides analytics gives both kinds of completion
(fast done, all done); `workflow` has two.  `MaxQueue` (1, or 2 in `workflow`) and
`MaxLifecycle` (1) block a publisher while the queue is full, which only delays
it: consumers never wait for publishers.  Two replicas hold a message each
besides the queued one, so three results are in flight, and are reordered by the
replicas.  A crash may take the queue one above its bound.  `MAX_RETRIES` is 3 in
`cache_admin` and 1 elsewhere; `CIRCUIT_THRESHOLD` 3 or 2: first failure,
last failure and the threshold in between all occur.  `MaxCopies` stops crashes
once a retry exists in that many copies; `MaxClock` (4) stops crashes in the chain
after that many clock readings.  The initial breaker is what earlier requests may
have left in Redis: closed, or open with the threshold reached and its window
running or over.

In `console`: two requests, so that one can replace the other on the page; two
unanswered reads (`MaxReads`), so that one overtakes the other; `MaxWire` 1 (the
server answers with at most one event, and the end, still on the wire) delays
the server only; one replaced proof effect (`MaxLate`); two files with blank, repeated
and final empty cells; two users, two callers, one erasure in
`DemoData`, so that restores overlap and an erasure falls into one.  The filters
are the empty one and one that matches a part of the requests and one status.

`timers` chooses one of its two parts at `Init`, for they share nothing (module
`MCBackground`).  Of the publisher: two lost connections, channels or brokers
(`MaxLosses`) and two timers (`MaxTimers`), which are those of one loss, so that a connection is lost while an
earlier loss is being repaired, by an event as well; three connections, so that two
`connect()` calls overlap beside the connection the fields name.  A `connect()` takes
the name of a connection that is closed and that nobody holds; if there is none, of
one that is open and no longer named, whose loss is then left out.  One event at a
time waits for a connection, and one channel made by an event is open per connection.

**Fairness.**  `FairSpec` states weak fairness of each connected service's own
progress (`HandlerStep`, `ScanStep`, `WorkerRun`, `CacheRun`, `NotificationRun`,
the unfinished `createDeletionRequest`), and of the restart of a process that
ended by itself (`restart: unless-stopped`): an event loop that can go on does,
and a consumer with a message is given it.  Nothing is assumed of clients,
failing cleanups, faults, the clock or the breaker's window.  `AdminFairSpec` adds
the replay's own progress: a loop of awaits.  `Console!Fairness` lets calls be
answered, the server's interval fire, and events be delivered; users, other clients
and faults owe nothing, so `ScreenSettles` excepts a user who never stops.
`PublisherFairSpec` lets reconnect timers fire and the awaits of `connect()` be
answered; events and the broker owe nothing, so `Reconnects` excepts a broker that is
away.  No liveness run of
`EraseGraph` allows the faults `crash` or `throw`: a message dropped by design is
not processed later; `CalmAnswered` says the same by its `calm`.

**What the violation runs show.**

- `two_replicas`: replica 1 handles the last fast result and reads the steps
  before analytics is done; replica 2 handles the analytics result, writes
  COMPLETED, `completed_at` and the lifecycle message; then replica 1's write of
  PARTIAL_COMPLETED (`DR:536`) lands.  Nothing writes the row again.
- `open_circuit`: the cache step is skipped, so the intermediate status
  PARTIAL_COMPLETED is also the final one.  When analytics reports last,
  `DR:556` takes the final write for done and returns before `completed_at` and
  the lifecycle message: the request is never finished and nobody is notified.
- `attestation`: the answer to the list selects a request, whose proof effect runs;
  the list effect runs too, for the selected id changed, and its answer brings the
  same request as a new object, which replaces the proof effect.  The new effect
  shows the attestation; then the replaced one reaches `loadAttestation`, whose
  first three lines are not guarded by `isActive` (`pages/Home.tsx:252`): they
  clear the attestation and announce that it is loading, and the answer is then
  discarded because the effect is not active.  The panel stays at "Loading signed
  attestation...".

**Where properties stop holding.**  The runs above say exactly under which faults
each property was checked.  The model also shows, by the same actions, why it is
not checked under more:

- `CalmOneFinalWord` and `CalmAnswered` end with the first crash, outage or replay.
  The claim (`ClaimNew`) commits before the work, so the redelivery after a crash
  is ignored as a duplicate and the request is never answered; `CacheThrows`
  settles the delivery without a retry; a replay that succeeds adds
  SUCCEEDED to the FAILED of the same request.
- `DeadLetterKept` excepts a delivery the worker nacked: an outage in the catch
  block, after FAILED was published and before the dead letter was.
- `ScreenConsistent` says nothing of the attestation a retry brought: its answer is
  not compared with what is selected by then, and may be another request's.  The
  proof of the last request stays on the screen until the next one is answered.
- `RestoredWhole` asks that the restore ran alone: two that overlap insert their
  rows twice.
- `QuietAgreement` and `ErasurePromise` end with the second replica (`two_replicas`)
  and with the first redelivery: an analytics worker that dies between publishing
  success and acknowledging puts its settled row back to RUNNING, and the next
  result to be handled moves a decided request back to PARTIAL_COMPLETED.
  `QuietAgreement` also leaves a request undated that the breaker skipped
  (`open_circuit`).
- `DecidedWhenQuiet` is checked with two replicas but without failing cleanups: the
  replicas may handle RETRYING after the final word that followed it, and the row
  stays RETRYING; nor with an open breaker, for the reason above.
- `EveryRequestFinishes` asks for the notification; between `WriteOutcome` and
  `PublishLifecycle` a replica that dies leaves a request that is COMPLETED and
  whose redelivered result returns at `DR:556`.  In `monitored` the refused
  insert of one scanner is such a death, so that run checks
  `EveryRequestDecided`.
- `ViolationHasProof` and `AuditedAtLast` need scanners that are not killed
  between `Flip` and `SaveProof`: a flagged request is not selected again.
- `Flip` has no guard on the status: a request completed since the list was read is
  overwritten by SLA_VIOLATED, and stays so.
  `project-docs/design-docs/sla_monitoring_architecture.md` (352 and 356) says that the
  update is guarded by the status and in one transaction with the audit event; the
  code has neither, and the model follows the code.
- `StreamTruthful` compares the page with the read its final word was decided on, and
  with the date.  It does not say that all steps of that read are settled, nor that
  the status or the steps are still those of the rows: the pipeline beside COMPLETED
  may show a step that analytics put back to RUNNING or that a late RETRYING overwrote,
  and the row may have become PARTIAL_COMPLETED since.
- `StreamEnds` excepts a request whose row says PARTIAL_COMPLETED.  As an outcome it is
  dated and announced (`DR:550-563`), but the stream ends on COMPLETED and FAILED only
  (`DR:643`): it is read on and on, and the page says "Processing..." as long as it is
  open.  The same goes for a COMPLETED that a late write or the flag has replaced before
  the stream read it.
- `ReconnectPending` and `Reconnects` ask that no connection without handlers is lost by
  itself, which is `LinkFaults = {}`.  Overlapping `connect()` calls leave connections
  that nobody listens to; if the field holds one of them and it is lost, no timer starts.
- `Reconnects` speaks of the connection only.  A channel that an event has made
  (`event-publisher.service.ts:165`), or whose `connect()` is not done, has no handlers;
  when it closes it stays in the field, closed and not null, and every event throws until
  the connection is lost as well.  `ChannelLost` closes such a channel like any other.
- `ChainVerifies` speaks of rows that one replica wrote alone.  With two, a
  transaction that starts first may lock last; proof-service neither locks nor
  uses `now()`; the scanner's row has no hashes; a failure without metadata is
  hashed with an `undefined` property that `jsonb` drops (`Bare`).

## 4. Proofs

The theorems hold for every value of the constants that the modules' assumptions
allow: any number of requests, replicas, stores, users and callers, any bound on
queues, any faults.  Where one needs more, the table says so:

- *steady*: `Faults \subseteq {"fail"}`, `Slow = {}` and one replica.  Cleanups fail
  and are retried, the breaker opens and skips, in any state it is found in.  The
  instance of `workflow` is one; `two_replicas` shows what a second replica breaks.
- *healthy*: `Faults = {}` and `Breaker = "closed"`, with any replicas and any late
  requests, so that replicas still die of a refused insert.  The instance of
  `monitored` is one.

| Theorem | Statement |
|---|---|
| `CoordinatorProofs` | |
| `CoordinatorTypes` | `Spec => []TypeOK` |
| `StatusTruth` | `Spec => []StatusJustified` |
| `FinishedTruth` | `Spec => []FinishedMeansAllReported` |
| `LifecycleTruth` | `Spec => []LifecycleTruthful` |
| `LifecycleFullyBacked` | `Spec => [](LifecycleBacked /\ InVocabulary)` |
| `RowsAreAsShown` | `Spec => RowsMoveAsShown` |
| `CrashKeepsProofs` | `"throw" \notin Faults` implies `Spec => []SettledStepsProved` |
| `EraseGraphProofs`, `EraseGraphTruth` | |
| `SystemIsCoordinated` | `Spec => CoordinatorSpec` |
| `SystemTypes` | `Spec => []TypeOK` |
| `CompletionsAreErased` | `Spec => []CompletedMeansErased` |
| `SubjectIsToldTheTruth` | `Spec => []NotifiedTruthfully` |
| `SystemKeepsProofs` | `"throw" \notin Faults` implies `Spec => []SettledStepsProved` |
| `PromiseIsKept` | steady: `Spec => ErasurePromise` |
| `QuietMeansAgreed` | steady: `Spec => []QuietAgreement` |
| `OneReplicaCompletes` | steady: `Spec => []AllSucceededCompletes` |
| `AllAreDecided` | healthy: `Spec => []DecidedWhenQuiet` |
| `SlaMonitorProofs` | |
| `SlaTypes`, `FlagsAreAudited` | `Spec => []SlaTypeOK`, `Spec => []ViolationHasProof` |
| `ProofChainProofs` | |
| `ProofTypes` | `Spec => []ProofTypeOK` |
| `EveryLinkResolves`, `NoProofIsLost` | `Spec => []LinksResolve`, `Spec => []EveryResultProved` |
| `SingleReplicaVerifies` | `Spec => []ChainVerifies` |
| `ReportsStandAlone` | `AttestSpec => []ReportStandsAlone` |
| `CacheAdminProofs` | |
| `CacheTypes`, `SuccessIsTrue` | `AdminSpec => []CacheTypeOK`, `AdminSpec => []SucceededMeansErased` |
| `AdminTypes` | `IsFiniteSet(Requests)` implies `AdminSpec => []AdminTypeOK` |
| `BreakerNeedsCause` | `AdminSpec => []BreakerHasCause` |
| `DeadLettersAreKept` | `AdminSpec => []DeadLetterKept` |
| `FinalWordIsOne` | `AdminSpec => []CalmOneFinalWord` |
| `NoneIsForgotten` | `AdminSpec => []CalmNoneForgotten` |
| `OpenIsWitnessed` | `AdminSpec => []OpenShownWasOpen` |
| `PublisherProofs` | |
| `ReconnectIsPending` | `"unheard" \notin LinkFaults` implies `PublisherSpec => []ReconnectPending` |
| `ConsoleProofs` | |
| `PageIsTruthful` | `Spec => []StreamTruthful` |
| `ScreenIsConsistent` | `Spec => []ScreenConsistent` |
| `UploadsAreAccounted` | `Spec => []UploadAccounted` |
| `RestoreIsWhole` | `Spec => []RestoredWhole` |
| `ConsoleTypes` | `Spec => []ConsoleTypeOK` |

**The coordinator.**
*Types.*  `TypeOK` is not inductive alone: a handler writes the status of the
message it holds.  `Safe` adds that a busy consumer holds a published result of
the right kind (`HeldReported`) and that the queue holds published results
(`QueueReported`).
*Truth.*  `StatusJustified` is about what workers said, but the status is
computed from step rows, and from a copy of them read earlier.  The invariant
`IInv` therefore carries the justification along the path the data takes: a step
row is terminal only if its worker published the result it came from; so is each
entry of a replica's `snap`; a replica at `outcome` or `publish` holds a `snap`
that is all terminal, and one at `partial` a `snap` whose fast steps are.  All
of it is monotone in `reported`, which only grows, so analytics resetting its
row, the other replica's writes and redeliveries cannot break it.  That is why
the theorem needs no assumption on interleaving.
*Rows.*  `RowsAreAsShown` has no invariant of its own: `StepsMove` and `StatusMoves` say
what one step does to the step rows and to status and date, from `IInv`.  A step row is
terminal only if its service has reported its end, so rows settle only after the last
report; an outcome is written from a `snap` that is all terminal, so the same holds of
the date; the two other writes, PARTIAL_COMPLETED and the flag, date nothing.
*Proof events.*  `ProofInv` adds that a result whose row was written is in
`proofs`, held by a consumer, or in the queue (`Accounted`), and that a message
about to be acked is in `proofs`.  A crash moves a message from consumer to
queue; only `HandlerThrows` removes one, hence the assumption.

**The composed system.**  Every step is shown to be a step of `Coordinator` or to
leave its variables alone.  That needs to know whom the others work for, which is
`GraphInv`: a worker, a retry and a result on its way belong to a published
request (`Announced`), a scanner's row exists, the message the notification
service has stored is still in its queue.  `EraseGraphTruth` then instantiates
`CoordinatorProofs` and takes its theorems over; `ConstantsFit` discharges the
coordinator's assumption.  The only thing left for COMPLETED is that who reports
success has erased, and who is about to (`StoreTruth`).  What the subject is told
(`NotifiedBacked`) was the status of a lifecycle message, and for each of those
`LifecycleFullyBacked` says which words of which workers stand behind it: the
coordinator's own `LifecycleTruthful` is too weak, for it says of PARTIAL_COMPLETED
only that the fast steps ended.  *Types* are those of the five components at once
(`OwnTypes`): a busy worker or scanner holds a request, and what it acknowledges
or files is that one.

**The promise** (`PromiseIsKept`; steady).  That an outcome is decided once rests on
the order of the queue.  A worker without retries speaks once (`WorkersOnce`), and
the cache worker says nothing after a final word (`CacheOnce`, which is `WordOf` of
`CacheAdminProofs`, taken over by instantiating that module without its operator).
So no message follows a final one for the same row, in the queue or in the
handler's hands (`QueueInOrder`), and a row that is settled has no message left that
would move it (`RowsSettled`).  With one handler, what it read is still so when it
writes (`ReadsAreFresh`); hence an outcome agrees with rows that stay as they are
(`OutcomeStands`), and lifecycle messages say what the row says
(`AnnouncedAsDecided`).  With that each step of the system is shown to be a step of
`Erasure` or a stutter.

**Agreement** (`QuietMeansAgreed`, `OneReplicaCompletes`; steady).  `NothingLost` follows
a request from end to end: what a worker acknowledged it spoke of, or has a retry
waiting (`WorkersSpoke`, `CacheAnswers`); a final word is in the row, in the queue or
in a handler's hands (`FinalsArrive`); rows that are all settled agree with the
request, or a handler is about to look at them (`Concluded`); and a dated request has
its notification, a lifecycle message or a handler about to publish one
(`SubjectFollows`).  When nothing is on its way only the first of each list is left.

**Every request is dated** (`AllAreDecided`; healthy).  Nothing above survives two
replicas: reads are stale, and scanners overwrite outcomes.  But if nobody fails,
only successes are said (`OnlySuccesses`, for which the breaker must be closed and
nothing be retried: `StoresDo`), so a row that succeeded is never moved back.  The
handler that writes the last row of a request reads all of them afterwards, and
sees them settled, whoever else reads what: as long as a settled request has no
date, a handler is still to read its rows or about to write
(`Pending`, `Dated`), and the one status at which it would leave without writing,
COMPLETED, comes with the date.  A replica that dies returns its message to the
queue, which is pending again.

**The scanners.**  `LoopHolds`: a scanner inside its loop holds a request, and an
insert that was refused was refused because the row is there; so a flag whose row
is missing has a scanner on its way to write it.  `Spec` of `SlaMonitor` has no
kills: see section 3.

**The proof chain.**  `NewestExists`: of the rows older than any moment one is the
newest, so that what `appendEvent` and proof-service read before they insert is a
row, and stays one (`ReadsResolve`; rows are never removed, and `KeysUnique` is the
unique index).  `AckedStored`: a message about to be acknowledged has its row.
`SoleInv`: as long as all rows are one replica's, they are older than its open
transaction and each continues the one before it.  For the attestation, `Times`:
no two rows have the same `created_at`, so every reader has them in the same order;
and `LoadedResolves`: each row that was loaded continues one that was.

**The cache worker and its operator.**  `ErasedFirst` is the worker's position
against what it erased.  `BreakerOrder` is what the breaker's keys hold between two
of their writes.  `DeadLetterInv`: whatever is on its way is claimed
(`ClaimedFirst`), so a first try cannot follow a failure (`FirstTry`), and a failed
request has a copy somewhere (`Live`), has succeeded or was dropped.  `Witnessed` ties what the
circuit call has read to what was true since it began.  *Calm.*  `WordOf` counts the live
copies of a request: one at most, none before its first delivery and none
beside a final word, so there is no second word (`OneCopy`, `Waiting`, `Tried`).
`NotForgotten` is its counterpart: a delivery that is settled has a final word, a
retry or the worker's attention.  `AdminTypes` has to bound a cardinality, the count
a replay took, and so asks for finitely many requests.

**The console.**  `FollowInv` relates the two ends of a stream: the page is behind the row
the server sent last by exactly what is on the wire (`WireTrails`), and only the
created request's stream is open.  Nothing is asked of the steps a final status comes
with.  That the request is over rests on `ReadsAreBacked`: a read that ends the
stream, unanswered, sent or shown, was of a dated row, and a date is never taken back
(`MovesAreDated`), whatever else is written to the row; that this is so of the
coordinator's rows is `RowsAreAsShown`.
*Dashboard.*  `ListInv`: an answer on its way to the list matches the filter of now, and
the selected row is among the listed ones.  `PanelInv` follows the effect that loads
proof, verification, notification and attestation one after the other: what it has
shown by the phase it is in is the selected request's, and while the attestation's
loading flag is up neither an attestation nor an error is shown.  That the newest
request of a listing exists needs the greatest of a finite set of numbers, which is
proved from the well-foundedness of finite sets (`GreatestOf`).  *Upload.*  `Running`: the
rows done and the cells to go make up the file, and each row done has a request of
its own that was announced; a result is a running upload at its end.
*Demo users.*  `Restoring`: a restore that has been alone so far has made the stores
before its current one whole, and the current one up to its next user.
`ConsoleTypes` puts the invariants of the pages together.

**The publisher.**  That a field without an open connection has a timer, or the `connect()`
of one, is not inductive: the connection in the field may have no handlers, its own
`connect()` not being done or having listened to another.  `PublisherInv` adds that
somebody listens always: a timer is under way or some open connection has handlers
(`SomebodyListens`); and that the field, once filled, names an open connection as long as
there is one (`FieldHolds`, `ChannelsOfOpen`).  So what closes is a connection with
handlers, which start a timer; or all of them, when the broker stops, and one of those has
handlers or a timer is there already.  A `connect()` of a timer that ends well has
attached its handlers to the open connection in the field, and one that throws starts
the next timer.

**Assumptions on constants.**  The named ASSUME of each module, evaluated by TLC
in every run: values that stand for nothing (`NoMessage`, `NoRequest`, `None`)
are not among the things they stand beside, bounds are naturals, at least one
retry is allowed and a threshold is positive, the rows a console lists are finitely
many, and in `EraseGraph` the cache is a fast step and analytics is not.

**Only model-checked.**  Every safety property that a passing run checks is also
proved, `CoordinatorSpec`, `ErasurePromise` and `RowsMoveAsShown` included.  What is left to TLC is liveness, which the
provers cannot reach: `ReplayTerminates`, `CalmAnswered`, `LateIsNoticed`,
`AuditedAtLast`, `EveryRequestFinishes`, `EveryRequestDecided`, `StreamEnds`,
`ScreenSettles`, `Reconnects`.  For most of them a theorem states the safety half,
that what should happen cannot get lost on the way: `NoneIsForgotten` of
`CalmAnswered`, `FlagsAreAudited` of `AuditedAtLast`, `QuietMeansAgreed` of
`EveryRequestFinishes`, `AllAreDecided` of `EveryRequestDecided`,
`ReconnectIsPending` of `Reconnects`.

## 5. Plan

Order: the coordinator first, because every promise to the client passes through
it; then the services around it; then the composition; then the audit trail; then
the operator's tools and the console.

Done: every module of section 2 and every theorem of section 4.

What the proofs could still be extended to, in this order:

1. `AllAreDecided` for workers that die: the workers' redeliveries repeat successes
   only, but the cache worker's end as ignored duplicates, and analytics moves its
   row back, so the statement must except both.
2. A promise for two replicas, weaker than `Erasure`: an outcome may be replaced, but
   what the subject is told stays backed (which is `SubjectIsToldTheTruth`) and
   COMPLETED, once announced, was true.
3. More than one request at a time on the dashboard's panel: the attestation that a
   retry brings (section 3).

### Not modelled

- *Admin page, data discovery*: each fetches several things independently and shows
  them as they come; there is no state of theirs that could disagree beyond the
  moments of the reads.  What the admin page calls is in `CacheAdmin`.
- *Health, metrics, tracing*: read only.  *API gateway*: a stateless proxy.
- *Schema bootstrap*: statements run once, before anything else.  The one that
  matters afterwards, the unique index on `dedupe_key`, is part of `SlaMonitor` and
  `ProofChain`.
- *Listing of the demo users*: one read, shown as it comes.
- *Navigation*: a page that is left is gone with its state, and one that is entered
  is a fresh mount, which is where `Console` starts.
- *Signing*: a deterministic function of the report and a key.
