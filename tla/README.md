# Incident management system: TLA+ models and proofs

TLA+ modules of the back end of the incident management system (`src/backend/src`), TLC
configurations that model-check them on small instances, and theorems proved with TLAPS.
Paths below are relative to `src/backend/src` unless they begin with `src/`.

## 1. The system

One or more API processes (FastAPI on one asyncio event loop each) share Redis, PostgreSQL,
MongoDB and NATS. `src/compose.yaml` starts one process; the documents and the debouncer speak
of concurrent workers, and nothing in the code prevents several.

    POST /signals --> token bucket --> semaphore --> NATS --> SignalConsumer._handle
                                                                |  signal-link key (Redis)
                                                                v
    POST /incidents ------------------------------> IncidentPipeline.process
                                                                |  debounce key (Redis)
                                                                |  RcaPolicy.validate
                                                                v
    PATCH /incidents/{id}/state --> state machine --> incidents (PostgreSQL, UNIQUE hash)
    POST  /incidents/{id}/rca   --> RcaPolicy  ----->           |
                                                                v
                                   AlertRouter.dispatch   signals (MongoDB, linked by id)

The fact that decides every interleaving: handlers of one process switch only at an `await`.
psycopg2 and redis-py are synchronous, so a handler keeps its event loop while it talks to
PostgreSQL or Redis; it gives it up while it sends an alert, publishes to NATS, waits for the
semaphore or inserts into MongoDB. Another process may run at any time.

| component | state | operations | hard behaviour | what makes it correct |
|---|---|---|---|---|
| work item workflow (`app/routes/incidents.py`, `db/store.py`) | rows of `incidents` | create, transition, submit RCA | the check reads without a lock; alerts after the commit; lost acknowledgements; crashes | only legal moves, closing only with an RCA, a closed incident stays closed, a 200 means alerted |
| state machine, RCA guard (`workflow/`) | none | `transition_or_raise`, `validate_transition`, `can_close` | two codings of one table | both agree |
| RCA policy (`rca/policy.py`) | none | `validate` | headings count as text | stored RCAs pass it |
| alerting (`alerting/`) | none | `dispatch`, three channels | a channel raises half-way | every listed strategy is tried |
| incident pipeline (`pipeline.py`, `debounce/deduper.py`, `db/retry.py`) | debounce keys with expiry; UNIQUE hash | `process` | keys expire while calls run; key taken before validation; retries of committed writes | one work item per content; drops and errors only with a reason |
| signal consumer (`signals/`) | signal-link keys; signal documents | `_handle`, `insert` | every process gets every message; exceptions swallowed; retries duplicate | links and documents name work items that exist; no signal lost |
| signal admission (`app/routes/signals.py`, `ingestion/`) | tokens; permits and their waiters; gauge | `acquire`, `publish`, `release` | a timeout meets a release | rate bounded, permits conserved, no lost wake-up |
| database connection (`app/main.py`, `db/store.py`, `db/retry.py`) | connection and transaction of each process, row locks | connect, every store operation, commit, rollback, close | reads leave transactions open, a failed one aborted; no reconnection; locks between processes; `NOW()` is as old as the transaction | errors have a cause, no lock outlives its writer, every operation ends |
| start-up and shutdown (`app/main.py`) | what is open | `lifespan` | databases closed before the messages are drained | what a shutdown may lose |
| hot cache (`cache/hotcache.py`) | cached incidents, RCA counters | write-through, read-through with early expiration | stale entries, counters without expiry | not modelled: nothing reads it |
| health (`observability/health.py`) | none | four probes | the PostgreSQL probe is a statement like any other | part of the database connection |
| migrations, metrics, front end, deployment | the schema | - | - | of the schema, the empty table and its UNIQUE hash; the rest is not modelled: run by hand, or no decision depends on it |

The hazards of this code, each at its line with the properties that cover it, are listed in
`PROJECT.json`.

## 2. Modules

| module | models | lines of thought |
|---|---|---|
| `RcaPolicy` | `RcaPolicy.validate`, the merged description | a text is its stripped length and whether the placeholder pattern occurs in it |
| `StateMachine` | State classes, transition table, close guard | `Accepts` and `ValidTransition` are translated separately |
| `Lifecycle` | the abstract specification of a work item | no request, transaction or process |
| `Workflow` | the routes that write work items | one action per transaction and per awaited send |
| `Pipeline` | `IncidentPipeline.process` over Redis and PostgreSQL | one action per access; the clock and the keys' expiry are explicit |
| `Deduplication` | the abstract specification of `process` for those who call it | no keys, clock, retries or databases |
| `SignalConsumer` | `_handle`, NATS, MongoDB and `lifespan`, over `Pipeline` | extends `Pipeline` and composes its steps with the handler's |
| `PgConnection` | the connection of each process under `IncidentStore`, and row locks between processes | one action per statement whose outcome others can observe |
| `AtomicStore` | the abstract specification of `IncidentStore` for its callers | no connections, transactions, locks or attempts |
| `Admission` | `create_signal`: token bucket, `asyncio.Semaphore`, publication | a waiter whose permit has come is a state of its own |
| `MCWorkflow`, `MCSignalConsumer` | values of the constants for TLC | |
| `WorkflowProofs`, `PipelineProofs`, `DeduplicationProofs`, `ConsumerProofs`, `AdmissionProofs`, `SemaphoreProofs`, `ConnectionProofs`, `StoreProofs` | theorems and proofs | the consumer's build on those of `process`, the semaphore's on those of the bucket, the store's on those of the connection |

### Workflow

`rows` is the table, `req` the handlers of `PATCH /{id}/state`. `BeginTransition` is the read and
the check (`get_by_id`, `transition_or_raise`); its snapshot of the row is kept in the request.
`CommitTransition` is `IncidentStore.transition_state`, which locks the row and then writes the
target state whatever the row says. Both belong to one PostgreSQL transaction, but the read locks
nothing, and at READ COMMITTED, the default, the locking statement sees the rows as they are by then:
another process may commit in between. `WriteFails` and `AcknowledgementLost` are its two failures: rolled
back, or committed while the client sees an exception. `SendReturns`, `SendRaises` and
`DispatchReturns` are `AlertRouter.dispatch`. `Create` and `SubmitRca` are one action each,
since no await separates their accesses. `Crash` kills a process and its handlers. `LoopFree`
is the event loop: no handler of a process starts or resumes while another one of it is between
its read and its write.

### Pipeline

`Called` starts `process` with an incident whose time bucket is that of the clock, or that of a
`created_at` the body brings (`BodyBuckets`). `Check...` are `SET NX EX`: the key is live
(dropped), or taken, and the call goes on to the store or ends with a 422. `CheckFails` is a Redis
failure, before or after the command took effect; `CheckResent` is a lost reply after which the
client library sends the command again. `Store...` are `create` and `with_retry`: committed,
refused by the UNIQUE hash, failed, or committed and not acknowledged. After a lost acknowledgement the
connection is in fact gone, and the retries raise for that reason; here they may also meet the UNIQUE hash or
another fault, which is more than can happen and comes to the same answer (a 500, with the incident
stored). `PgConnection` has the connection. Contents stand for what
the hash is computed of, so a content has at most one work item.

`Deduplication` is what remains of this for a caller: somebody is let through with a content
(`Admit`), one of those gets it its work item and a 201 (`Create`) or does not learn of it
(`CreateUnnoticed`), and the others are refused (`Refuse`), as a duplicate or with a 422 only if
somebody was let through. `Pipeline` implements it with the stored contents as `items`, the contents
let through as `known` and the calls as `asks`.

### SignalConsumer

`Publish` delivers to every process, or, as a fault, to some. `Receive`, `LookFinds`, `LookMisses`,
`ProcessCreated`, `SetLink`, `ProcessRefused`, `ProcessRaised` and `RedisFails` are `_handle` up to
its insert; none of them lets another handler of the process run. `RedisFails` covers a `setex` that was
applied and whose reply is lost: the component is linked, and the signal is not inserted. `InsertReturns` and
`InsertFails` are `SignalStore.insert`, during which routes may run (`SubmitByRoute`). An
incident built by the consumer has the type of its component as its content. `Shutdown` is the end
of `lifespan`, which closes PostgreSQL and MongoDB and then drains NATS: what a process has been
delivered by then is handled without either (`PipelineStep` and `InsertRefused` of a `closing`
process), and `Restart` lets another process take its place.

### PgConnection

`conn` is the psycopg2 connection of a process as it sees it, `began` the time its transaction began,
`lock` the process whose transaction holds the row of an incident. `op` is the one operation the
process runs, with the attempt of `with_retry` it is at. `Select` is a read, `SelectForWrite` the read
of a PATCH or an RCA, both of which begin a transaction and leave it; `Write` is `FOR UPDATE` with the
`UPDATE`, or the `INSERT` of `create`, and waits for the holder of the row; `InsertConflicts` is the
UNIQUE hash, and waits for the same. `StatementFails`, `StatementRefused` and `ConnectionRefuses` are the three ways a
statement raises: PostgreSQL fails it, the transaction is aborted already, the connection is gone.
`Commit`, `CommitUnacknowledged` and `Rollback` end a transaction. `Start`, `Stop` and `Exit` are
`lifespan`; `ConnectionLost` and `Die` are faults.

Abstractions: PostgreSQL ends the session of a lost connection, or of a dead process, at once, and
with it the locks; the locks of an aborted transaction, which PostgreSQL frees when the statement fails, are kept
until the rollback that follows. `Select` also stands for `throughput_timeseries` and the health probe, which read
no row the properties speak of. A row is the time it was stamped with; what else is in it is the
business of `Workflow`.

`AtomicStore` is what is left of this for a caller: one step on the row (`TakesEffect`), which the caller learns
of (`Succeed`) or does not because its connection breaks (`SucceedUnnoticed`), an error, or an answer that
changes nothing. It is what `Workflow` takes the store for, whose `CommitTransition`, `AcknowledgementLost`
and `WriteFails` are these three outcomes. `PgConnection` implements it with its rows, and with the operations as `asks`;
`unsure` is an operation whose connection broke under it and which has not raised yet.

### Admission

`TokenAcquired` and `RateLimited` are `TokenBucket.acquire`. `PermitAcquired`, `PermitAwaited`,
`PermitReceived`, `TimesOutWaiting` and `TimesOutGranted` are `wait_for(semaphore.acquire())`;
the hand-over of permits (`Wakes`, `WakesAll`) is that of `asyncio.Semaphore` in Python 3.11 and
later. `PublishEnds` is the publication, its `finally` included. `Mark` starts the history count of
`RateBound` anew at any instant.

## 3. Runs

| run | instance | what it shows |
|---|---|---|
| `workflow_single` | 1 process, 2 requests, 1 incident, 2 severities, 4 kinds of text | `StoredRcaPassesPolicy`, `SnapshotIsFresh`, `LegalMoves`, `ImplementsLifecycle` |
| `workflow_two` | 2 processes, 2 requests, 1 incident | `OkMeansAlerted`, `IllegalOnlyIfStale`, `RequestsFinish` |
| `pipeline` | 2 processes, 1 content, window 3, clock to 5, 2 attempts, 1 fault | `OneClaimPerBucket`, `ErrorMeansRecurrence`, `StoredWasClaimed`, `ImplementsDeduplication`, `CallsReturn` |
| `consumer` | 1 process with routes, 2 signals of a component, link window 1, debounce window 2, clock to 3, 1 fault, shutdowns | `LinkRefersToItem`, `DocsReferToItem`, `LostOnlyByRecurrence`, `UnlinkedWasPassed`, `ImplementsDeduplication`, `DeliveredIsHandled` |
| `consumer_two` | 2 processes, no routes, otherwise the same | the four safety properties when every process handles every message |
| `admission` | 4 requests, 3 tokens of 2 units, 3 units per tick, 2 permits, clock to 1 | `RateBound`, `PermitsConserved`, `NoLostWakeup`, `RequestsAnswered` |
| `connection` | 2 processes, 1 incident, 2 attempts, clock to 2, 2 faults | `LocksAreHeldByWriters`, `ErrorHasCause`, `CreateEndsTransaction`, `StampsFollowCommits`, `ImplementsAtomicStore`, `OperationsEnd` |

Five more runs each refute one statement of the documents or the code; section 5 has them. The type
invariants are checked by `workflow_single`, `pipeline`, `consumer`, `admission` and `connection`.

**Bounds.** One incident is enough for the workflow: the rows are independent, and no property but
the types relates two. Two requests make the race; one request's
alerts have up to two strategies. The texts are one for each verdict of the policy: blank,
sound, with a placeholder, too long; two sound ones under the headings are too long together.
In `pipeline` the clock crosses one window boundary with keys of the first bucket still alive and
calls whose check comes after their bucket has ended; two attempts are a retry and its end.
`recurrence_refused` has one process, no fault and a clock that ends with the first window, so that
its counterexample is a call, the window, and the call again. `MaxTime`, `MaxFaults` and the number of signals are the bounds that the code does not
have. In `consumer` the link expires within the debounce window, as it does in the code (10 s and
30 s). `consumer_two` takes the two processes, and the two signals of the one component, for
interchangeable (`MCSymmetry`): its specification and its invariants do not tell them apart, and it
checks no liveness. In `connection` one row is enough, because operations on different rows do not
meet; two faults are what it takes to fail a create twice, or to lose an acknowledgement and then
the process; the clock lets a transaction be two ticks older than the row it writes. With two permits and
four requests, two publish while two wait, which is the least in which one waiter times out while another is being woken. One tick refills one and a half tokens, so
that the bucket holds fractions.

No run turns the deadlock check off: requests may always arrive, and in `consumer_two`, which has no
routes, a process may always be shut down and started again.

**Fairness.** `Workflow`: strong fairness of each handler, because other handlers of the process may
occupy the event loop again and again, but asyncio runs ready callbacks in the order they became
ready; database calls return or raise, and sends have timeouts. `Pipeline`: weak fairness of a call
of `process`, which nothing disables: every access returns or raises. `SignalConsumer`: the same
for the calls, strong fairness for the steps that wait for the loop. `Admission`: weak fairness of each
handler; a wait ends with its timeout at the latest. `PgConnection`: strong fairness of the operation of each
process, because another process may take and free the row it waits for again and again, but
PostgreSQL gives a lock to those that wait for it in turn. No fairness is assumed of clients, of the clock
or of faults.

## 4. Proofs

All theorems hold for every value of the constants that satisfies the named assumptions
(`PolicyAssumption`, `WorkflowAssumption`, `PipelineAssumption`, `IdleAssumption`,
`ConsumerAssumption`, `HandlerAssumption`, `AdmissionAssumption`, `ConnectionAssumption`). The
assumptions bound lengths and windows below by one where the code's settings do, and say that the sentinels `NoRow` and `Idle` are no rows, requests, calls or
operations.

*WorkflowProofs.* The inductive type invariant is `TypeOK` and that a request in phase `write` or
later has a row: the row a request writes must exist, or the write would make one.
`RcaAlwaysAccepted` follows row by row: the only actions that write texts validate them.
`WritesAreJustified` is inductive with it. For one process
(`Workers` a singleton) follows `SnapshotsAreFresh`, with the lemma `HandlersExclude`, which turns the assumption about the
event loop (`LoopFree`) into an invariant: whoever could change the row would have to be between
its own read and write at the same time. `MovesAreLegal` is then a consequence, because a write
is judged on the row itself, `ClosedStaysClosed` (which the run `workflow_race` refutes for two
processes) one of its consequences, and `ImplementsLife` maps each step to a step of `Lifecycle` or a
stutter: creation to `Enter`, the commit to `Move`, the RCA to `Attach`. Without the assumption of one
process what is left is `IllegalMovesAreStale`: every illegal move is the write of a stale
snapshot. `OkIsAlerted` needs the strengthening that what was attempted and what is left are
together what is registered. `AcceptsMatchesTable` says that both codings of the life cycle
agree, and `MergedNeverTooShort` that the description the RCA route builds is never too short,
so blank fix and prevention texts pass.

*PipelineProofs.* `AtMostOneClaim` needs the key: once a content was let through inside a bucket, its key
lives to the end of that bucket, for every window and any number of processes; the
division of the clock by the window is reduced to two lemmas. `StoredIsClaimed` and
`ErrorsAreRecurrences` rest on lemmas that describe every step by its effect on one call
(`ClaimChange`, `CallChange`, `CalledStarts`): the proofs use the effects and not the actions, so
that the consumer, whose steps have the same effects, uses the proofs. `ErrorsAreRecurrences` has the
pairwise invariant `FaultFreeInv`: without faults, two calls that are about to store the same content, or one that is about to store what is stored, were
let through separately; with `AtMostOneClaim` that means in two time buckets, or outside the bucket of
the key.

*DeduplicationProofs.* `ImplementsDedup` maps each step of `process` to a step of `Deduplication` or a
stutter: the check to `Admit` or `Refuse`, the store to `Create`, `CreateUnnoticed`, `Refuse` or nothing.
It needs, besides `CallInv` of the module before, that a debounce key which was ever set was taken for
its content (`KeysArePassed`), or a drop would not be justified, and that a call has no result before
it is done (`ResultInv`).

*ConsumerProofs.* The steps of the consumer contain those of `process`, and others that start, forget
or kill its calls; all have the effects that the invariants of `Pipeline` are proved from. What the consumer
records is one invariant (`RecordInv`), because its parts need each other: a handler has its work item from
the link or from the call that made it, the link and the document have theirs from the handler, and a
handler that goes on without one saw its call refused, for which somebody was let through. `LinksAreTrue`,
`DocumentsAreTrue`, `UnlinkedAreKnown` and `ConsumerTypeCorrect` are its consequences, whatever fails.
`LossesAreKnown` needs `LossInv`: a process gets a signal once, and is waiting for it, about it or done
with it (`OnceInv`); without faults a signal has no more documents than processes that are done with it,
and fewer only if it is late or its type was let through twice (`CountInv`). A process ends without a
document only if it was shutting down (`LateInv`, `DrainInv`) or if `process` raised with the database
open, which without faults takes a second claim (`RecurInv`, from `FaultFreeInv`); `ConsumerClaimsOnce` makes that
second claim one in another bucket or after its own. `ConsumerDeduplicates` is the refinement of
`Deduplication` once more: a call that ends with its handler is a `Leave`, one that the closed connection refuses a
`Refuse` or, while it has attempts left, a stutter.

*AdmissionProofs.* `RateIsBounded`: what was taken since the mark and what the bucket would hold now are
together paid for by a full bucket and the refill since; the bound alone is not inductive.

*SemaphoreProofs.* Conservation alone is not inductive: that k waiters are given k permits needs that the
line holds those that wait, and each of them once (`LineInv`), and that the permits can be counted (`PermitInv`).
The lemmas are about such a line: what its first k are and how many (`FirstCount`), and what is left of it
when they leave, when somebody joins, and when a waiter that times out leaves from anywhere
(`RestOfLine`, `JoinsLine`, `LeavesLine`). Every hand-over, by a release, a timeout or a waiter that has been woken,
is then an instance of one lemma (`HandsOn`). `PermitsAreConserved`, `WakeupsAreNotLost` and
`AdmissionTypeCorrect` hold for any number of permits and any set of requests.

*ConnectionProofs.* The invariant is local: `OperationInv` relates the operation of one process to the
connection of the same process, for example that a second attempt of a create never begins on an
aborted transaction, because the first has rolled back. A step of another process can only add
rows (`OthersInv`), a step of the process itself is checked action by action (`OwnInv`), and what
`with_retry` makes of an exception is one lemma (`RaisedEffect`, `RaisedInv`). `ErrorsHaveCauses`
and `CreatesEndTransactions` follow from it; the first needs two attempts at least, which
`ConnectionAssumption` says and the code has (3). `LocksHeldByWriters` adds the table of locks, for
any number of processes: a step leaves a row with its holder, frees it, or gives the stepping process
a free one (`LockChanges`). `StampsInOrder` needs `CommitsInOrder`: a transaction that is open began
no earlier than the last commit of its process.

*StoreProofs.* `ImplementsStore` is why `Workflow` may take each operation of the store for one action. The
commit is the step on the row; that the row is then still absent for a create, and present for an
update, is `WritesInv`: a write in progress holds the lock of its row, nobody commits a row that another
process has locked, and rows never vanish. All other statements answer the caller or are stutters: in particular no
attempt of a create writes after one whose acknowledgement was lost, because that attempt's connection is gone.

Only model-checked: the liveness properties (`RequestsFinish`, `CallsReturn`, `DeliveredIsHandled`,
`RequestsAnswered`, `OperationsEnd`), because neither fairness nor `ENABLED` is within the prover's reach. Every
safety property of a passing run is proved, type invariants and refinements included.

## 5. Where code and documents differ

| run | property | the code | the statement |
|---|---|---|---|
| `workflow_race` | `ClosedIsTerminal` | the transition is checked on a row that was read without a lock; the lock of the write protects no check. With two processes a closed incident is moved back to INVESTIGATING | `src/PHASES.md:76` row locking for safe concurrent state updates |
| `recurrence_refused` | `AcceptedAsNew` | the debounce key expires and the UNIQUE hash does not: an incident that comes again after its window is let through and ends in a 500. The test runs with an `InMemoryStore`, which has no UNIQUE hash | `src/backend/tests/test_pipeline.py:87` the second call "accepted as new", with a 201 |
| `dropped_unprocessed` | `DroppedWasProcessed` | the debounce key is taken before validation and kept after a 422 or a failure | `debounce/deduper.py:48` |
| `signal_lost` | `EverySignalStored` | the debounce key has a time bucket and the UNIQUE hash has none: a recurrence raises, and the handler swallows it: the signal is not stored | `src/context.md:48` |
| `self_heals` | `SelfHeals` | the connection is opened once; retries cover `create` alone and repeat on the same connection; a failed read leaves its transaction aborted | `src/README.md:83` |

The first needs two processes; with one, `LegalMoves` holds and is proved. `recurrence_refused` and
`signal_lost` have one cause and two victims, the client of `POST /incidents` and the audit log of signals.
`ImplementsDeduplication`, which passes in `pipeline` and in `consumer`, says what the code does instead of what
that test asserts: a content is announced by one 201, however many windows it comes in.

Observations without a run:

- A closed incident may lack a complete RCA, contrary to `src/context.md:93` and `src/plan.md:27`: `POST
  /incidents` stores the state of its body, CLOSED without a verifier included
  (`app/routes/incidents.py:52`), and `submit_rca` replaces the verifier of a closed incident by none
  (`app/routes/incidents.py:136`). One request shows either; `Enter` and `Attach` of `Lifecycle` allow them.
  No transition does it: `LegalMoves`.
- `InMemorySignalStore` keeps every accepted signal (`app/routes/signals.py:37`), contrary to
  `src/README.md:72`.
- A debounce key outlives its bucket by no margin, so an incident built at the end of a bucket whose
  check is delayed past it can be let through a second time (it then fails at the UNIQUE hash).
- No strategy is registered for P3 (`app/dependencies.py:81`), although `alerting/router.py:18`
  lists one in a table that no code reads.
- A signal refused by the debouncer (a second component of the same type, or the same component
  after its link has expired and before the key has) is stored without a work item, although
  `src/context.md:40` says that all signals are linked. `UnlinkedWasPassed` says when.
- The shutdown closes PostgreSQL and MongoDB before it drains the messages that need them
  (`app/main.py:93`): a signal delivered and not yet handled by then is lost, without a fault.
- `created_at` and `updated_at` are the time the connection's transaction began, which may be that of
  a read long before the request: `StampsFollowCommits` is what is left of their order, and between
  processes there is none.
- The stand-ins for Redis and MongoDB answer `ping`, so `/health` reports well what is not there.

## 6. Not modelled

- The hot cache. `process` writes it and swallows its errors; no route, and no other code of the
  application, reads it, so there is no behaviour a property could be about.
- Metrics, MTTR and the wording of messages. The reads (`list`, `get`, throughput) are modelled for
  what they do to the transaction, not for what they return.
- Bodies of `POST /incidents` that bring an `id` which exists already, or values PostgreSQL
  refuses for their length: both end like `StoreConflicts`, in a 500 after the retries. The same holds for a signal
  whose `component_type` has more than 128 characters (`incident_pipeline/db/migrate.sql:39`): the `INSERT` of its
  incident fails every time, and the consumer loses the signal without a fault or a recurrence.
  `LostOnlyByRecurrence` and `ErrorMeansRecurrence` are about the values the table takes.
- `AsyncIncidentWorker`, `InMemoryStore`, `TokenBucket.release`, `insert_many`: no code path of the
  application calls them.
- Mixed configurations in which Redis, NATS or MongoDB were absent at start-up.
- What a receiver of alerts displays, and in which order alerts of one incident reach it.
- The migration script, front end, deployment, monitoring and scripts: run by hand, clients, configuration.

## 7. Plan

Done: every module of section 2, each with proofs of all the safety properties its runs check, and the
refinements of `Lifecycle` by `Workflow`, of `Deduplication` by `Pipeline` and by `SignalConsumer`, and of
`AtomicStore` by `PgConnection`.

Left:

1. An abstract specification of the admission for its clients (a rate, and a number of publications at a
   time) and the refinement, on top of `PermitsAreConserved`.
2. The rows of `Workflow` as rows of `AtomicStore`, so that the two refinements meet in one specification of the
   store.
