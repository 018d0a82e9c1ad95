# TLA+ models and proofs of delivery-backend

This directory holds the formal specification of the backend's core: how a
request for an order travels through the gateway and three services and what
its client is told, how the order becomes a row in the database, how its event
leaves through the outbox, Debezium and the topic, how the notification service
turns the event into stored notifications exactly once, and how a process of a
service is configured, starts, exports its telemetry and stops. TLC checks the
modules on small instances; TLAPS proves the safety properties for every
value of the constants.

## 1. The system

Five Go services and a shared platform library (`src/services`, `src/platform`).

| Component | State it keeps | Operations | Talks to |
|---|---|---|---|
| Gateway (`services/gateway`) | none | POST /api/v1/orders, binding, validation, translation to gRPC | order service |
| Order service (`services/order`) | tables `orders`, `order_items`, `outbox_events`; a pgx pool | `CreateOrder`: validate, `resolve`, `NewOrder`, `OrderCreated`, transaction | user, product (gRPC), Postgres |
| User, product services | tables `users`, `addresses`, `products` (read only here) | `GetUser`, `GetAddress`, `GetProducts` | Postgres |
| Debezium (external, `deploy/debezium`) | position in the outbox's log | publish each outbox row, keyed by order | Postgres, Redpanda |
| Redpanda (external) | partition logs, committed offsets, group membership | append, fetch, commit, rebalance | Debezium, consumers |
| Kafka consumer (`platform/kafka/kafkaconsumer`) | client position per partition, the batch, the rewinds | `Run`, `process`, `wait`, `Close` | Redpanda, handler |
| Notification handler (`services/notification/internal`) | tables `inbox_events`, `notifications` | `Router.Handle`, `Handler.route`, `CreateNotification`, `Claim`, `CreateForChannels` | Postgres |
| TxManager (`platform/postgres/tx.go`) | the open transaction in the context | `WithinTx`, `DB` | Postgres |
| Error mapping (`platform/apperr`, `pgerr`, `grpcerr`, interceptors, `response`) | none | map errors between Postgres, gRPC, HTTP | all services |
| Servers (`grpcserver`, `httpserver`, `debugserver`) | listener, connections, health status | `Serve`, graceful stop with a timeout, `Watch` | App |
| Service lifecycle (`app.go`, `main.go`, `closer`, `listener`) | resources opened so far | `New` with rollback, `Run`, `Close` | everything |
| Telemetry and logging (`platform/telemetry`, `platform/logger`) | a provider per signal, the rate limit of the error handler | `New` with rollback, `Handle`, `Shutdown` | collector |
| Configuration (`internal/config`, `telemetry/config.go`) | none | parse and validate the environment | `app.New` |
| Binding and middleware (`platform/http/bind`, `middleware`, `appctx`) | the error box of a request | bind, validate, `FakeAuth`, `Logger` | gateway |

What is hard here, and what must hold:

* **Consumer.** Batches span partitions; a record may fail in the middle;
  commits fail; partitions change hands while a batch is processed; members are
  evicted and go on unaware; the process dies anywhere. The group's offset must
  never pass a record that nobody handled, order within a partition must hold,
  offsets must not go back, every good record must be handled in the end, and a
  shutdown must end `Run`.
* **Handler.** Two instances may handle the same event at once, statements wait
  for each other's uncommitted rows, commits may take effect without being
  acknowledged. An event must be stored once, in both tables or in neither,
  before success is reported, and the waits must not deadlock.
* **Order creation.** Three lookups in parallel cancel each other; the pool is
  bounded; the commit may be lost or unacknowledged; amounts are int64. Order
  and event must be stored together, and the answer must be true.
* **The request path.** An error crosses up to three processes, and changes its
  form six times on the way. It races the cancellation it causes in the sibling
  calls, a client that leaves, broken connections and dying processes. A status
  must not say "refused" of an order that is stored, the blame must be on the
  right side, no text of a driver or of the transport may be shown, and a call
  nobody waits for must end although no call has a deadline.
* **Start and stop.** Any step of `app.New` may fail, many of them because of the
  environment; a listener may fail; the
  signal comes at any time, with requests, health watches and profiles in
  flight; a graceful stop may time out. The process must still exit, with
  everything released, the telemetry last, nothing closed under a handler that
  still runs, and an exit code that tells whether anybody was cut off.
* **Telemetry.** Three exporters share a collector that may hang. A failed `New`
  must be undone, a stuck signal must not hold the others up at the shutdown,
  and the rate limit of the error handler must hold for concurrent errors
  without losing count of any.
* **The whole chain.** An event is delivered at least once by Debezium and the
  topic and takes effect at most once; together: exactly one set of
  notifications per order, in the end.

`PROJECT.json` lists every component with its status, and under `hazards` the
places in the code where these things could go wrong, each with the properties
that would show it.

## 2. The modules

| Module | Models | Constants |
|---|---|---|
| `KafkaConsumer` | the loop of `kafkaconsumer.go` for all members of a group, with the coordinator and the partition logs | members, partitions, bounds on log and poll, poison records |
| `NotificationHandler` | `Router.Handle` to the last `INSERT`, `WithinTx`, one step per statement, for concurrent instances | instances, events, channels |
| `NotificationPipeline` | composition: outbox, Debezium, topic, `KafkaConsumer` and `NotificationHandler`, which it extends | those of both, partition of each order |
| `AtomicHandling` | abstract specification of a handler call: its notifications appear on all channels in one step | instances, events, channels |
| `EventDelivery` | abstract specification: accepted events are delivered at most once, and in the end | events |
| `OrderService` | `CreateOrder` for concurrent calls, with lookups, int64 amounts, pool, transaction | calls, requests, catalog, integer width, pool size |
| `ErrorMapping` | the forms of an error and the ways between them: `pgerr`, `apperr`, the `Error` interceptor, `grpcerr`, `response.Fail` | |
| `RequestPath` | composition: HTTP client, gateway, `OrderService` step by step, user and product services, with the errors of `ErrorMapping` | those of `OrderService`, what clients send, rows of users and addresses, failures of Postgres |
| `Configuration` | environment variables of every service and the step of `app.New` that each one stops | |
| `ServiceLifecycle` | a process of any of the five services from `app.New` to the exit, with its environment, its servers or consumer, and what is in flight | requests, health watches, profiles, environments |
| `Telemetry` | `telemetry.New` with its rollback, the error handler, `Shutdown` | interval of the handler, bounds of clock and errors |
| `*_proofs` | theorems about `KafkaConsumer`, `NotificationHandler`, `NotificationPipeline`, `OrderService`, `RequestPath`, `ServiceLifecycle`, `Telemetry` | |
| `SumTheorems` | what those proofs need of sums over finite sets | |
| `MC*` | values of the constants for TLC | |

### KafkaConsumer

`pc[m]` says where `Run` of member `m` is: in `PollRecords`, in `process`, in
`wait`, returned, or the process is down. `position` is the client's fetch
position, `from`/`next` delimit the part of the batch processed so far (so the
slice `processed` is `from .. next - 1` in every partition), `rewind` holds the
partitions whose record failed. `ProcessEnd` is the tail of `process` - one
`CommitRecords`, then `SetOffsets`, then `AllowRebalance` - in one step: a crash
between the calls loses the client and with it everything `SetOffsets` changed,
so it equals a crash after the step, and the coordinator cannot rebalance in
between because rebalances are still blocked; an eviction in between equals one
just after. `FetchError` is the branch of `Run` at lines 87-95.

The client library and the broker are external. What is assumed of them follows
from the options in `New`: no auto commit; a rebalance waits for
`AllowRebalance`; a new owner starts at the committed offset or at the start of
the log (`ConsumeResetOffset(AtStart)`); the default cooperative balancer lets a
member keep the position of a partition it retains; a commit is rejected for a
member the coordinator no longer counts; an evicted member finds out outside
`process`. A successful commit whose answer is lost is covered: the failure of
a commit is only reported, so the code cannot tell the two apart.

### NotificationHandler

`at[w]` follows a call: `begin`, `claim`, `create`, and then `ok` or `failed`
until the consumer takes the result. `newInbox` and `newNotes` are the rows its
transaction has inserted but not committed; `orphans` are the claims of sessions
whose client died or whose rollback did not arrive. `INSERT ... ON CONFLICT DO
NOTHING` waits while another open transaction holds the key, inserts nothing if
it is committed, and inserts otherwise. Messages are what their headers and
body amount to: an event, one that does not parse, an unknown type, a foreign
topic. Today the service passes the single channel `log`; the model allows any
non-empty set, as `CreateForChannels` does.

`AtomicHandling` is the same call seen from outside: it stores the notifications of its
event on all channels at once and succeeds; or it fails, having stored all (the commit
was not acknowledged) or none; or it dies and adds nothing. The refinement
(`HandledAtomically`) hides the claim, the single statements, the rows not yet
committed and the sessions left behind.

### NotificationPipeline and EventDelivery

The module extends both others: the members are the workers, `Poison` is empty
because the handler itself decides what it rejects (`CompositionAssumption`), and
`logEnd` is the length of the log that is kept here. The record at `next` is handed
to the handler (`CallHandler`), the transaction runs step by step while the
rest of the system moves on, and its result decides between `HandlerAccepts` and
`HandlerFails` (`HandlerReturns`). A death of the process is one for the loop and for
the call (`ProcessDies`). Debezium publishes in commit order, remembers a position after
publishing, and starts again from the remembered one. `EventDelivery` is what the
rest of the backend relies on. The refinement maps `accepted` to the events in
the outbox, `delivered` to those whose notifications are stored on every channel,
and `lost` to those polled beside a fetch error: that exception is explicit
because the code has it (section 6). The other refinement goes down: to the consumers
(`K`) the handler is a thing that accepts or fails and Debezium a log that grows, so the
pipeline implements the specification of `KafkaConsumer` (`ConsumersRefined`). There
`calm <- FALSE`, because `calm` of `KafkaConsumer` restrains a handler without poison, and
here the handler's own faults are restrained instead.

### OrderService

`stage[c]` follows a call through `resolve`, the transaction's statements and
its end; `lookup[c][d]` is the goroutine of dependency `d`, `failure[c]` the
first error the errgroup keeps, both forgotten when `resolve` returns; `tx[c]` the tables the open transaction has
inserted into; `rows[t]` the committed rows. `Commit`, `CommitUnacknowledged` and
`TxFails` are the three ways `tx.Commit` can go. Product ids carry their
spelling (`Canonical`), since `CreateOrder` looks the ids of the request up
among the canonical ids Postgres returns. `TotalAmount` wraps like int64.
Building the event (`OrderCreated`) cannot fail on strings that came through
protobuf, which are valid UTF-8, so its error path is left out; `uuid.NewV7` is
taken to be unique, so an order is named by its call.

`Validated` takes the verdict of the validation interceptor as a parameter:
`OrderSpec` alone leaves open whether the ids of the user and the address are
uuids, `RequestPath` knows.

### ErrorMapping and RequestPath

A text is abstracted to where it comes from: the public text of a code, one
given to an error by the program, or a private one of a driver or the
transport. An error is a record of what can reach the client or decide what
does (code, reason, message, cause, violated fields); `Plain` is a Go error that is no
`apperr.Error`. A status made by a server of the program carries its code in the
`ErrorInfo` (`info`), one made by the library has none (`Raw`).

`OrderService` names the class of error that a call ends with. `RequestPath` EXTENDS it,
takes its actions as they are and adds, in the same step, the record that the
program makes of the error: `held[c]` is the error `CreateOrder` will return,
`reply[c][d]` where the call of dependency `d` is: `Sent`, the answer that the service has
given and the order service has not yet taken, or `Read` (a lookup is answered and taken in two steps, so an answer may meet a
cancelled call), `response[c]` what the client is sent. `alarm[c]` says that a Logger
on the way wrote an ERROR line for the request, `fault[c]` that a database,
connection or process failed under it; the second is the yardstick for the
first. Who asks is `UserID`: the header, or the default of `FakeAuth`.

Things a reader may not expect, all modelled because the code does them:
`is.UUID` of the gateway is a library's and may or may not accept an id in upper
case (`OtherSpelling`); an id that passes is found by Postgres and then missed in a map
keyed by the canonical spelling, so the order is refused with NOT_FOUND. The
violated field of a request between services (`user_id`, `ids`) reaches the client as
it is. `FAKE_AUTH_USER_ID` is not checked to be a uuid; a user header that is none
becomes a 400 of the order service. An answer above the 4 MB of a gRPC client
(`MaxItems` here) makes a 429 of an order that is stored: `AnswerIsTrue` names the exception.

### Configuration and ServiceLifecycle

A variable is `good`, `off`, `unset`, `invalid` (refused by `env.Parse` or a `Validate`) or
`unusable` (accepted, and of no use to the step that needs it, like an address that
cannot be listened on or an endpoint without a scheme). `ConfigValid` is `config.New`,
`TelemetryValid` the check in `telemetry.New`, `UsedBy` the variable behind each later step. The
bounds of numbers follow the tests of the order service's configuration, which
expect a zero `PG_MAX_CONNS` to be refused.

`phase` follows `main`: `app.New` step by step (`built`), `App.Run`, `App.Close`
and the exit. The steps of `New` that can fail are a sequence per service
(`OrderNew`, ..., `NotificationNew`), and `Works` says whether the environment lets
one succeed; those that acquire something append it to `closer` and to
`open`, and a failure goes to the closer at once, as the deferred function does.
`server[s]` follows `Serve` of the service's server and of the debug server:
`serving`, `leaving` (gRPC only: health is down, the listener still open),
`draining`, `stopping` (gRPC only: after `Stop`, waiting for `done`), and
`returned`, or `abandoned` when `Serve` returned because its listener failed:
connections are then served until the process exits. The context of the
errgroup is `Cancelled`. Both sides of the `select` in `Serve` are open when the
listener has failed and the context is done.

Of a request the model keeps what the stop can affect: whether its handler waits
for another service (`call`, which ends only if that service answers, the
connection is closed, or `Stop` cancels it) or uses the pool (`tx`). A closed
pool gives out no connections, and `pgxpool.Close` waits for those in use,
whatever the context of `Close` says (`PoolDrains`). A `watch` has the update the
health service has queued for it and the statuses sent; its loop may see the
cancelled context before the update. Timeouts have no length: one passes only
when nothing is left that the process would end by itself, which for a timeout
of ten seconds is the case of interest. A call may always take longer, so the
timeout can pass whenever a handler is in flight. The notification service
has a consumer where the others have a server: its `Run` ends when the record in
work is done, without a timeout and without an error.

### Telemetry

`phase` follows `New`: the resource, the providers of the three signals with the
runtime metrics between them, the global registration; a failing step goes to
`rollback`, which is `Shutdown` of what has been made. `Shutdown` closes each provider in
a goroutine of its own; an exporter in `stuck` hangs until the deadline (`late`). The
error handler decides under its mutex (`Handle`) and writes the WARN after the
unlock (`Warn`), while further errors come in. The WARN is itself a log line that is
exported and may fail: the handler may cause its own errors, at most one WARN
per interval (`WarnsSpaced`).

## 3. What is checked

Passing runs (bounds in the `.cfg` and in the `MC` module):

| Run | Question | Instance |
|---|---|---|
| `handover` | Is a record ever skipped, reordered or committed back when a partition changes hands, is every record handled, and does `Run` end, with instances that come and go? | 2 members, 1 partition, 2 records, polls of 2, under fairness |
| `poison` | Do the records before a poison record and those of another partition get handled? | 1 member, 2 partitions, 2 records each, poison at offset 1 |
| `handler` | Do the tables agree, is an event stored once, does a call look like one step, do calls end without deadlock? | 3 instances, 2 events, 2 channels; deadlock is checked |
| `members` | Does a committed offset mean a stored notification with an evicted member still at work? | 2 members, 1 event published up to twice |
| `blocked` | Does anything pass an invalid message, does an event overtake another between outbox and notifications, and does the pipeline implement `EventDelivery`? | 1 member, 2 events, up to 3 messages |
| `delivery` | Is every order notified in the end? | 1 member, 1 event, 2 messages |
| `order_calls` | Are order and event stored together, and does every call end on a pool that holds one connection? | 2 calls, 2 kinds of request (the amount of one wraps and turns negative), pool of 1, `Half` = 8 |
| `request_path` | Is what the client is told true, is the blame right, is nothing internal shown, does an abandoned call end? | 1 call, 13 kinds of request, failures that map to UNAVAILABLE and DEADLINE_EXCEEDED, `MaxItems` = 1 |
| `lifecycle` | Does a process always exit, with everything released, nothing closed under a handler, a true exit code, and never run with a setting it cannot use? | the five services, every environment with one deviation; 2 requests, 1 watch, 1 profile |
| `telemetry` | Is a failed `New` undone, does a stuck signal hold up others, does the rate limit hold and count right? | 3 signals, interval 2, clock to 6, 5 errors |

Why the bounds are enough to be interesting: two records in a partition are the
fewest for a batch that stops in the middle; two members are the fewest for a
stale owner; three handler instances are the fewest for one that waits while
another's holder dies and a third takes over; two publications of one event are
the fewest for a duplicate that meets an unfinished first one; two requests let
one hold the stop while the other comes, ends or is refused. One request
is enough for `request_path`, since requests meet only in the pool and the tables,
which `order_calls` shows with two; its 13 requests are one without a flaw, one
without a header, and one for each thing that may be wrong, two products
included, which exceed `MaxItems`. An environment deviates in one variable, since
each is used by one step. Five errors over three intervals are enough for a
WARN with a count that is decided while another is still being written. `MaxOffset`
bounds the logs (guard of `Produce`, and `Room` in the pipeline, which keeps the
bound from stopping Debezium, for which `RoomAssumption` makes the log long enough for every
event); `Half` stands for 2^63. Where the theorems of
section 5 exist, the safety properties do not depend on any of these bounds.

`CHECK_DEADLOCK FALSE` is set where the instance may come to rest because its
bounded work is done (all records handled, all calls answered, process exited).

Every property has a mutant: a plausible bug in one definition (a missing
`SetOffsets`, a commit of what was fetched, a claim that does not wait, an event
saved outside the transaction, ...) that makes TLC report it. The mutants stand
beside the definitions they change, marked `Mutant`.

## 4. Fairness

* Steps of the consumer loop and of a handler call: weak fairness, the Go
  scheduler runs a goroutine that can run. `HandlerOk`/`HandlerError` together:
  a handler call returns.
* A claim and a connection of the pool: strong fairness, because Postgres queues
  the sessions that wait for a key and pgxpool serves waiters in turn.
* Polls per partition: strong fairness, the client does not leave a fetched
  partition out for ever. Rebalance: strong fairness, because a poll waits for
  a pending rebalance, so a looping member cannot keep it away.
* Environment: faults stop at some time (`calm`), instances are restarted, dead
  sessions time out, an evicted client is told, Debezium keeps going. Nothing is
  assumed about when.
* Order service alone (`order_calls`): the user and product services answer. The
  code has no deadline of its own for these calls, so without this assumption a
  call can hang for as long as its caller waits.
* Request path: the gateway and the order service run and notice that a context
  is done, and Postgres serves the order service. That a user or product service
  ever answers is *not* assumed: `AbandonedCallsEnd` shows that a call ends once its
  client has gone.
* A process of a service: what it does by itself (`Process`), taken together,
  weakly. Every behaviour of `ServiceLifecycle` is finite up to stuttering, so
  this says no more than that the process does not stop halfway. A transaction
  ends and a timeout passes; a called service need not answer and a client need
  not read.

Cancelling is not fair: a shutdown may or may not come, and `CancelEndsRun` says
what happens if it does.

## 5. What is proved

All theorems are about the specifications without fairness, for every set of
members, partitions, instances, events, channels, calls, requests, watches and profiles, every
bound, width, pool size, interval and environment; they use only the named
`ASSUME`s of the modules.

| Theorem | Statement |
|---|---|
| `KafkaConsumer_proofs!Invariance` | `Spec => []IndInv` |
| `... NoSilentSkip` | the committed offset passes only handled or discarded records |
| `... PartitionOrder` | records of a partition are handled in order |
| `... BatchOwnership` | a member of the group works only on partitions it owns |
| `... MonotoneCommits` | committed offsets never go back (action property) |
| `NotificationHandler_proofs!HandlerInvariance` | `HandlerSafetySpec => []HandlerInv` |
| `... InboxAgreement`, `Idempotence`, `DurableSuccess` | tables agree; stored once; success is durable |
| `... NoWaitPastClaim`, `NoDeadlock` | past the claim no statement waits; nobody waits for one that waits |
| `... AtomicCalls` | `HandlerSafetySpec => HandledAtomically`: the handler implements `AtomicHandling` |
| `NotificationPipeline_proofs!PipelineInvariance` | `PipelineSpec => []PipelineInv` |
| `... HandlerInPipeline` | `PipelineSpec => HandlerSafetySpec`: the theorems of the handler hold of the pipeline |
| `... CommitsAreNotified`, `NotifiedAtMostOnce` | committed means notified or discarded; one transaction per event |
| `... InvalidHolds` | nothing passes a message that does not parse |
| `... NotificationOrder` | from outbox to notifications, no event overtakes another of its partition |
| `... ConsumersInPipeline` | `PipelineSpec => ConsumersRefined`: the members in the pipeline implement `KafkaConsumer` |
| `... GroupInPipeline`, `CommitsInPipeline` | the guarantees of the consumer loop, of the pipeline |
| `... PipelineDelivers` | `PipelineSpec => DeliveryRefined`: the pipeline implements the safety of `EventDelivery` |
| `OrderService_proofs!OrderInvariance` | `OrderSpec => []OrderInv` |
| `... OutboxAtomicity`, `TruthfulAnswers` | order and event together; answers are true |
| `... CausalError`, `NoOrphanLookups` | no CANCELED to a waiting caller; no goroutine left behind |
| `... AmountsExact` | the stored amount is the true one whenever int64 holds it, and never negative |
| `... WrapsOnce` | wrapping at every operation, as `NewOrder` does, equals wrapping once, as the model does |
| `... OutboxAccepts` | `CreateOrder` implements the first part of `EventDelivery`: an event joins the outbox once, in one step |
| `RequestPath_proofs!PathInvariance` | `PathSpec => []PathInv` |
| `... TruthfulAnswer` | an order shown is stored as shown; a refused one never is |
| `... RightBlame`, `NothingLeaksOut` | status and log level blame the right side; no internal text is shown |
| `... ShownAmount` | the amount shown with a 201 is the true one whenever int64 holds it, and never negative |
| `... PathImplementsOrder` | `PathSpec => OrderSpec`: the theorems of the order service hold of the path |
| `... PathAccepts` | the whole path does to the outbox only what `EventDelivery` allows |
| `ServiceLifecycle_proofs!LifecycleInvariance` | `LifecycleSpec => []LifecycleInv` |
| `... ReleasedAtExit`, `TelemetryClosedLast` | every exit has released everything; the telemetry goes last |
| `... HandlersDoneAtClose` | no resource is closed under a handler, but in two named cases |
| `... OnlyConfiguredRun`, `ExitCodeTells` | a service that runs can use its settings; exit code 0 means a clean stop |
| `... ToldTheEnd`, `StopIsNotHeld` | a watch ends with one NOT_SERVING; watches and profiles do not use up the timeout |
| `Telemetry_proofs!TelemetryInvariance` | `TelemetrySpec => []TelemetryInv` |
| `... FailedNewUndone`, `StuckSignalHoldsNoOther` | a failed `New` leaves nothing; a stuck signal stays alone |
| `... WarnInterval` | any two WARNs are an interval apart |
| `... ErrorsAccounted` | every export error is told in a WARN, about to be told, or counted |
| `SumTheorems!SumChange` | a sum over a finite set changes as its one changed summand does |

*Consumer.* `CommitCovered` is not inductive: a commit takes its offsets from
`next`. The strengthening says of every member, evicted ones included, that
everything before its `next` is covered (`ReadCovered`), that outside `process`
it fetches on from `next` (`IdleAtNext`), and that the offsets are ordered
(`BatchBounds`). For `MonotoneCommits` members of the group own what they believe
they own (`AssignedOwned`) and work at or after the committed offset
(`CommitBehind`). Evicted members are the reason why `ReadCovered` speaks of all
members while the last two speak of `joined` ones: their view may be old, but
their commits are rejected.

*Handler.* `InboxMatchesNotifications` needs that past the claim a transaction
either holds the inbox row or the event is stored already (`PastClaim`), and that
a holder is alone and its event not stored yet (`HolderAlone`). That the batch
never waits follows: whoever else holds a notification of the event would hold
its inbox row too. `NoDeadlock` says it of the waits themselves: `WaitsFor(u, v)` holds when
the next statement of `u` needs a key that `v` has inserted and not committed. A wait needs a
holder past its claim and a waiter before its own, so no wait leads to another. For
`AtomicCalls` every step maps to a step of the abstract call or to none. A commit is the step
that stores, and there `PastClaim` is needed again: a transaction whose claim met a committed
row has no rows of its own, and must find its notifications stored already for `Succeed` to be
true of it.

*Pipeline.* `PipelineInv` takes over the invariants of the two parts, whose lemmas on
single steps carry over, and adds what ties them together. A member is in the handler
exactly while it is at the record it serves, and the call is about that record
(`ServesRecord`): a member in `process` takes no step of the loop and no rebalance touches
it, which is where `BlockRebalanceOnPoll` matters (`BusyStays`). Offsets stay below the end of
the log (`WithinLog`), so a message that is read is the one that was published, however the
log grows (`RecordStays`). What was accepted has had its effect (`HandledDone`, from
`SuccessMeansStored`, a part of `HandlerInv`), and order events reach the topic from the outbox alone
(`LogFromOutbox`), so that a delivery is always one of an accepted event.

*Order of notifications.* `HandledInOrder` speaks of offsets, and a log in which Debezium has
repeated itself is not in the order of the outbox: after `a b` may come `a b c`. What holds
is that nothing is ever published before all earlier rows of its partition have been
(`LogInOutboxOrder`), because Debezium never passes a row without publishing it
(`SentPublished`); and that a notified event has an occurrence before which everything is
done or was dropped (`NotifiedFromLog`). The two give
`NotifiedInOrder`, with the events that a failed poll lost as its one exception.
`ConsumersInPipeline` maps each step of the pipeline to one of `K` or to none; a step of
Debezium is a `Produce`, for which the log must have room (`EventsFit`, from
`RoomAssumption`: each row not yet sent has a place in every log).

*Order.* What the transaction has inserted is a function of its stage
(`TxMatchesStage`), and a call that has not ended has no rows and no answer
(`OpenIsNotStored`). `FirstErrorIsReal` is the invariant behind `CanceledOnlyIfGone`:
a lookup can be cancelled only after another error or by the caller, and only
the first error is kept.

*Amounts.* `OrdersBilled` keeps for every order that is built that its total is what int64 makes
of its request, and the CHECK of `orders` that a stored one is not negative. Wrapping the
identity where it fits (`WrapFits`) gives `AmountExactIfFits`, also for the amount the client is
shown. `TotalAmount` wraps once, after the sum, where the code wraps after each
multiplication and addition; `WrapsOnce` shows that they agree, for requests of any length. It
is an induction over the items, over division with remainder (`ModSame`, `WrapAdds`).

*Sums.* The library's induction theorems take a predicate as a parameter, which the provers cannot
instantiate. `SetInduction` of `SumTheorems` is the principle for a *set* of numbers, a
first-order statement, from the least elements that a well-founded order has. With it the
recursion of `SumFunctionOnSet` is followed along the size of the set: the recursion has a
solution (`SumExists`), its values are natural numbers (`SumType`), and when one summand
changes the sum changes by as much (`SumChange`).

*Request path.* `PathInv` has one part per call (`CallInv`). Every status under way and the
error `CreateOrder` holds is `Justified`: its code is one of six, INVALID_ARGUMENT and NOT_FOUND
come with a request at fault, a server error with a failure; and it is `Tellable`.
`HeldJustified` ties the record to the class of error that `OrderService` keeps, so that a
refusal in the record is a refusal there (`RefusedIsNotStored`). A CANCELED never reaches a
waiting client: it would need `gone`, which needs a gateway that waits no longer
(`OrderFollows`). `AnswerStays` is what makes the truth of an answer last: the call has ended,
or the gateway never sent it. A call that a step does not touch is dealt with once (`Frame`,
`OneMoves`); the conjuncts about the order service come from the lemmas of
`OrderService_proofs` through `PathRefinesOrder`.

*Lifecycle.* What is open is registered in the closer (`Registered`) and the
telemetry is the first entry and only there (`TelemetryFirst`), which needs that
nothing but `config` comes before it in any `New` (`Building`, `NewFacts`). The
servers have returned when the closer starts (`ServersDone`), and a handler in
flight means a server that has not returned, or one of the two exceptions
(`HandlersServed`). For the settings: every step of `New` that has been done found its
variables usable (`Configured`), and each variable a service uses has its step
(`EverySettingHasItsStep`). For the exit code `StopReasons` says why each server returned;
for the watches `StreamsServed` and `ToldOnce` say that a stream lives in a server that has
not returned and has had NOT_SERVING at most once, as its last status.

*Telemetry.* Once the deadline has passed only providers of stuck signals are not
closed (`ProvidersInv`), so a closed one has sent its data or was stuck; `last` is the
time of the latest WARN (`WarnsInv`), so the next is an interval after all of them. For `ErrorsAccounted`, `SumChange` says that a WARN
that joins the told ones moves its count, once, from one side of the equation to the other.

Only model-checked: the liveness properties (`HealthyRecordsHandled`,
`CancelEndsRun`, both `CallsEnd`, `AbandonedCallsEnd`, `EveryOrderNotified`, `StopEnds`), since
fairness and `ENABLED` are out of the prover's reach. Every safety property of a passing run
is the subject of a theorem.

## 6. Where the code disagrees with its documents

* **Records polled beside a fetch error are lost** (`fetch_error`,
  `OnlyHandledCommitted`). `PollRecords` can return the error of one partition
  together with records of another. `Run` (kafkaconsumer.go:87) reports the error
  and polls again; the records are dropped, the client's position is past them,
  and the next commit of the partition covers them. In the models they are the
  set `dropped`; every other property holds with this exception written out.
* **Amounts wrap** (`order_total`, `TotalIsSum`). `Subtotal` and `NewOrder` compute in
  int64 without a check; prices and quantities have no upper limit. A negative
  result is refused by a CHECK of `orders` (`RefuseOrder`), a positive one is
  stored and announced. That is the only harm: `AmountsExact` shows every stored
amount true whose true value an int64 holds.

Some things the models show that no document rules out. `shutdownTimeout` of
`main.go` bounds neither the graceful stop, which has a timeout of its own, nor
`pgxpool.Close`, which ignores the context. After a failed `Accept`, `Serve`
returns without a graceful stop, so the closer works under running handlers
(`NoHandlerAtClose` names the exception). A client that is told 429 may have an
order (`AnswerIsTrue`), and one whose connection broke, or that repeats its request
after a 500, 503 or 504, may get a second: the request has no key that would
tell (TODO.md:44), so no property is stated.

## 7. What is not modelled, and what is left

Not modelled: payloads and formatting of log lines, spans and metrics; the schema
beyond keys and checks; `uuid` collisions; the sender of notifications (the code
has none yet); Postgres, Redpanda, franz-go and Debezium beyond what section 2
says of them; generated code, mocks, the test kit and the swagger pages.

* *Panics.* A gRPC server has no interceptor that recovers one, the gateway has
  (`middleware/recover.go`); nothing modelled here panics, so neither is `Recover`.
* *`RequestID`, `Route`* change logs, spans and a header of the response. The id is
  not passed on over gRPC, so there is nothing to relate between services.
* *HTTP and debug server.* Routing, tracing and the header filter in front of a
  handler; the debug endpoints that answer at once and keep nothing.

Left for later: an instance in which `OrderService` and `NotificationPipeline` run together.
Today they meet in `EventDelivery`: `OutboxAccepts` shows that `CreateOrder` only ever does
what `OrderCommitted` does to the outbox, and `PipelineDelivers` starts from there.
