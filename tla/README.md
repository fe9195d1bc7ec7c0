# A TLA+ model of investment-engine

Formal models of the order execution service in this repository: a REST API
that stores orders and announces them, a RabbitMQ topology with retries and
dead-lettering, consumers that execute each order once, and the two PostgreSQL
tables between them. TLC checks the models on small instances; TLAPS proves
the safety properties and the four refinements for every instance.

## The system

| Component | State it keeps | Operations | Module |
|---|---|---|---|
| Tables `orders`, `executions` (`schema.sql`) | status of each order, its executions rows | insert, claim | `OrderLedger` |
| `PostgresOrderStore` writes (`internal/order/store.go`) | transactions, row locks, uncommitted writes, the caller's position | `Create`, `ExecuteOrder` statement by statement | `OrderStore` |
| Declarations (`topology.go`, `internal/rabbitmq/connection.go`) | exchanges, queues with their arguments, bindings, progress of each set-up, what is stored | declare, bind, consume, settle, copy, delete, restart | `ExecutionTopology` |
| RabbitMQ as the consumer uses it (`internal/execution/topology.go`) | `order_execution`, its retry and dead letter queues, sessions, unsettled deliveries, frames in flight | declare, route, deliver, ack, reject, requeue, publish, TTL, end of session | `ExecutionBroker` |
| Consumer and its handler (`internal/execution`, `cmd/consumer`) | place in the loop, buffered delivery, delivery in hand, connection, shutdown signal | every branch of `Run`, `processOrderCreated`, `classifyFailure`; start, signal, crash, lost connection | `ExecutionConsumer` |
| API (`internal/order/handler.go`, `cmd/api`) | process state, connection, progress of each request, published events | `CreateOrder`; start, drain, crash, lost connection | `OrderApi` |
| Publisher (`internal/order/events.go`) | a channel per publish, returned events, the goroutine that watches for them | `PublishOrderCreated`, `awaitReturn` | `OrderPublisher` |
| All of the above, composed (`compose.yaml`) | the phase of each order | any start order | `OrderPipeline`, abstractly `OrderLifecycle` |
| Price service (`internal/priceservice`, `cmd/priceservice`) | none | `GetQuote` | in `ExecutionConsumer`, `OrderContract` |
| `GET /orders` (`handler.go`, `store.go`, `internal/pagination`) | the client's cursor | pages under concurrent inserts and executions | `OrderListing` |
| Data of an order (`handler.go`, `schema.sql`, `events.go`, `internal/priceservice`) | request, row, event, execution | validate, normalise, store, announce, judge again | `OrderContract` |

How they interact. A request inserts a PENDING row and then publishes an event,
with no transaction around the two. The exchange routes the event to
`order_execution` if a consumer has bound that queue. A consumer takes one
delivery at a time (prefetch 1), asks the price service over gRPC, and calls
`ExecuteOrder`, which moves the order to EXECUTED and inserts the executions
row in one transaction. A transient failure is copied to the retry queue with a
counter in a header, without a publisher confirm, and comes back by TTL; a permanent one, or the third, is
rejected and dead-lettered. The processes share nothing but the database and
the broker.

What is hard about it, and hard to test: two writes without a transaction; a
commit whose outcome the caller does not learn; a crash between the retry copy
and the ack; deliveries that outlive their connection; shutdown signals at any
point; several consumers on one queue; queues that do not exist yet, were
deleted or have the arguments of an older version; goroutines that outlive
their request; a cursor over rows that become visible late. `PROJECT.json` lists these hazards at the
line where each one bites, with the properties that would notice.

What makes each component correct:

- *Store*: an order is EXECUTED exactly when it has one executions row; one
  call wins; answers are true.
- *Consumer and broker*: a routed event is executed or kept; each delivery is
  settled once; retries are bounded; an event ends, executed or dead-lettered.
- *API*: the row and its event come apart only through a fault; requests and
  drains end; a process without its connection does not stay up.
- *Publisher*: it does what the API expects of a publish; channels are given
  back; what it logs is true.
- *Topology*: the dead letter destination is there before the queue that needs
  it; an event is dropped only after a deletion and lost only before it was
  stored; the set-up completes.
- *Pipeline*: an accepted order always has its event somewhere until it ends,
  and it ends.
- *Listing*: pages neither repeat nor skip rows.
- *Contract*: what one place accepts, the next one accepts.

## The modules

```
OrderIds
 |- OrderLedger             abstract: the committed tables
 |   `- OrderStore          implements OrderLedger      -> OrderStoreProofs
 |- ExecutionBroker         queues and sessions
 |   |- ExecutionConsumer   (with OrderLedger)          -> ExecutionConsumerProofs
 |   |- OrderApi            (with OrderLedger)          -> OrderApiProofs
 |   |   `- OrderPublisher  implements OrderApi         -> OrderPublisherProofs
 |   `- OrderPipeline       consumer and API; implements
 |                          OrderLifecycle and
 |                          ExecutionConsumer           -> OrderPipelineProofs
 `- ExecutionTopology       what ExecutionBroker takes
                            as one step                 -> ExecutionTopologyProofs
OrderLifecycle              abstract: the phases of an order
OrderListing                on its own                  -> OrderListingProofs
OrderContract               on its own                  -> OrderContractProofs
```

The `MC*` modules instantiate these for TLC. Operators named `Mut...`, each
next to the definition it replaces, are faulty variants of the code that show
that a property can fail; no specification uses them.

**OrderLedger** is what the rest of the system may assume of the database: an
order is ABSENT, PENDING or EXECUTED, and changes by two atomic steps.
CANCELLED and REJECTED are allowed by the schema and written by no code.

**OrderStore** runs `ExecuteOrder` statement by statement in several sessions.
The caller's view (`pc`, `reply`) and the server's view (`txn`, `staged`,
`lock`) are separate, because a caller can time out, lose its connection or die
while the server still holds its transaction, and because a COMMIT may succeed
unheard. Isolation is Read Committed, which `BeginTx(ctx, nil)` selects: the
UPDATE waits for the row lock and judges the newest committed row. `OrderStore`
implements `OrderLedger` with the identity mapping on `status` and
`executions`.

**ExecutionBroker** holds queues as sets of messages: redelivery, requeue and
several consumers leave no order that the code could rely on. A message has an
identity (an artefact, to tell copies apart), its order, what its body turns
out to be (valid, malformed, of an unknown symbol) and its `x-retry-count`. What a client sends stays in `wire` until the broker handles
it, in order; a session that ends drops its wire and returns what was not
settled. Rejecting dead-letters, an expired retry copy returns to the work
queue, as `SetupTopology` configures.

**ExecutionConsumer** has one action per branch of the loop of `Run`. The call
of `ExecuteOrder` is one step, `ClaimOrder` of the ledger, unless its caller does
not learn the outcome: a call that fails after it sent COMMIT
(`ClaimsUnheard`), or whose process dies (`Crash`), leaves its transaction in
`unheard`. The row stays locked (`Locked`), and the server commits or rolls back
at any later time (`LateOutcome`), perhaps after the retry of the event was
copied, dead-lettered or given to another process. Dependencies may fail at every
call, without limit: a price lookup ends with one of the gRPC codes of
`QuoteCodes`, and `ClassifyFailure` decides as the code does. Faults (crash,
lost connection, unheard commit, failed publish) and shutdown signals are
counted and bounded. A publish that is given the canceled shutdown context may
or may not fail: that depends on the AMQP library, so both are allowed.

**OrderApi** has one request per order, all concurrent. Validation is not in
it, since a refused request changes nothing (`OrderContract` has it).

A publish is one step that succeeds or fails.

**OrderPublisher** takes that step apart: it opens a channel (`ChannelMax` of
them at most), publishes, and leaves `awaitReturn` behind, which waits for a
returned event, for its timer, or is woken by the close of the connection. It
implements `OrderApi` with the identity mapping, except that a publish that is
refused a channel counts as one more fault there. `reported` records what is
logged as not routed.

**OrderPipeline** conjoins the steps of the two processes over the shared
broker and ledger; consumers and API start in any order. **OrderLifecycle** is
what it promises: an order is accepted, then executed or parked; it is stranded
only if it was exposed to a fault of the API or a missing queue
(`LifecycleSafety`, refined by `ImplementsLifecycle`); and it does
not stay accepted (`Settles`, refined by `AcceptedSettles`). The mapping computes the phase of an order from its row, its
request, the wires and the queues (`Phase`).

`ExecutionConsumer` on its own assumes a publisher that announces an order once
at most and only when its row is there. `ImplementsConsumption` says that the
pipeline is an implementation of it, that is, that the API is such a publisher
whatever fails: the mapping `RowsAhead` takes every row as being there from the
start, since no consumer can tell, and with it the steps of the API are
announcements or stutters. `ParkedForCause` is what dead letters then mean: of
the causes `DeadLetterJustified` allows, a malformed event and a missing row do
not occur.

**ExecutionTopology** goes through `SetupTopology` and `Consume` call by call.
The broker accepts a call, or closes the channel (PRECONDITION_FAILED for a
queue with other arguments, NOT_FOUND for a missing one) and the process exits.
An operator may delete queues, as `topology.go:53` tells him to; the broker may
restart with what is durable. The messages of an order are the event of the
API and its retry copies. A message moves between the API, the wire, the
queues and the consumers, and `dropped`, `lost`, `returned` and `deleted` tell
the ways apart in which it can be gone. A retry is two steps of the broker, the
copy (`CopiesForRetry`) and the ack of the original (`AcksCopied`), and the
connection or the broker may fail in between; a copy that is not published is
a `Reject(true)` (`RequeuesUncopied`). A queue writes a message some time after
it has taken it (`Store`), perhaps after the consumer has acked what the message
is a copy of: nobody waits for a confirm. What is not `stored` does not survive
a restart of the broker. RabbitMQ's own moves, a reject to the dead letter queue
and an expired copy to the work queue, keep what was stored.

**OrderListing** is one client that follows `nextCursor` with a filter and a
limit. `created_at` is fixed when the INSERT begins and the row is visible when
it commits, so rows may appear behind the cursor; timestamps may be equal.
The equality conditions on constant columns (user, side, type, symbol) are one
set of excluded orders.

**OrderContract** takes one request of every shape through the checks of
`CreateOrder`, the constraints of the table, `Validate` and the price service.
A text is a word with a case and padding, a price is absent, positive or
neither.

## The runs

| Run | Question | Bounds |
|---|---|---|
| `store` | Concurrent `ExecuteOrder`: `ExecutedOnce`, `ReplySound`, `OneWinner`, `ImplementsLedger`, `LockReleased`, `CallReturns` | 3 sessions (a winner, one waiting for its lock, one late), 2 orders and one that never gets a row; no bound on timeouts, aborts or calls |
| `consumer` | Safety of the consumer under crashes, lost connections and signals | 2 consumers, 1 order of a known or an unknown symbol, 3 attempts, 2 faults, 1 signal |
| `consumer_live` | Does every event end, whatever it is, and every shutdown? `EventResolved`, `ShutdownCompletes`, `InvalidEventNotRetried` | 2 consumers, 1 order with or without a row, its event of any kind, 2 attempts, 1 fault, 2 signals |
| `dup_dead_lettered` | ADR-009: do duplicates never reach the DLQ? (violated) | 1 consumer, 1 fault, a database that answers every call |
| `publisher` | Safety and liveness of the API and its publisher, `ImplementsApi` | 2 requests that share 1 channel, 2 faults, 1 signal |
| `false_report` | Is an event logged as not routed never a routed one? (violated) | 1 request, 1 signal, no fault |
| `topology` | `TopologyReady`, `EventsKept`, `RoutedOnceBound`, `SetupCompletes` | 2 consumers, 1 event and 1 retry copy, a new broker or one with an older queue, 2 deletions, 2 crashes |
| `pipeline` | Both processes together: `ImplementsLifecycle`, `ImplementsConsumption`, `AcceptedSettles`, `AcceptedAccounted`, `HandledAfterRow`, `ParkedForCause` | 2 orders, one of an unknown symbol, 1 consumer, 1 fault and 1 signal of the API, 1 fault of the consumer |
| `start_order` | ADR-006: does the start order not matter? (violated) | no fault |
| `listing` | `PagesDescend`, `NothingSkipped`, `CursorLeadsOn` | 4 orders (one excluded), 2 timestamps, pages of 1 and 2 rows |
| `contract` | Do the four places that judge an order agree? | every request over two tickers, another word and a blank; quantities 0, 1, the largest INTEGER and one more |
| `documented_answers` | `openapi.yaml`: is 500 never an answer? (violated) | as above |

Why the bounds are enough. Orders do not interact in the consumer or the store
except through a consumer's single slot, so one order with two consumers shows
the races for an order, and two or three orders show the rest. Two faults give
a fault while the system recovers from the first. `MessageIds` is large enough
that an identity is always left: `Room`, the guard that names this bound, is an
invariant of these instances. `Attempt` has the three attempts of the code
where the number matters. One channel for two requests makes the second find
none while the watcher of the first still waits. Two deletions let a queue go
while the set-up after the first deletion is under way. One retry copy is enough for
the broker to have either, both or none of it and its original; `NoEventDropped` is
proved for any number. Consumers are symmetric
and only the safety run `consumer` uses that symmetry.

Deadlock checking is on in every run: the specifications name the states in
which the system may rest (`Waiting`, `ApiIdle`, `PipelineIdle`) and any other
state without a step is an error.

### Fairness

A process that runs takes its next step; a delivery has an 8 s deadline, so a
handler always returns. A stopped process is started again
(`restart: on-failure` of `compose.yaml`, or a deploy; that Railway gives up after ten
restarts, `README.md:165`, is not considered). The broker handles the frames it receives,
delivers to a free consumer, notices dead connections (heartbeats) and expires
TTLs. The timer of `awaitReturn` goes off. In `topology` only the consumers are
fair: neither the API nor the operator has to do anything. In the store, the deferred Rollback or the loss of the connection ends a
transaction nobody drives. All of it is weak fairness. Nothing is assumed of
the dependencies (they may fail for ever), of clients sending requests, and no
fault has to happen.

## Findings

- **A duplicate can be dead-lettered** (`dup_dead_lettered`). `processOrderCreated`
  asks for the price before `ExecuteOrder` recognises a duplicate
  (`internal/execution/handler.go:62`). A consumer executes an order at the
  third attempt and loses its connection before the ack; the redelivery fails
  once at the price service and is dead-lettered, although its order is EXECUTED.
  (After an execution at the first attempt it takes three failures, one per
  attempt that is left.) The run takes a database that answers every call and
  leaves no COMMIT under way (`HealthyDatabaseSpec`), so that the price lookup is
  the only cause. `DECISIONS.md:373` says duplicates never reach the DLQ. No money
  moves twice (`ExecutedOnce`); the DLQ then holds a message that needs no human.
- **The start order matters once** (`start_order`). The API declares the exchange
  only (`cmd/api/main.go:98`) and the consumer declares and binds the queue
  (`topology.go:96`). An event published before the very first start of a
  consumer is returned as unroutable, logged, and its order stays PENDING.
  `DECISIONS.md:228` says the start order does not matter.
- **A routed event is logged as not routed** (`false_report`). `awaitReturn`
  (`internal/order/events.go:188`) takes whatever the channel of returns yields
  for a return. The library closes that channel with the connection, so every
  publish of the last second before a graceful shutdown (the deferred
  `conn.Close`, `cmd/api/main.go:88`) may be logged as "order created event was
  not routed", with code 0, although it was routed and its order is executed.
- **A large quantity is answered 500** (`documented_answers`). `quantity` is an
  `int` in the API and an INTEGER in the tables; nothing checks the range.
  `openapi.yaml:42` allows every integer from 1 and documents 201, 400 and 413.

`RetryBudget` also makes a consequence explicit that `maxDeliveryAttempts` does
not show: the three attempts are per message, not per order. A crash between
the retry copy and the ack leaves two messages, each with attempts of its own,
and a requeue after a failed publish repeats an attempt without counting it.

`EventsKept` names the one way in which a retry loses an event that the broker had
stored. The consumer publishes the copy and acks the original
(`internal/execution/consumer.go:166` and `177`) without publisher confirms: the
publish returns when the frames are written. A broker that restarts after the ack
and before it has stored the copy has neither. `DECISIONS.md:566` says that a failure
can delay a message but not lose it; `README.md:145` lists messages lost before they
were persisted among the known limitations. `NoEventDropped` proves that, apart from
deletions, nothing else loses a stored event.

`StrandedOnlyByFaultOrBurst` names the one way in which an order loses its event
with no fault anywhere: a channel stays in use for a second after its request,
so a burst of more requests per second than the connection has channels makes
publishes fail, which are answered 201 like the others.

## What is proved

Every safety property that a passing run checks (invariants, action properties
and the four refinements) is also a theorem, for any sets of orders,
consumers, sessions, messages and channels and for any bounds. `PROJECT.json`
lists the theorems with their properties. Each module below has one inductive
invariant, of which the theorems are consequences.

**OrderStoreProofs.** `TypeCorrect`, `ExecutesOnce`, `RepliesSound`,
`AtMostOneWinner`, `StoreImplementsLedger`. `ExecutedOnce` is not inductive:
the step that commits has to find its order PENDING with no executions row.
`StagedUnderLock` says why it does: uncommitted writes belong to an open
transaction that has the row of a PENDING order locked, and a lock has one
owner, so no other session has anything staged for that order
(`CommitFindsPending`). `StagedByStep` says that a COMMIT that was sent has both
writes. `CalledAfterInsert` says that a call names an order with a row or one
that never gets one, which makes `notFound` stay true; `CommittedExecuted`
carries the result from the server's commit to the caller's answer. `StoreInv`
is the conjunction. The refinement maps `Create` and `ServerCommits` to the two
steps of the ledger and every other step to a stutter.

**ExecutionConsumerProofs.** `ConsumerTypeCorrect`, `DeliverySettledOnce`,
`RoutedOrderNotLost`, `DeadLettersJustified`, `InvalidEventsNotRetried`,
`DuplicatesNeedFault`, `SignalStopsWork`, `RetriesBounded`. The invariants build
on each other:

- `Bookkeeping`: the place in the loop says what the process has
  (`LoopPlaces`), a session has one delivery at most (`Sessions`), and what a
  connected process holds is delivered and not settled (`HeldUnsettled`). From
  it, `SettledOnce`: a second settlement would need a delivery in hand whose
  settlement is on the way already.
- `ResultKept`: an ack, in hand or on its way, leaves an EXECUTED order or a
  message with a later attempt behind, or follows the publish of one in its
  wire. This is where the order of the code matters: the copy is published
  before the original is acked, and the broker handles frames in order. So
  whatever an ack removes, `OrderNotLost` still holds.
- `AttemptsPaid`: an order has failed as often as its messages say, and every
  verdict on its way is hopeless or the last attempt; `InvalidAtFirst`: no
  process retries an invalid event.
- `Apart`: a message is in one queue, one session or one wire, once.
- `OneLive`: without a fault no COMMIT is left under way, an order that is not
  EXECUTED has one message still to be handled, and one that is has none. A
  duplicate needs a second one.
- `AttemptsLimited`: a potential argument for `RetryBudget`. `Pending(o)` is the
  set of failures order `o` may still have: for each message in the queue the
  attempts after its own, for one in hand what its place in the loop still
  allows, and one more for a process that goes on with a delivery after its
  connection broke (`Zombie`). Failures so far and the size of that set never
  exceed `Allowance(o)`, which grows by `MaxDeliveryAttempts` with the event of
  the order and with every fault, and by one with every signal. One lemma per
  kind of step says what it adds to or takes from `Pending`: a transient failure
  takes one element (`FailureWithin`), a retry exchanges those of the original
  for those of the copy (`CopyWithin`), a crash adds those of one delivery
  (`CrashNewOnly`), a signal adds one (`SignalNewOnly`), and the broker only
  moves them (`BrokerNewOnly`).

A late COMMIT changes the tables and nothing else (`LateElsewhere`), and there it
executes its order or has no effect (`LateEffect`). No invariant says when it
comes, so the theorems hold however late it is.

**OrderApiProofs** has no theorem of its own but the lemmas about the steps of
the API that the next two modules share, and `Serving`: an API that is down has
no request in flight, and without a fault it has its connection.

**OrderPublisherProofs.** `PublisherTypeCorrect`, `OnlyFaultOrBurstStrands`,
`PublisherImplementsApi`. `RefusedOnce` says that a request that was refused a
channel has been answered; hence every step of the publisher is a step of the
API, a refusal, which counts as one more fault there, or a stutter.

**OrderPipelineProofs.** `RowBeforeHandling`, `PendingOrderAccounted`,
`PipelineImplementsLifecycle`, `PipelineImplementsConsumption`,
`PipelineLosesNoOrder`, `PipelineSettlesOnce`, `PipelineHandlesOnce`,
`PipelineRetriesBounded`, `ParkedOrdersFailed`, `PipelineSignalStopsWork`. The consumers' half of each step is in
`ExecutionConsumerProofs`, the API's in `OrderApiProofs`; the invariant
`PipelineInv` adds what ties them together: no event and no message without a
row (`RowFirst`), and wherever a message is, in hand and on the way included,
the broker keeps one of its order or the order is EXECUTED (`MessagesTraced`);
the same of an order whose COMMIT nobody waits for (`UnheardTraced`), so a late
COMMIT executes an order that is accepted or parked, never one that is stranded.
With it, `Phase` changes only as `OrderLifecycle` allows: one order at a time,
forwards (`PhaseApiStep`, `PhaseConsumerStep`, `OneEffect`).

For `PipelineImplementsConsumption` two more invariants make up `PublisherInv`:
an event is not on its way before its request has come to it nor after the
broker has it (`EventOnce`), and a message carries the body its order's event
had (`BodiesTrue`). A handler then finds a row in the pipeline exactly when it
finds one under `RowsAhead`. The five theorems that follow are those of
`ExecutionConsumerProofs`, instantiated with that mapping (`Proved`) and read
back in terms of the real rows; `ParkedOrdersFailed` needs `RowFirst` and
`BodiesTrue` besides.

**ExecutionTopologyProofs.** `TopologyTypeCorrect`, `DeadLetterFirst`,
`NoEventDropped`, `BindingOutlivesConsumers`. `SetupProgress` says what is in
place when a consumer has got past each declaration, made by it or by others,
unless the operator deleted it since; `Holders`, that a delivery is with a
consumer that passed them all; `WorkStays`, that a message is only where the
work queue has been; `StoredTaken`, that what is stored was taken before. For
`NoEventDropped`, `CopyBehind` says that a delivery whose copy went ahead has a
later message of its order behind it: an ack takes a message away (`Leaving`), but
never the last one. A copy may have been copied and acked in turn, hence
"later" and not "the next" (`CopyBehindStep`).

**OrderListingProofs.** `ListingTypeCorrect`, `PagesRepeatNothing`,
`PagesSkipNothing`, `CursorsLeadOn`, for any finite set of orders, any number of
timestamps and any page size. `(created_at, id)` orders the rows totally
(`OlderIsTotalOrder`), so a row that LIMIT cuts off is older than the last row
of the page (`BehindLast`, by comparing the numbers of younger rows). From that:
every listed row is on the near side of the cursor (`ListedBeforeCursor`), and
every row that has matched all along was listed or lies ahead of it
(`SteadyAhead`). A row that becomes visible late may appear on either side; it
was never promised.

**OrderContractProofs.** `ContractTypeCorrect`, `AcceptedIsValid`,
`KnownIsExecuted`, `TableRefusesByWidth`, for any tickers, words and quantities.
The checks of `CreateOrder` are made on the normal form that is stored
(`NormalForm`), and they imply the CHECK constraints, apart from the width, and
`Validate` (`AcceptableAgreed`).

### Assumptions

The theorems assume what the modules assume of their constants, which TLC
evaluates on every run:

- `BrokerAssumption`, `ConsumerAssumption`, `ApiAssumption`, `StoreAssumption`,
  `TopologyAssumption`: bounds are natural numbers, there is at least one
  attempt, `NoMessage` and `NoSession` are no message and no session.
- `EventAssumption`: what `EventBody` makes of an order is one of `Bodies`.
- `PublisherAssumption`: the connection has at least one channel and the set of
  orders is finite, which counting refused channels needs.
- `ListingAssumption`: ids are numbers and there are finitely many.
- `ContractAssumption`: the price service knows tickers only, and the empty text
  is none.

`Room`, the guard that names the bound `MessageIds`, needs no assumption: a step
that finds no identity left is not taken, and for an infinite set it always is
there.

### Only model-checked

Liveness, because the prover has no support for fairness here: `CallReturns`,
`LockReleased`, `EventResolved`, `ShutdownCompletes`, `LossStopsApi`,
`RequestsEnd`, `ChannelsReturn`, `SetupCompletes`, `AcceptedSettles`. So is the
absence of deadlock, and the four properties that are violated have their
counterexamples from TLC.


## What is not modelled

- A failure of the broker or the database that loses stored data. A restart
  of the broker that loses what it had not stored, retry copies included, is in
  `ExecutionTopology`; `ExecutionBroker` and the modules above it have none, so
  `OrderNotLost` and `ImplementsLifecycle` speak of crashes and connections only. A restart that
  forgets an ack, which only repeats a delivery, is in neither, nor is a message
  lost while RabbitMQ moves it to the dead letter queue or back to the work queue.
- More than one API process. Requests share nothing but the connection, so
  concurrent requests stand for it.
- The number of pooled database connections.
- Messages put into the queues by hand, and replays of the dead letter queue.
- The 1 KiB limit of a request body; the text of cursors, parameters and JSON;
  prices; telemetry, metrics,
  tracing, logging, error bodies, the fixed demo user; generated gRPC code.

## Plan

Done: every component that keeps state, their composition, and four
refinements: the store implements the ledger, the publisher implements the API,
the pipeline implements the life cycle of an order and the specification of the
consumers; proofs of all safety properties the runs check.

Left, in this order:

1. `ExecutionTopology` and `ExecutionBroker` describe the same queues: that a
   consumer that has passed all declarations has what `OpenSession` takes as one
   step.
2. `OrderStore` under `ExecutionConsumer`: the store's sessions in place of
   `ClaimOrder` and `LateOutcome`, by composing the two refinements.
