# The wealth core in TLA+

A model of the behaviour over time of *the-wealth-core*: the market data pipeline of
`market-service` (Deriv or a synthetic provider → queue → NATS and TimescaleDB), what the gateway
answers from its tables, the gateway's WebSocket stream and trade book, and what every service is
built from: the NATS client with its permissions, the Redis client, the lifespan, and the health
that the gateway aggregates. The modules are checked with TLC on small instances; the results that
matter most are proved with TLAPS for instances of any size. Paths below are relative to the root
of the repository.

## 1. The system

| component | state it keeps | operations | talks to |
|---|---|---|---|
| Deriv connector (`src/services/market-service/deriv_connector.py`) | a WebSocket session | connect, authorize, load symbols, subscribe, receive; report error and disconnection; wait; retry for ever | puts statuses, ticks and candles into the stream queue |
| Fallback provider (`fallback_provider.py`) | synthetic prices | announce itself, put one tick and one candle per symbol, sleep | the same queue; created and cancelled by the consumer |
| Pipeline (`pipeline.py`) | bounded queue, four tasks, `provider_mode`, counters, buffer | `start`, `stop`, `_consume`: follow statuses, normalize, publish, buffer, flush a full batch | NATS, the writer, both providers |
| Writer and buffer (`timescale_writer.py`) | `BatchBuffer`, a connection pool | `write_ticks`, `write_candles`, `periodic_flush`, retention policies | TimescaleDB |
| Normalization (`normalization.py`, `models.py`) | none | payload → event and row; may raise | called by the consumer |
| Lifespan, endpoints, settings (`main.py`, `config.py`) | connection flags | connect NATS and Redis, start, stop; `/health`, `/market/status` read the mode and the counters | pipeline |
| Gateway stream (`src/services/gateway/routes/stream.py`, `state.py`) | list of connections, cache of what was sent | one broadcasting task; one handler per client | clients |
| Gateway trade book (`providers/mock.py`, `routes/trades.py`) | positions, history, ticket counter | open, close, list | the stream copies its positions at start |
| Gateway queries (`providers/timescale_market.py`, `routes/market.py`) | a pool or none | list symbols, candles, ticks | TimescaleDB |
| Gateway health (`src/services/gateway/main.py`) | none | ask each service in turn, 3 seconds each | `/health` of the services |
| NATS client (`src/shared/nats_client.py`, `events/*`) | a connection; nats-py keeps what is not sent | connect, publish with a permission on `order.*`, drain and close | NATS; used by every service |
| Redis client (`src/shared/redis_client.py`) | a connection, synchronous | sessions, tokens, cached values, plain keys, counters, with lives | one flat database, shared by the services |
| Service template (`src/shared/service.py`) | the two clients | lifespan; `/health`, `/ready` | NATS, Redis |
| Strategy registry, other routes | a flag per strategy | toggle; format constants | — |
| strategy, execution, analytics services | — | empty packages | — |

What is hard here: four tasks share one queue, one buffer and one database, and two of
them are created, cancelled and awaited by the others; a bounded queue makes everybody wait
for the consumer, which itself waits for a provider it cancels; statuses act when they leave
the queue, not when they are true; two coroutines write the same tables; writes, publications
and sessions fail, and the process stops or crashes between any two of these steps; the
gateway changes a list while it iterates over it; NATS and Redis come and go, and a Redis that is
silent stops the event loop of a service in the middle of whatever it does. `PROJECT.json` lists each hazard at its
line, with the properties that watch it.

What makes each part correct:

* *connector*: after a failure there is another attempt, although it must report through a
  queue that may be full;
* *fallback*: it runs when Deriv is down, and only then; it always takes its cancellation;
* *pipeline*: events reach the server in order of arrival and at most once; the event of a row in
  the tables was given to NATS, and is lost only with a connection or the process; a row is
  never in two flushes; nothing in memory is forgotten; `stop()` ends and closes the pool
  only when nobody writes;
* *writer*: a candle is not overwritten by an older version of itself;
* *stream*: whoever is connected is listed, once; nobody gets a message twice; a message is
  missed only in the one way the code has; the loop never ends;
* *market data*: what is stored under a symbol is about that symbol and was asked for; what a
  client is told of a candle is its last update, unless that was dropped or overtaken on its way;
  what is stored is found;
* *trade book*: a ticket names one trade; the book is what the clients were told, by the answers
  about tickets it does not know as well;
* *NATS client*: only the execution service publishes orders, however the subject is spelled; a
  client that is connected keeps nothing from the server;
* *Redis client*: what has to end ends; a sequence of calls, some of which raise, is one of a
  store whose cells keep a value for a while;
* *lifespan*: NATS is there as long as the pipeline publishes;
* *health*: "healthy" was true of each service during the request; the request ends.

## 2. Modules

| module | models | state → code |
|---|---|---|
| `StreamQueue` | the queue and the event loop | `queue` = `stream_queue`; `nextId` numbers what arrives; `loop` is the task that holds the event loop; `cancel` the tasks with a `CancelledError` under way |
| `DerivConnector` | `stream`, `_run_session` | `conn` = where the task is suspended |
| `FallbackProvider` | `run` | `fb` = where the task is suspended, `"none"` when `_fallback_task` is `None` |
| `TimescaleWriter` | `BatchBuffer`, the two writes, the two tables | `buffer`; `job[w]` = the local lists `ticks`, `candles` of a coroutine that flushes; `dbTicks`, `dbCandles` |
| `MarketPipeline` | consumer, periodic flusher, start, stop, crash and restart; composes the four above | `cons`, `cur`, `mode` = `provider_mode`, `processed`, `flush`, `accepted` (the events for which `publish_event` returned), `life` |
| `MarketDelivery` | the NATS client of the pipeline: an event between the return of `publish_event` and the server; composes with `MarketPipeline` | `link` = the connection; `outbox` = what nats-py holds in memory; `published` = what the server received; `lost` is history |
| `MarketFeed` | the abstract promise: events that wait, an ordered stream, and tables of what was accepted | `waiting`, `published`, `lost`, `dbTicks`, `dbCandles` |
| `MCMarketPipeline`, `MCMarketDelivery` | the instances of the two for TLC | |
| `MarketPipelineProofs` | type correctness and the order of what is accepted, proved | |
| `MarketFeedProofs` | the store, the order of the stream and the refinement, proved | |
| `PipelineControlProofs` | mode, fallback task and pool; what becomes of rows, versions and counters, proved | |
| `MarketData`, `MCMarketData` | normalization, symbols of a session, keys and conflicts of the tables, the queries of the gateway | `ticks`, `candles` = the tables; `newTicks`, `newCandles` = the rows on their way there; `session` = what `_load_symbols` returned; `pool` of the gateway; `arrived`, `missed` and the field `about` of a row are history |
| `TradeBook` | `MockTradeProvider` behind the routes of `trades.py`, the copy the stream announces | `positions`, `history`, `counter` = `_ticket_counter`; `shown` = `_positions` of the stream, `announced` = what `has_changed` remembers; `opened`, `closed`, `unknown` = the answers given |
| `MarketDataProofs` | its rows and its answers, proved | |
| `TradeBookProofs` | tickets, book and announcements, proved | |
| `GatewayStream`, `MCGatewayStream` | `_broadcast`, `_stream_loop`, `market_stream` | `conns` = `_active_connections`; `idx` the index inside the list iterator; `target` the send awaited; `dead`; `served` and `owed` are history |
| `GatewayStreamProofs` | the list, the deliveries, the one way to miss a message, proved | |
| `NatsClient` | `NatsClient`, one per service, and what nats-py does with an event | `link` = the connection; `pending` = what nats-py keeps in memory; `bus` = what the server was given in the last step |
| `ServiceLifespan` | `lifespan` of `market-service` and of the template, their `/health` | `life` = where the process is; `pipe` = the pipeline runs; `mode` = `provider_mode`; `redis` = the server; `blocked` = the event loop waits in `ping()` |
| `SystemHealth`, `MCSystemHealth` | `/system/health` of the gateway over the services | `asked` = the place in the loop over the upstreams; `reply`; `allHealthy` = `all_healthy`; `answer`; `witnessed` is history |
| `SystemHealthProofs` | permissions, NATS and the pipeline, the answer, lost events, proved | |
| `ExpiringStore` | the abstract promise of the Redis client: cells with a life | `content`, `life` of each cell; `call` = the last call and its answer |
| `RedisCache` | every operation of `RedisClient`, on the commands of Redis | `db` = text and remaining life under each key; `call` |
| `RedisCacheProofs` | expiry and the refinement of `ExpiringStore`, proved | |

### How asyncio is modelled

A coroutine runs until it awaits something that is not ready. `Queue.put` does not suspend
while there is room, `Queue.get` not while there is an item: such steps form a row that no
other task can enter. An action is one stretch between two awaits that may suspend; after it
the task either keeps the loop (`HoldForPut`, `HoldForRecord`, `HoldForGet`) or gives it up
(`Suspend`). Where an await may or may not suspend (`publish_event`, the sleep between
rounds), both are allowed. Among the tasks that can run, any may be next.

A cancellation is not an event but a state: `Task.cancel` marks the task (`cancel`), which
does nothing more until the error reaches it where it waits (`Interrupt`). A cancelled `put`
or `get` leaves the queue alone; a cancelled write may or may not have committed; `gather`
waits for its children even when it is cancelled itself, which is why a cancelled consumer in
`"reap"` needs `fb = "ended"`.

`Ready` says that the reconnect delay, which lasts seconds, does not end while a task that
was ready when it began still waits for its turn. It is the only statement about real time.

### From `publish_event` to the subscribers

`publish_event` awaits nothing but the memory of nats-py: it neither flushes nor waits for an
acknowledgement (`nats_client.py:47`). What it returns for is therefore *accepted* and no more.
`MarketDelivery` adds what happens then. The client writes events to the socket in their order
(`Transmit`), and an event written has reached the server, except that a connection that breaks
(`Break`) swallows some of the first events of `outbox`: those that were written last and had not
arrived. nats-py keeps what it has not written while it reconnects, drops it when it gives up
(`GiveUp`), and loses it with the process (`RestartClient`); only `close()` of a connected client
waits for it (`Close`). Delivery is thus at most once: a row may be stored, committed for good, and
its event never sent. `MarketFeed` states just that: `waiting` is what nats-py holds, and `Lose`
takes the first events of it.

`MarketPipeline` itself stops at `accepted`; its properties about order, losses and counters are
about what NATS was given, and `MarketDelivery` carries the order on to the server.

### Services and their clients

`NatsClient` and `ServiceLifespan` are open: they have variables and actions per service, and no
specification of their own. `SystemHealth` composes them: a step is one of the gateway's request
(`Poll`) or one of the services (`ServicesGoOn`). A service is its name, since the name decides
whether it has a pipeline and whether it may publish orders. An event is its subject, a sequence
of tokens, because the permission takes a leading version off it, whichever it is: `Versions` are the
tokens that begin with `v`. A connection that breaks (`Lose`) may swallow what was written to it. Of the pipeline inside a
service there is left what others see of it: that it runs, that it publishes, and its mode.

`ping()` is synchronous: while Redis takes requests and does not answer, `blocked` keeps every
action of that service from happening, those of nats-py in it included; a crash can still end it.

### Values in Redis

`RedisCache` keeps of a Python value what its way through `json.dumps` and `json.loads` tells
apart: a text that is not JSON, a text that is the JSON of a number, the empty text, a number, a
dictionary, `None`. The refinement mapping reads each key as its reader would, and `KeptOf` says
what the cell keeps of what was written: a number for the text `"1"`, `None` for the empty text,
the text itself for a token. A call that raises has happened or has not. The operations on plain keys are
called with keys outside the three prefixed spaces. The code does not check that; a caller that
hands a prefixed key to `set_key` without a life makes that entry one that never ends. The repository
has no such caller, and the properties assume there is none.

### What the data are

A record is its kind, its provider and the number of its arrival; a status is its kind and its
provider. `TickTime` gives each tick its timestamp, and ticks of one provider that share it have one key:
the first stays, the others are dropped by `ON CONFLICT DO NOTHING` without an error. In the
instances the first two ticks share theirs. All candles of a provider have one key: they are
updates of one candle, which is the case in which rows overwrite each other (`ohlc` messages
repeat the candle that is open). `executemany` is one transaction.

`MarketData` looks at the same data the other way round: there the names and the keys matter. The
way of a row through queue, publication and the buffers of two writers is a set of rows on their way, of which
any may be stored next or dropped (`StoreTick`, `DropTick`, `StoreCandle`, `DropCandle`): more than
`MarketPipeline` allows, and so every order in which two writers commit and every batch that is lost is
among it. `arrived` remembers the last update of each candle that arrived, `missed` the candles whose last update is
not in the table for good, because it was dropped, overwritten by an older one that was stored later, or
removed by the retention policy. A row has the number of its message instead of prices, and
remembers the subscription that message belongs to. In `TradeBook` a trade is its ticket.

`LifeNext` is one life of the process, `Next` adds `Restart`. `LifeSpec` and `FairSpec` are the behaviours of `Spec` without a
crash; the runs about one life check those. `Restart` crashes the process wherever it is and starts another: what is volatile starts over,
what the server received and the tables stay. A crash just after a commit is a commit, then a crash.

## 3. Runs

| run | bounds | what it shows |
|---|---|---|
| `pipeline_faults` | queue 2, 3 records, batch 2, NATS, database and normalization may fail | one life of the process: the flushes are disjoint, the fallback is quiet when Deriv is back and there when it is not, the pool outlives the writers, nobody waits in a circle, each step after `stop()` brings its end nearer, a record is lost only where it is refused or with the batch of a writer that fails or is cancelled, a candle goes back to an older version only through the periodic flusher |
| `pipeline_restarts` | queue 2, 2 records, batch 1, NATS and normalization may fail, writes may be cut off, 1 restart, connections to NATS lost and given up | the event of a stored row reached the server, waits or was lost with a connection or the process; the stream is in order and has nothing twice; `MarketDelivery` implements `MarketFeed` |
| `pipeline_liveness` | queue 2, 2 records, batch 2, fairness | stop ends, records get out, the buffer is flushed, the connector retries, the counters are exact while nothing fails |
| `stream` | 3 clients, which come and go without end, fairness | the list, the deliveries, the one way to miss a message; the loop goes on, the closed are forgotten |
| `market_data` | 3 symbols (one not in upper case, one of another market), 2 granularities, 2 candles each, 3 messages stored in any order or dropped, with and without allowlist, retention | rows are about what they say, only requested symbols are stored, and the gateway answers with the last update of each candle that was not missed and with nothing else (on both paths for symbols in upper case) |
| `tradebook` | 3 trades besides the 3 seeded, requests to close open, closed, seeded and future tickets, restarts without end | tickets, closings and answers agree |
| `redis` | 1 id in each of the 4 name spaces, lives up to 2, counters up to 2, every call may raise | sessions, tokens and cached values end, and `RedisCache` implements `ExpiringStore` |
| `services` | 2 services (one with a pipeline, one that may publish orders), 3 subjects, 2 versions, 1 event in memory, NATS and Redis fail at will, fairness | orders come from the execution service, NATS outlives the pipeline, events are lost only offline, "healthy" was true, the request is answered |
| `finding_*` | the smallest that show it | section 5 |

Bounds: `QueueSize`, `BatchSize`, `MaxRecords`, `MaxRestarts`, `Clients`, `MaxTime`,
`MaxMessages`, `MaxOpens`, `MaxLife`, `MaxCount`, `MaxPending`. Two places in the
queue are the fewest with a first and a last item and a full queue behind both; three statuses
in a row (connector) and tick and candle pairs (fallback) do not fit, so every put is seen to
wait. With a batch of two and three records, a batch fills while another is being written and a
row is left over for `stop()`. The number of statuses is not bounded: sessions fail and
reconnect for ever. Three clients are the fewest with one removed before the iterator, one
skipped and one served. Three messages are an update, a second one of the same candle and a
conflicting one of another kind or provider; since any row on its way may be stored next, two updates of a
candle are enough for the older one to be stored last. Two records are the fewest with an event that is sent
and a later one that waits or is lost, and one restart the fewest that loses an outbox.
In that run, a batch of one has each record written as soon as it is accepted, so that rows are often stored before
their events are sent; writes that fail, and the other two writers, are in `pipeline_faults`, and the theorems about the
three properties cover all of them together. A command of Redis touches one key and no operation
of the client touches two, so one id in each space is enough to see what a key can become; a life of
2 is the least that can be shortened without ending, a count of 2 the least that is incremented
twice. Two services are the fewest with one that was asked before the other, and may have changed
since. One event in memory is enough for it to be sent, drained or lost. The proofs do without
these bounds.

### Fairness

Strong fairness for each task: the ready queue of the event loop and the waiters of an
`asyncio.Queue` are first in, first out, so that a task that can run again and again, but for the
steps of the others in between, does. It includes that each await on NATS, the database or a
timer ends. `MainStep` is weakly fair. Nothing is assumed of Deriv (`Subscribe`, `Receive`,
`SessionFails` are not fair), of the operator (`Stop`) or of crashes. In the gateway, a
send ends and a handler notices a closed connection; clients need not come, nor go. In `services`,
fairness is only that of the request: a service answers or its 3 seconds are over (`httpx` raises
then). Nothing is assumed of the services, NATS or Redis. `redis`, `market_data` and `tradebook`
have no fairness and need none.

The failing outcome of a write or a publication is part of the same task as the successful one;
with a fault enabled, fairness does not promise that a call ever succeeds. The liveness run
therefore has no faults, but for sessions, which fail at any time.

## 4. Proofs

`MarketPipelineProofs` needs only the assumptions `QueueAssumption` and `PipelineAssumption`
(sizes are positive, faults are among the three) and `TickAssumption` (each tick has a timestamp).

* `TypeCorrect`: `Spec => []TypeOK`, one lemma per task. It is what bounds the queue.
* `AcceptedInOrder`: `Spec => []AcceptedInArrivalOrder`. The property alone is not inductive:
  a record on its way could be earlier than the last event. `ArrivalOrder` follows the way of a
  record: events < record in hand < records in the queue < `nextId`, each part in itself
  increasing. One lemma for each thing a step can do to that way: put a status, put a record,
  take an item, publish, start over, leave it alone.
* `PersistedAfterAccepted` (`MarketFeedProofs`): `Spec => []PersistedWereAccepted`: the row of a record is
  stored only after its event was accepted, through `RowsWereAccepted`, which says the same of what is still
  in memory: buffer and batches under way.
* `OneFlushPerRow`: `Spec => []FlushesAreDisjoint`. A new row is in no batch because it was not
  accepted before (`ArrivalOrder`), and every batch was (`RowsWereAccepted`).
* `DeliveryIsPipeline`: `DSpec => Spec`: a step of `MarketDelivery` is one of the pipeline or leaves it
  alone, so that the results about `MarketPipeline` hold of it. On top of them, `DInv` says that
  what the client was given is on the stream, in its memory or lost (`Accounted`), and that stream and memory
  are one sequence in the order of arrival (`OneOrder`).
* `PublishedInOrder`: `DSpec => []PublishedInArrivalOrder`, a conjunct of `OneOrder`.
* `PersistedAfterPublished`: `DSpec => PersistedWerePublished`, from `PersistedAfterAccepted` and `Accounted`, and
  from `LeavesMemory`, which says of every step why an event leaves the client's memory.
* `ImplementsFeed`: `DSpec => FeedSpec`: each step is a step of `MarketFeed`, with `outbox` for
  `waiting`, or leaves it alone.
* `FallbackIsQuiet`, `FallbackIsThere`, `PoolOutlivesWriters` (`PipelineControlProofs`):
  `Spec => []ControlInv`, the three properties about control with what makes them inductive
  together: which phases of the process have no tasks left (`Unborn`, `LifePhases`), and who may
  hold a batch when (`BatchesInUse`).
* `OnlyFailuresLose` (same module): `Spec => LostOnlyByFailure`, from the arrival of a record to the
  tables. `LeavesForAReason` says of every step what leaves the queue and the consumer's hands,
  from lemmas about the rows of a queue (`QueueRows`) and the order of arrival, which keeps a
  record from being in two places; `RowSteps` says what happens to the rows that are accepted
  and not stored: nothing, a write, or a write cut off. That no two flushes take or drop each
  other's rows is `BatchesInUse` again.
* `NoneIsForgotten`: `Spec => []NothingIsForgotten`: no arrival number is missing while
  normalization and NATS refuse nothing.
* `FlusherAloneRegresses`: `Spec => OnlyFlusherRegresses`, from `VersionOrder`: the consumer and
  `stop()` leave the buffer empty while they write, so that what they write is the newest there is;
  the batch of the flusher may be older than that, and what waits in the buffer is newer than
  the tables and than every batch.
* `CountersStayExact`: `Spec => []CountersAreExact`, with any faults and restarts: a failed flush
  and a restart make the counters fall behind, and nothing makes them run ahead. `CountersInv`
  adds the record whose flush is under way, accepted and not counted yet.
* `MemoryIsBounded`: `Spec => []BufferIsBounded`: a full batch never stays in the buffer, because the
  consumer takes it before anybody else runs.

Three theorems are the safety that liveness rests on:

* `NoDeadlock`: `Spec => []NobodyWaitsInACircle`. `WaitsFor` names whom a task waits for. That there
  is no circle is shown by naming, in any set of tasks, one that waits for none of them: the holder
  of the event loop, else the fallback task the consumer waits for, else the consumer, else
  anyone. It needs `LoopInUse`: who holds the event loop has
  something to do, and a consumer that waits for the fallback task has cancelled it, so that
  the fallback task waits for no room in the queue that only the consumer makes.
* `StopComesNearer`: `Spec => StopAdvances`: after `stop()` has been called, every step but a crash
  makes `StepsToStop` smaller, since all that is alive is cancelled (again `LoopInUse` and what
  `NoDeadlock` shows of `life = "stopping"`).
* `CycleEnds` (`GatewayStreamProofs`): `Spec => CycleAdvances`: the pair of `Stage` and `SendsLeft` becomes
  smaller with each turn of the broadcaster and is not touched by a handler; the list may grow
  under the iterator, but not beyond the clients there are.

That these steps are taken, that is fairness, and that one is enabled are out of the prover's
reach: `StopCompletes`, `EveryRecordPublished`, `BufferIsFlushed`, `AlwaysReconnects`, `StreamGoesOn`,
`ClosedIsForgotten` and `HealthIsAnswered` are checked by the runs on small instances only.

`MarketDataProofs` needs `MarketDataAssumption` and `NamesAssumption` (no symbol is called
`UNKNOWN`, `<n>s` differs for different granularities, which is what `f"{n}s"` does, and none of
them is, in upper case, a key of `TIMEFRAME_MAP`).

* `TypeCorrect`, `RowsAreTrue`, `MarketsAreRequested`: `RowsInv`, which says of every row where it
  can come from, with `SessionsAreRequested`, because what a session subscribes decides what its
  messages may be about later.
* `MarketsAreRequested` is about both providers: a row of Deriv is about a symbol of the allowlist or, if
  there is none, of a requested market, and a row of the fallback provider about one of its symbols.
* `AnswersAreTheLatest`: `AnswersAreUpToDate`, from `RowsAreTrue`, from `CandlesAreUpToDate` (the row under a key is
  about that key, so that an update replaces its own candle and no other; when a row is stored or dropped,
  the last update of its candle is stored, on its way or in `missed`), and from `PathsAgree`, which needs the types
  alone: every stored timeframe is one that the gateway does not translate.

`TradeBookProofs` needs no assumption but that of its bound.

* `TicketsAreUnique`, `BookIsWhatWasSaid` (none is closed twice, either, and an answer about an unknown ticket
  that somebody had been given was about one in the history), `AnnouncedWasReal`: every ticket
  that was given is at most the counter (`OpenedByCounter`), positions and answers are increasing
  (`Increasing`), and the two lists hold what was opened and closed (`OnRecord`).

`GatewayStreamProofs` needs `ClientsAssumption`: the clients are finitely many.

* `TypeCorrect`, `ListedOnce`, `ServedOnce`, `OnlySkippedMiss`: `StreamInv`, of which the parts
  are: nobody is listed twice, whose send raised is closed (`SendsAreTo`), those the iterator has
  still to reach have not been served (`AheadAreNotServed`), and whoever is owed the message is
  listed and has it, failed to get it, or is still ahead (`OwedAreAhead`). Underneath are
  lemmas about lists from which elements are removed, at a place (`RemovedAt`) or as a set
  (`RemainingClients`, by the rank of the places kept).

`SystemHealthProofs` needs `UpstreamsAssumption` (every service is asked), `HealthAssumption` (the
health event is one of the subjects) and `ContractAssumption` (a subject with a token `order` is of
the form `order.*`, as the contracts in `src/shared/events` are).

* `OrdersArePermitted`: what waits in a client was permitted when it was given (`Permitted`).
* `NatsOutlives`: in which phases there is a pipeline, and a connection (`LifeInv`).
* `HealthyIsTrue`: while all answers were healthy, those asked were witnessed (`RequestInv`).
* `ConnectedLosesNothing`: the action property `LostOnlyOffline`, case by case over the steps
  that empty a client.

`RedisCacheProofs` needs `RedisCacheAssumption` (the bounds are positive, and there is an id).

* `SpacesAlwaysExpire`: with the kinds of text in each space, in `DbInv`.
* `ImplementsStore`: `Spec => StoreSpec`; one lemma for each operation: a command that is
  executed maps to the call of the store, a call cut off before to `Refuse`, time to `Tick`.

Six definitions are stated by a theorem and by no run, since a run that checks a stronger
or an equivalent property, or the theorem itself, covers them: `BufferIsBounded`,
`NothingIsForgotten`, `CycleAdvances`, `CandlesAreUpToDate` (which `AnswersAreUpToDate` carries on to
the answers), `AcceptedInArrivalOrder` and `PersistedWereAccepted` (which `MarketDelivery` carries on to the server). Only model-checked: the liveness properties named above.

## 5. What the code does not keep

Each is a run that TLC must find violated, and a finding in `PROJECT.json` with the line quoted.

* `finding_outage`: `stream()` announces `"connected"` before it connects, and the consumer sets
  mode `primary` and cancels the fallback task on it: a long outage is not covered but
  punctured, at every attempt.
* `finding_flusher`: one failed write ends the periodic flusher.
* `finding_symbols`: the queries of the gateway put the symbol in upper case, the tables do not:
  `frxEURUSD`, one of the two default symbols of the fallback provider, is listed and never found.
* `finding_history`: the first candles of every subscription are stored as `UNKNOWN`, `60s`. (That
  the candles of such an answer do not repeat symbol and granularity is a fact about Deriv, outside
  the repository; the code has no other place to take them from than the echoed request, which
  it uses for ticks.)

Not findings, for want of a document that denies them:

* the announcement of a fallback task may be handled after that task was cancelled: the mode is
  `fallback` with Deriv up and nothing synthetic running;
* with two coroutines writing, an older version of a candle may be committed last
  (`OnlyFlusherRegresses` says that only the periodic flusher does so);
* `stop()` cancels a flush under way, whose batch exists nowhere else (`LostOnlyByFailure` says that
  of what was accepted nothing but such a batch is lost);
* two ticks of one symbol with one timestamp are two events and one row;
* an event may be lost when its row is stored: `publish_event` waits for no acknowledgement
  (`PersistedWerePublished` says when);
* a close of a ticket that is not open is answered with success and "Trade #N closed"; asked of a ticket
  that nobody has yet, this is said of a trade that may still be opened (`BookMatchesAnswers` holds for the answers about
  tickets that somebody had);
* the stream goes on showing trades that were closed; tickets start over with every process;
* a `/health` of a service waits in `ping()` while Redis is silent, and the whole service with it,
  pipeline and NATS client included; the gateway gives up on it after 3 seconds and says "degraded";
* events are dropped with a connection that breaks, when nats-py gives up reconnecting, and when `close()` finds the
  client not connected (`LostOnlyOffline` says that these, and the end of the process, are the only ways);
* a text that is the JSON of something else comes back as that, the empty text as `None`; a life of
  0 is no life for `set_key`, an error for `setex`, a deletion for `expire`; a counter has no life
  until `expire` gives it one.

## 6. Not modelled, and why

* Prices, profits, account figures: they move at random and nothing depends on them but rounding.
* Limits and the parameter `since` of the queries, which only cut what is answered.
* The requests inside the set-up of a session: one step in `MarketPipeline`, which succeeds, fails
  or never ends.
* The pipeline inside `ServiceLifespan` and the lifespan inside `MarketPipeline`: each is a few
  states of the other. A start that fails after the pipeline was started is a crash for the
  tables and the subscribers.
* The strategy registry: one assignment that negates a flag, without a suspension; a model could
  only restate it.
* Reading the environment (`config.py`), the validation of events (`events/*`), subscriptions of the
  NATS client (no service makes one), the connection flags of `main.py` (true whenever a request
  is served), the rate limits that only a document describes.
* Origin check of the WebSocket, stateless routes, empty services, scripts, containers.

## 7. Plan

1. Done: the modules above, with their proofs.
2. Model, when the code has them: the services whose packages are empty now, and what subscribes to
   the events that are published.
