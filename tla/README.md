# Leaky Cauldron in TLA+

Leaky Cauldron is a Kotlin library for building HTTP services: Dropwizard and
Jersey underneath, resource methods that are coroutines, GraphQL over HTTP,
server-sent events and WebSockets on top, jOOQ for the database. Most of it is
wiring that runs once. What is hard to get right is the part that keeps running:
coroutines on several threads that share a channel, a session or a concurrent map,
and that clients cancel, abandon and retry at any time. These modules model that part
first; the model checker explores it on small instances, and TLAPS proves the
safety properties that matter most for every instance.

Paths below are relative to the root of the repository; `graphql/…` stands for
`graphql/src/main/kotlin/com/trib3/graphql/…`, and likewise for the other
Maven modules.

## 1. The system

| part | state it keeps | operations | meets the others through |
| --- | --- | --- | --- |
| GraphQL over WebSocket (`graphql/websocket/`) | per connection: the Jetty session, a rendezvous channel, a scope, the table `queries` of running jobs by message id, `keepAliveStarted` | open, text, close; init, start, stop, ping, terminate; query, keepalive and init-timeout coroutines | the channel, the session, the GraphQL engine |
| Authentication of WebSockets (`GraphQLWebSocketCreator`, `GraphQLWebSocketDropwizardAuthenticator`) | per connection: the context of the upgrade request, that of the `connection_init` | find the principal of a connection, for each init and each query again | the upgrade, the `AuthFilter` |
| GraphQL over SSE (`graphql/resources/GraphQLSseResource.kt`) | `reservedStreams`, `activeStreams`, `runningOperations`, a scope and a sink per stream | PUT, GET, POST, DELETE (single connection), POST (distinct connections) | three concurrent maps; the invocation handler |
| GraphQL over HTTP (`graphql/resources/GraphQLResource.kt`) | `runningFutures`: a scope by request id; Jetty's table of WebSocket mappings | POST, DELETE, GET (upgrade) | request ids, the invocation handler, the WebSocket creator |
| Invocation of coroutines (`server/coroutine/`) | one scope per resource method, an AsyncContext per request | invoke, resume or cancel, disconnection callback; a rewriting of resource methods at start-up | Jersey |
| Filters (`server/filters/`, `AuthCookieResource`) | the RequestId in a thread's MDC; cookies at the client | set and clear a request id; basic, token and cookie authentication | every request |
| A query as a flow (`db/jooqext/ConsumeAsFlow.kt`) | per collection: a fetch job, a monitor, a cursor | collect, cancel | jOOQ, the database |
| GraphQL execution (`graphql/execution/`) | none | scalars, `@auth`, data loaders, error conversion | the GraphQL engine |
| Paging (`db/paging/`) | none | the condition of the next page | jOOQ |
| Configuration (`config/`) | the selected KMS reader, a global | layered overrides, decryption of values | everything at start-up |
| Metrics (`server/metrics/`, `metrics-guice/`) | counters and timers | report a registry in batches; wrap a method call | Timestream, Guice |
| Application (`server/TribeApplication.kt`, modules, swagger, `db/config`, `db/modules`, `json`) | configuration | start-up | Guice, Dropwizard |
| `testing/`, `build-resources/`, `parent-pom/` | | helpers of tests, Maven | |

What makes it hard, part by part, and the properties that make it correct:

- **WebSocket.** Every frame is handled by a coroutine of its own on a
  multi-threaded dispatcher, and yet frames must be handled in their order; the
  next frame is demanded only when this one was taken, whatever happens to it; a
  stop races the end of the query it stops; closing the socket closes the channel
  first and cancels the scope later, and everything can run in between. Wanted: one
  frame in flight, order, no running query that the table does not lead to, no
  message left in the channel after its sender was cancelled, an answer for every
  accepted query, nothing left after the close.
- **SSE.** Five kinds of request meet in three maps, with no lock around two
  accesses. Wanted: one stream per reservation, an operation lives only inside a
  published stream, runs with a principal, can be found by the DELETE of its
  client, and ends with its stream.
- **HTTP.** A request can be cancelled under an id that clients choose, and may
  choose twice; threads are pooled and carry the id. Wanted: a request runs under
  its own id, is registered exactly while it executes, its cancellation
  reaches nobody else, and what it does reach ends.
- **Flow.** A blocking JDBC call does not notice a cancellation: a monitor has to
  translate it. Wanted: cursors are closed, an executing statement is cancelled
  with its collection, and never otherwise.
- **Upgrades and authentication.** Upgrades race for the mapping of their path. A
  connection outlives the credentials it was opened with, and has two sets of them.
  Wanted: one mapping; a query runs for the client of its own connection, whose
  credentials were accepted after the query was sent; nobody is turned away whose other
  credentials would do.
- **Paging.** The table changes between two pages, and the condition of the next page
  is all that the pages have in common. Wanted: rows in order, none twice, and no
  row skipped that stays.
- **The rest** is sequential: overrides must agree with their precedence, batches
  with the registry they report.

`PROJECT.json` lists every part with its state (`components`) and every line
where one of these hazards bites (`hazards`), with the properties that watch it.

## 2. The modules

| module | models |
| --- | --- |
| `GraphQLWebSocketProtocol` | the message types, and what each sub-protocol translates |
| `GraphQLWebSocket` | one connection: adapter, channel, consumer, queries, timers |
| `QueryLifecycle` | abstract: what a connection promises for its ids and its queries; its invariant |
| `GraphQLWebSocketLifecycle` | the refinement mapping from the one to the other |
| `GraphQLWebSocketSafety` | types, the inductive invariant and the safety theorems |
| `GraphQLWebSocketRefinement` | the proof that a connection implements `QueryLifecycle`, what its liveness rests on, and that answers are in kind |
| `GraphQLUpgrade` | the upgrade of a GET, and the authentication of each init and each query |
| `GraphQLUpgradeProofs` | its inductive invariant and theorems |
| `GraphQLSse` | the graphql-sse resource, both modes |
| `StreamLifecycle` | abstract: what the endpoint promises for a token, a stream and an operation |
| `GraphQLSseLifecycle` | the refinement mapping from the one to the other |
| `GraphQLSseProofs` | its inductive invariants, its safety theorems and the proof that it implements `StreamLifecycle` |
| `GraphQLHttp` | a POST from the servlet filter to the answer, DELETE, disconnections |
| `GraphQLHttpProofs` | its inductive invariant and theorems |
| `ConsumeAsFlow` | one collection of `consumeAsFlow` |
| `ConsumeAsFlowProofs` | its inductive invariant and theorems |
| `Paging` | `getPageCondition`, and a caller that reads a changing table with it |
| `PagingProofs` | its inductive invariant and theorems |
| `MCGraphQLWebSocket`, `MCGraphQLUpgrade`, `MCGraphQLSse`, `MCPaging` | instances: the frames of each client, the values of a field, symmetry |

Definitions carry the names of the code where there is one. Definitions called
`Fault…` are mistakes the code could plausibly hold, such as a forgotten `finally`
or a `put` for a `putIfAbsent`; nothing uses them, and each of them, put in the place
of the definition it distorts, makes one property fail (`mutants` in `PROJECT.json`).

### GraphQLWebSocket

A step is what one actor does between two points at which another can observe it.

| variable | in the code |
| --- | --- |
| `session`, `closeReason` | the Jetty session, and the first reason it was closed with |
| `demanded`, `received`, `frameMsg` | `demand()`, and the frames Jetty has delivered |
| `framePc` | the coroutine `onWebSocketText` launches for each frame |
| `scope`, `channelClosed` | the adapter's CoroutineScope; `channel.isClosedForSend` |
| `chan` | the senders suspended in `channel.send`, in order: the channel has no buffer |
| `consumer`, `current` | the consumer coroutine and the message it is handling |
| `queries`, `keepAliveStarted` | the fields of `GraphQLWebSocketConsumer` |
| `keepAliveMessage` | the `connection_init` the `KeepAliveCoroutine` was made with, under whose id it sends |
| `job`, `event`, `emitted`, `cancelled` | each `QueryCoroutine`: where it is, what it is about to send, how many results it has emitted, whether its job is cancelled |
| `keepAlive`, `initTimer` | the `KeepAliveCoroutine` and the init timeout |
| `replies`, `late` | history: what the client was sent for each frame |

`HandOver` and `Suspend` are the two outcomes of `channel.send`: a sender that
finds the consumer in `receive()` hands over without suspending, hence without
noticing its own cancellation, and any other sender queues up. `CancelScope` and
`CancelQuery` withdraw what is suspended. The handlers (`handleConnectionInit`,
`handleQueryStart`, `handleQueryStop`, `handleQueryEnd`, …) are those of the
consumer, each with the tests of the code in the order of the code. The
sub-protocol is a constant: `AnswerOrClose` is the difference between Apollo's
protocol, which answers a mistake with an error, and graphql-transport-ws, which
closes the socket. The init timeout reads `keepAliveStarted` in one step and closes
the session in another, since it runs on another thread. A payload is reduced to
whether it has the type that the code casts it to, and the result of an
authentication to its three verdicts.

**Ids are sanitized ids.** The consumer reads every id through `sanitizeMessageId`, so
`Ids` are the ids without their control characters: two wire ids that differ only in
those are one id, for a start and a stop alike. An id of which nothing is left (`BlankId`) is
replaced by a UUID of its own each time one is read. A query started under a blank id
is therefore never stopped, nor taken for a duplicate, by another message with a blank id; a
client may stop it under the UUID the answers carry. "The table leads to every running query"
(`NoOrphanQuery`) is to be read that way. A frame has its sanitized id from its
delivery (`ClientStep`), as nothing reads the id before the consumer does. Blank ids, and the
UUIDs they become, are among the frames of `ws_apollo`; what is proved covers them
everywhere.

**Keepalives.** `acknowledge` sends the acknowledgement and, where there are keepalives, the
first of them; the others go from the `KeepAliveCoroutine` through the channel to
`handleKeepAlive`. All are sent under the id of the `connection_init`, and graphql-transport-ws
clients get them as pongs.

### QueryLifecycle

Three things of a connection, without coroutines, channel or timers: which query
holds each id (`holder`), how far each query is (`status`) and what the client was
sent for it (`said`). `Accept` gives an id to one query; `Result` says a result
while the query runs; `End` says COMPLETE or ERROR and takes the id back in the same
step. A query that has ended may say one word more (`LastResult`, `LastEnd`): its
coroutine may have been about to hand it over when it was cancelled. `LastEnd` shows the
price of a table by id: when another query holds the id by then, that one ends too,
unannounced. It is the abstraction, not the code, so the map lists none of it.

`GraphQLWebSocketLifecycle` maps a connection to it: `holder` is the table `queries`;
a query runs while the table leads to it, has ended when it does not, and is over when
its last word was sent (`late`); every other step of a connection is a stutter.

### GraphQLUpgrade

Upgrade requests run on servlet threads: `graphQLUpgrade` (the test of the origin,
which may refuse, and the first look for the mapping), `EnterLock`, `addMapping` (the
second look, and `addMapping` if it is needed), `NotAllowed`, `createWebSocket`.
`setAuthCookie` gives the client the cookie with which a browser upgrades. Each
connection then takes messages: `ConnectionInit` stores the context of the init,
`QueryStart` does not; `AskInit` and `AskUpgrade` are the two calls of
`getSocketPrincipal`, between which credentials may be revoked or accepted (`Revoke`,
`Accept`); `handleConnectionInit` and `handleQueryStart` decide from what they found. A
credential stands for the principal it belongs to; `invoke` is the authenticator, whose
filter throws for a credential that is not valid (nobody), and which without a filter
answers with the principal the container knows. `GraphQLWebSocket` takes any verdict of
`invoke` for any message, which includes all that is possible here. `validSince` and
`invalidSince` are history: what was accepted, and what refused, at some time since the
message was taken. A connection is not closed here: a consumer that goes on reading after
a refusal does all that one does that is closed sooner or later.

### GraphQLSse

Every access to one of the three maps that another request can come between is a
step of its own: `ClaimReservation`, `OpenStream`, `RemoveStream` and
`RemoveOperations` for the GET; `FindStream`, `EnsureMap`, `LaunchOperation` and
`StartOperation` for the POST; `cancelOperation`, which looks an operation up, and
`CancelFound`, which cancels it, for the DELETE. `runQuery` is `YieldNext` (the `yield()` at
which a cancelled operation stops), `SendNext` (the result that has passed it is made into an event and sent,
cancelled or not), `Completes`, `Fails`, `FailsFatally` (a Throwable the catch does not
see), `SendComplete` and `EndOperation`; a send to a sink that is closed may throw or be
swallowed, as Jersey allows. `RemoveStream` waits for the children of the scope: that is
what `coroutineScope` does. A disconnection is two steps, the client's and the
server's noticing it. `late` is history: the results an operation has sent after it was
cancelled.

### StreamLifecycle

The same endpoint as its clients see it, with neither maps of maps nor requests on
their way. A token is reserved, then spent on one stream (`Reserve`, `Open`,
`Refuse`). An operation starts on an open stream and is found under its id in one
and the same step (`Start`), may be ordered to stop by what its id leads to (`Order`) and is
stopped some time later (`Stop`), and ends before its stream does (`End`, `Close`). Results
are not counted until an operation is to end, by a stop or with its stream: from then on
one result may still come, and no second one (`LateResult`). A stream of its own (`Serve`,
`EndServed`) serves one operation and ends with it. As with `QueryLifecycle`, the map lists none
of it.

`GraphQLSseLifecycle` maps `GraphQLSse` to it. A stream is open from the step in which
its reservation is taken, before it is published, to the step that unregisters it; an
operation exists from its entry in the map of its token on, so finding the stream,
making its map and launching the coroutine are stutters; a token whose map does not exist
leads nowhere. `doomed`, `stopped` and `overdue` are `deleting`, `cancelled` and `late`.

### GraphQLHttp

`doFilter`, `invoke` and `LeaveFilter` are the servlet thread with its MDC;
`Register`, `StartFetcher`, `EndFetcher`, `EndExecution`, `Unregister` and
`executeCoroutine` are the coroutine; `cancel` and `cancelChildren` are the two halves of a
DELETE; `ClientGoes` and `Disconnect` are the loss of the client and Jersey's
ConnectionCallback. Jersey calls it when writing a response fails, which a suspended POST does not
try: `Disconnect` may happen, and need not. `executeCoroutine` answers with 503 whatever has a
CancellationException among its causes; a request that may throw one without being cancelled (a
resolver's timeout) is in `SelfCancelling`. The children of the `supervisorScope` are the data fetchers, one at a
time. Cancelling them leaves the scope active, so the query goes on with an error;
a batch that is running is itself such a child, and throws. A generated UUID is
the name of its request.

### ConsumeAsFlow

The fetch job, the monitor and the collector are three processes. `fetchLazy`
first prepares (gets a connection) and then executes, because `cancel()` reaches a
statement only while it executes. `delay` throws on a cancelled scope in the
second loop of the monitor too, so a query is cancelled at most once. A value
that arrives at a job after its cancellation is dropped.

### Paging

A row is what its paging fields are. `getPageCondition` holds of a row, for the token
in `pagingState`, when the row is beyond it in some field and equal to it in all
fields before. `extractor` gives a field's value back from the text in the token. The caller
(`ReadPage`) is external: it selects the rows that match, in the order of the
fields, cut off by a LIMIT, keeps the last row as the next token, and is finished when a page is
not full. `Insert` and `Delete` are other clients; `stable` is history: the rows that
were there all along.

## 3. The runs

| run | question | instance |
| --- | --- | --- |
| `ws_apollo` | every kind of frame and end of a flow: is the socket read one frame at a time, does it wedge, does a query stay unanswered, does anything outlive the socket? | 2 frames, 2 ids, one of them the UUID of a blank one, no result, one keepalive after the first, fair |
| `ws_reuse` | start, stop and restart under one id, with failures that cancel a query silently or the whole scope: does the connection implement `QueryLifecycle`? order, exact senders, one end per query, announced removals | 3 frames, 1 id, 1 result |
| `ws_transport` | graphql-transport-ws: initialised once or closed, no query before, even with queries that fail in their set-up and take the scope with them | 3 frames, 1 id, fair |
| `ws_upgrade` | whom does each query run for, who is turned away, who adds the mapping? | 2 upgrades, 3 messages on one connection, 2 credentials (symmetric), 2 changes of what is accepted |
| `sse_streams` | races for reservations, maps and streams: does the endpoint implement `StreamLifecycle`? one stream per token, operations inside their stream, found and authorized | 2 tokens, 2 ids, 2 streams, 2 POSTs, symmetric |
| `sse_live` | queries that never end by themselves: do a disconnection and a DELETE end them? | 1 token, 2 streams, 2 POSTs, fair |
| `http_cancel` | shared ids, a pooled thread, DELETE, lost clients, noticed or not, endless fetchers: who is registered, who gets a 503, and does what a cancellation reaches end? | 2 requests, one a batch, the other self-cancelling, 1 id, 1 thread, fair |
| `flow_cancel` | cancellation at every point of a collection, endless statements | 2 rows, fair |
| `paging` | every table, both directions, rows that come and go between pages: order and completeness | 3 fields of 2 values, pages of 2, 2 writes |
| `ws_complete_after_error` | finding, below | 1 frame |
| `sse_leftovers` | finding, below | 1 token, 1 stream, 1 POST |
| `flow_cursor_leak` | finding, below | 1 row |

**Why these bounds.** The races are between two of something: two frames, a query
and the one restarted under its id, two requests for one token, a DELETE and the
request that ends. A third frame is what the longest of them needs (start, stop,
start again under the same id); more frames repeat it, because a frame that has
been handled leaves only `queries` behind. One result separates the states before, at
and after a result; the code treats each result alike. The SSE runs do not bound the results. One
keepalive beside the one that goes with the acknowledgement is in the channel, or with the
consumer, at any of the moments at which one can be (`MaxKeepAlives`). Two ids show that an id does
not disturb another one. In `ws_upgrade` a message may be preceded by an init that was
refused and one that was accepted, which is as much as a connection remembers; one credential can
be revoked and accepted again while it is asked about. In `paging` the
field in the middle has one before and one after, and each table of eight rows is read in
up to five pages. The one thread of `http_cancel` is the hard case for its MDC,
as every request must reuse it. Safety does not rest on the bounds where it is
proved (section 5).

**Deadlock** is checked in `flow_cancel`, whose collections all end. It is off
elsewhere: a connection that is closed, or requests that are answered, really stop.

## 4. Fairness

Weak fairness of every coroutine step that is enabled: the dispatchers
(`Dispatchers.IO`, the WebSocket's own pool) run whatever is runnable, and nothing
in the code holds a thread for ever. A timer expires. Jetty completes the opening
of a connection, and a close that the server has begun (`session = "closing"`). A
disconnection of an event stream is noticed, because the keepalive fails to send: this
assumes a positive `keepAliveIntervalSeconds`, which is the default. That of a POST need not
be, so nothing is assumed of `Disconnect`; a coroutine the callback has cancelled goes on to its
end, as a DELETE that has found its scope or its operation goes on to cancel it (`cancelChildren`,
`CancelFound`). A statement that `cancel()` has reached ends, and so does a fetcher
whose coroutine is cancelled, since it is suspended or interruptible. Nothing is assumed
of clients: they may send nothing, never close, never cancel. Nothing is assumed of
queries in `sse_live`, `http_cancel` and `flow_cancel`, where they may run for
ever; `QueriesAnswered` is about flows that end, and says so by `QueryEnds`.
`ws_upgrade` and `paging` assume no fairness: their properties are safety. (That reading page by page
ends follows from `SeenInOrder`: no row is given twice, and every page that is not the
last is full.)

## 5. What is proved

All theorems hold for every value of the constants that satisfies the assumptions
of the module (`ASSUME`), which only say that bounds are natural numbers, that an
absent value is none of the present ones, and which values a mode can have.

- **`GraphQLWebSocketSafety`**: `TypeOK`, `OnlySuspendedSenders`,
  `OneFrameInFlight`, `FramesInOrder`, `NoOrphanQuery` and `AcknowledgedOnceAndFirst`,
  for any number of frames, ids and results, for any client, both sub-protocols and all
  ends of a query.
  None of the safety properties is inductive alone. That a frame is handled in
  order rests on there being one in flight; that holds only if a suspended sender is in the
  channel exactly once, or else it would be resumed twice; a query is found in the
  table only because the frame that started it was handled once, carried an id, and
  is not in the channel any more. `IInv` therefore adds: `EventsPending` (a
  coroutine has a message exactly while it is about to send one), `QueriesHaveIds`
  (the table leads to started queries with that id), `FramesCounted`,
  `FramesHandledOnce` (a query exists only for a frame that has left the channel),
  `ScopeEnds` (what a cancelled scope has ended) and `KeepAliveOnce`.
  Each conjunct has a lemma that every step preserves it, assuming the whole
  of `IInv`; steps that touch none of its variables are dealt with at once
  (`QuietLemma`), and the two lemmas about a longer and a shorter channel
  (`OneMoreSender`, `FewerSenders`) are shared. `AckInv` adds, on top of `IInv`, that
  `keepAliveStarted` is set once a frame was acknowledged, and that while a query
  of the newer protocol runs it is set.
  `DeadlineKept` is the safety of `InitDeadline`: the init timeout of an open connection
  is over only when it has closed it or the client has initialised it. It needs its
  hypothesis: under Apollo's protocol a query may run on a connection that was never
  initialised, and if it fails in its set-up, the scope it cancels has the timeout in it.
  TLC finds that behaviour.
- **`GraphQLWebSocketRefinement`**: `Implements`, that every behaviour of a connection is one
  of `QueryLifecycle`. The initial states correspond, and each step is, under the mapping,
  one of its actions or a stutter: there is a lemma for each action. They rest on
  `IInv` and on an invariant of what a coroutine can still say once the table does not lead to it
  any more (one message at most, and none once `late` counts one). With
  `LifecycleSafe`, proved of `QueryLifecycle` itself, it gives `Silence`, that is
  `RepliesEnd`. `Announced` is the action property `RemovalIsAnnounced`.
  `InKind` relates what is sent to what was asked: a reply is an error or one that
  the operation of its frame calls for, in the client's own vocabulary. It rests on
  `AskedOnTheWay` (a frame asks for the same in the channel, in the consumer's hands and as
  a query), on `KeepAlivesOnTheWay` (a keepalive, wherever it is, goes under a `connection_init`
  that was handled) and on nothing being said of a frame before it is handled.
- **`GraphQLUpgradeProofs`**: `TypeOK`, `MappedOnce`, `QueriesAuthorized`,
  `OwnCredentials`, `InitCredentialsFirst`, `RefusalsJustified`, for any number of upgrades,
  messages, credentials and changes. The invariant says what is known between the two
  calls of the authenticator (`AskingInv`), that the history covers the present
  (`HistoryInv`), and what each answer tells of the credentials asked so far (`FoundInv`).
- **`GraphQLSseProofs`**: `TypeOK`, `OneStreamPerToken`, `OperationsHaveStream`,
  `OperationsReachable`, `OperationsAuthorized`, for any number of tokens, connections,
  requests and ids. The invariant adds that a token is reserved or held by one
  connection, and never both (`TokensInv`), that exactly the open streams are published
  (`StreamsInv`), that an operation underway keeps its connection open (`PostsInv`) and
  its map in place (`MapsInv`), and that a principal is handed on (`PrincipalsInv`).
  `Implements`: every behaviour of the endpoint is one of `StreamLifecycle`. For
  that `RInv` adds that a stream of its own serves one operation (`ServedInv`), that
  a request has no operation id before it has found a stream (`UnnamedInv`), and that every
  entry of the maps is an operation that runs (`EntriesRun`, itself the theorem `Entries`).
  That last one is what makes a DELETE safe: it never finds anything but the operation that has the id
  now. `LateInv` says why one result at most is late (`OneLate`): an operation that has sent one is
  cancelled and before its next `yield()`. The maps a closed stream leaves behind (section 6) are empty for the same
  reason.
- **`PagingProofs`**: `TypeOK`, `SeenInOrder`, `NoRowSkipped`, for any number of fields,
  any integers in them, any page size and any writes. `ConditionLemma` is the heart of it:
  the condition holds of exactly the rows that are beyond the row of the token. The invariant
  adds that the token is the last row the caller was given, and that a stable row was given or is
  beyond it.
- **`GraphQLHttpProofs`**: `TypeOK`, `RequestsKeepIds`, `RegisteredRuns`,
  `ExecutingRegistered`, `CancelContained`, for any number of requests, threads,
  ids and DELETEs. The invariant adds that a thread has the id of the request it
  serves and none when idle (`ThreadHasOwnId`), that exactly launched requests have
  an id, that a running fetcher is not counted, and that only a
  disconnection cancels a coroutine (a DELETE cancels the fetchers).
- **`ConsumeAsFlowProofs`**: `TypeOK`, `HandedCursorClosed`, `NoNeedlessCancel`,
  for a result of any size. The invariant adds who owns the cursor
  (`CursorOwned`) and why the monitor leaves its loop (`MonitorLeft`).

Every safety invariant and action property that a run expects to hold has such a theorem, and so has
each of the two refinements.

**What liveness rests on.** Liveness itself stays with TLC (`DemandReturns`,
`QueriesAnswered`, `NothingOutlivesSocket`, `InitDeadline`, `StreamsEnd`,
`CancelledEnd` of an operation and of a POST, `ExecutingQueryCancelled`): TLAPS reasons neither about
ENABLED nor about fairness of this kind. But a liveness property of this code goes wrong in the
safety below it, when somebody forgets to do what another waits for, and that can be
proved for every instance. What is left to fairness is then that a coroutine that can run does.

| liveness (TLC, small instances) | safety it rests on (TLAPS, all instances) | says |
| --- | --- | --- |
| `DemandReturns` | `DemandPromised`, `ConsumerStays` | until the next frame is demanded, one coroutine is on its way there; if it is suspended in `send`, its message is in the channel, and the consumer has not finished |
| `QueriesAnswered` | `AnswerPromised` | a query that has an id is not cancelled, and goes on, or is suspended with its message in the channel, or the consumer has its COMPLETE or ERROR in hand |
| `NothingOutlivesSocket` | `Quiescence` | after the cancellation of the scope the channel stays empty, the consumer takes no message, and no frame, query or timer begins |
| `InitDeadline` | `DeadlineKept` | the timeout ends by closing, or because of an acknowledgement |
| `StreamsEnd` | `StreamsWindDown`, `StreamsEndAlone` | of a stream whose client has gone each step decreases `StreamStepsLeft`; once its scope is cancelled no operation joins it; it ends after all of them |
| `CancelledEnd` (SSE) | `OperationsWindDown`, `OneLate` | a cancelled operation sends at most the result that was past its `yield()`, stays cancelled, and each of its steps decreases `OperationStepsLeft` |
| `CancelledEnd` (HTTP) | `CancelledWindsDown`, `EndsFinal`, `AnswersStand` | each step of a coroutine the callback has cancelled decreases `StepsLeft`; no fetcher of it goes on, and its end is final |
| `ExecutingQueryCancelled` | `CollectionWindsDown`, `StatementInterrupted` | a cancelled collection has eleven steps left at most, each of which counts down; the monitor does not leave its loop before an executing statement was interrupted |

The first two hold while the scope is active: a query that fails in its set-up cancels it, and
`DemandReturns` and `QueriesAnswered` are then false of the code (section 6). `AnswerPromised`
excludes resolvers that throw a CancellationException of their own, for the same reason.
The measures are functions of the state that count the steps still to come; TLC checked
each of these statements on the instance of its run before it was proved.

## 6. Findings

Behaviours of the code that contradict what its comments or tests say; each has a
run that exhibits it.

- `ws_complete_after_error`: a failed subscription is answered with an ERROR *and* a
  COMPLETE. `catch` swallows the failure before `onCompletion` tests for it.
- `sse_leftovers`: a POST that has found a stream puts its map after the stream
  has removed it, and the entry stays for ever.
- `flow_cursor_leak`: a cursor that arrives after the cancellation is never closed.

Seen while modelling, and noted under `hazards`: a client that stops a query and starts another under the
same id may lose the second to the COMPLETE the first had already sent, which removes and cancels
it, unannounced (`LastEnd` of `QueryLifecycle`); a ping without a payload is answered
with an error; an exception while a query is set up cancels the connection's scope
and leaves the socket open and deaf, and under Apollo's protocol takes the init
timeout of a connection that was not initialised with it; a resolver that throws a CancellationException of its own leaves
its id taken; the init timeout may close a connection that was acknowledged after it had read
`keepAliveStarted`; the loss of the client of a POST need never be noticed while its query runs;
a DELETE between two data fetchers cancels nothing; requests that share an id hide each
other from DELETE; DELETE of an SSE operation reaches one of two under the same id;
`query.cancel()` is called once, so a cancellation that comes before the statement
executes waits for it; an empty batch is answered with 401. Two of these have
consequences that no property catches, because the code has them: a socket left open and deaf by a
failed set-up, and an acknowledged connection closed by the timeout.

## 7. What is not modelled

Pure I/O and wiring that runs once: Guice modules, Dropwizard factories, swagger,
Jackson modules, Maven files, the helpers for tests. The scripts in
`server/src/main/resources/swagger` are the minified distribution of swagger-ui, a
browser program of another project that is served as a file; nothing in them is logic
of this system. `config` runs once, before a request is served: a value that is
extracted before the module of the KMS reader is installed stays encrypted, with a
warning. The Timestream reporter and the interceptors of `metrics-guice` keep no state of their
own: a report is a conversion of one registry, written in chunks by one thread, and an
interceptor starts and stops a metric of a library around a call. `AdminAuthFilter` and
`PingResource` decide from one request. The contents of queries and
results, and with them everything graphql-java does between a request and its
events; scalars, the `@auth` directive and the conversion of errors are of that kind. Wording, logging, tracing. Time: an interval is a timer that may expire at any
moment, which includes every positive interval. Jetty, Jersey, jOOQ and kotlinx.coroutines
are modelled by what the code relies on, and marked external in the map.

## 8. Plan

The order is that of the risk: concurrent parts first, functions last.

1. *Done*: the concurrent components (WebSocket, upgrade, SSE, HTTP, flow) and paging, all
   with proofs of their safety; the life cycle of queries and that of event streams as abstract
   specifications that the WebSocket and the SSE endpoint implement; the safety under
   every liveness property.
2. `GraphQLHttp` and `ConsumeAsFlow` against abstract specifications of their own: a
   request that is answered once, a cursor that is borrowed and given back.
3. The composition of `GraphQLHttp` with the pool of servlet threads larger than one,
   and of a fetcher that is a `ConsumeAsFlow`: a DELETE or a lost client then has to
   reach the database.
4. Functions against reference definitions, over bounded inputs: `Configuration`
   (layers of overrides), `Reporter` (registries to batches of at most 100),
   `Scalars`.
