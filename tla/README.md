# TLA+ verification of pgfox

pgfox is a PostgreSQL connection pooler written in Go: many client sessions
share few server connections, transaction by transaction. This directory holds
TLA+ models of the parts of it in which goroutines meet, the TLC runs that check
them on small instances, and theorems proved with TLAPS for every instance.

All source paths below are relative to `src/pkg/pgfox/` unless they start with
`src/` or `docs/`.

## 1. The system

### Components, their state and how they interact

| Component | State | Operations | Meets others through |
|---|---|---|---|
| Client session (`client.go`, `server.go` `handleClient`) | pinned `backend`, `inTransaction`, `namedStmts`, prepared-statement maps, `listenChannels` | one goroutine per client: read a message, run a handler, clean up at the end | borrows from its Pool; may be closed by a listen monitor |
| Request handlers (`query.go`) | local `backend`, `wasPinned` | simple query, prepared DML, NOTIFY, extended pipeline with Sync or Flush, `reconcileConn` | Return / Release / SetBackend |
| Backend (`backend.go`) | socket, `client`, `Pool`, deployed statements | `Return`, `Release`, read and write of messages | `Pool.Queue`, `Target.CloseCh` |
| Pool (`pool.go`) | `Queue` (buffered channel), `All`, wake-up tokens | `borrowConn` with `borrow_timeout` | one per (database, user); created by `getPool` |
| Target (`target.go`) | `TotalOpen`, privileged connection, server statistics, `CloseCh` | one goroutine: `handleClose`, `growthCycle`, `healthCheck`, SCRAM lookups, drain | takes from every `Queue`, alone opens and closes pooled connections |
| LISTEN/NOTIFY (`listen_notify.go`) | `Server.Listeners`, per channel a `Listen` with `Clients`, `Backend`, `Done`; `Target.ListenOpen` | LISTEN, UNLISTEN, session cleanup, monitor goroutine with reconnect and failure | client goroutines and monitors share the map and the `Listen` |
| Statement multiplexing (`cache.go`, `query.go`, `extended.go`, `sync.go`) | `StmtCache`, `deployedStmts` per backend, per-client names | Parse/Bind/Describe/Close rewriting, deployment on demand | the same backend serves statements of many clients |
| Registry, reload, shutdown (`server.go`, `target.go`) | `Target.Pools`, `PoolRegistered`, `Clients`, wait group | `getPool`, `Reload`, `Shutdown`, drain | all the goroutines |
| Startup, authentication, cancellation (`startup.go`, `src/pkg/auth/auth.go`) | cancel keys, SCRAM verifiers | TLS and password negotiation, cancel routing | privileged connection of the Target |
| SQL parameterization (`parser.go`, `sync.go`) | a pooled `paramWorkspace` | `ClassifyAndParameterize` | its verdict chooses the path of a simple query |
| Wire encoding, config, certificates, metrics, logging | none shared | sequential code | – |

### What is hard here

* A backend is passed by pointer between a client goroutine, two kinds of
  channel and the target goroutine. Nothing but discipline keeps it in one place.
* The decision to return, keep or close a backend depends on the transaction
  status in the *last* reply, on `namedStmts`, on `wasPinned` and on which of
  five code paths served the request, each with its own error returns.
* Errors strike in the middle: server gone before the write, after it, in the
  reply; client gone while its reply is forwarded; timeout racing the reply;
  client closed by another goroutine.
* One goroutine grows, shrinks, recycles and reaps pools under one budget, from
  numbers it read at the start of its cycle, while the clients change them.
* A listen monitor is created by the first subscriber and torn down by the last,
  with the lock released between looking it up and joining it, and it reconnects
  on its own meanwhile.
* Borrowers and the target goroutine wake each other with tokens that are merged,
  dropped when a channel is full, and shared by all the pools of a target.
* Logins, probes and statistics take turns on one privileged connection, and each
  has its own idea of where a reply ends.
* pgfox imitates PostgreSQL in two places: it decides by a status byte and a
  command tag when a LISTEN takes effect, and it rewrites queries by looking the
  constants of the parse tree up in the text.

The full list, each at the line where it bites, is under `hazards` in
`PROJECT.json`.

## 2. Modules

| Module | What it is |
|---|---|
| `Pooling` | client sessions, handlers, backends, pools and the target goroutine; properties; mutated operators next to the originals |
| `Lease` | the abstract specification: what transaction pooling promises |
| `PoolingLease` | the refinement mapping from `Pooling` to `Lease` |
| `MCPooling` | the assignment of clients to pools and the symmetry set for TLC |
| `PoolingProofs` | `TypeCorrect`, `ExclusiveOwnership`, `BooksBalance`, `SendsNeverWait`, `NoConnectionLost`, `IdleConnectionsClean`, `RepliesReachTheirClient`, `TransactionsStayPut`, `PoolingImplementsLease` |
| `ListenNotify` | the monitor of one notification channel |
| `MCListenNotify` | its symmetry set for TLC |
| `ListenProofs` | `RegisteredMonitorRuns`, `ListenOpenSuffices`, `ListenTypeCorrect` |
| `Statements` | named statements shared over pooled connections |
| `MCStatements` | names, texts, hashes and pipelines for TLC |
| `StatementsProofs` | `StatementsTypeCorrect`, `DeployedIsExact`, `StatementsAreFound`, `TextsAreOwn` |
| `Lifecycle` | start, Reload, drain and shutdown against client sessions |
| `LifecycleProofs` | `LifecycleTypeCorrect`, `DrainSparesInUse`, `RemainingOpenExact`, `ReleaseFindsRoom` |
| `Startup` | a session from its startup message to its first request: Pool registry, access rules, privileged connection |
| `MCStartup` | keys, rules and roles for TLC |
| `StartupProofs` | `StartupTypeCorrect`, `RegistryAgrees`, `VerifiersAreOwn`, `LookupsFromCleanAreOwn` |
| `Wakeup` | the Demand and ConnReady tokens between borrowers and the target goroutine |
| `MCWakeup` | the assignment of clients to pools for TLC |
| `WakeupProofs` | `WakeupTypeCorrect` |
| `DeferredListen` | LISTEN and UNLISTEN in transactions, against PostgreSQL's own rules |
| `MCDeferredListen` | query strings for TLC |
| `DeferredProofs` | `DeferredTypeCorrect`, `StatusIsTheServers`, `SubscriptionsFollowCommits`, `NoStraySubscriptions` |
| `Parameterize` | the classification and rewriting of simple queries; texts and literals are parameters |
| `ParseTrees` | these parameters: parse trees, their text, and the walks over them |
| `ParameterizeProofs` | `ParameterizeTypeCorrect`, `RewritingKeepsStatements`, `OrderedLiteralsReplaced` |
| `MCParameterize` | the statements for TLC |

An operator whose comment begins with "Mutant of" is a plausible bug of the
operator that follows it; it is used by no specification, and shows, when it is put in its place,
that a property can fail.

### Pooling

A step is a stretch of code between two points where other goroutines can
interfere: a channel operation, a socket read or a socket write. One target is
modelled; targets share nothing that matters here.

*Clients.* `pc[c]` is the place in `handleClient` or in the handler, `held[c]`
the handler's local `backend`, `pin[c]`, `inTx[c]`, `namedStmts[c]` the fields of
`Client`, `job[c]` the request with its code path and `wasPinned`.

| Action | Code |
|---|---|
| `Accept`, `Disconnect`, `ClientDrops`, `Cleanup` | start, end and clean-up of `handleClient` |
| `HandleClientMessage` = `ExecuteQuery` or `ExecuteExtendedPipeline` | choice of the path; the pinned backend is used, or one is borrowed |
| `BorrowConn`, `BorrowWait`, `BorrowTimeout` | `borrowConn`: fast receive, wait, timer |
| `SendRequest`, `SendUnnoticed`, `SendFails`, `DeployFails` | the write: served, swallowed by a dead peer, failing (also on a live connection, when a message pgfox has rewritten exceeds `max_message_size`), failing while a statement is deployed |
| `ReadReply`, `ForwardFails`, `ReadErrorSimple`, `ReadErrorExtended` | the reply read to its end and reconciled; client gone half way; server gone, `query_timeout`, or a message of a length `ReadMessage` refuses, which the simple path reports and the prepared and extended paths turn into status 0 |
| `Return`, `Release`, `Pin`, `Unpin`, `Reconcile` | the operators named alike in `backend.go`, `client.go` and `query.go` |
| `FailListen` | `failListen` closing a client from outside |

*Server sessions.* `conn`, `tx`, `named` and `wire` are what PostgreSQL knows of
a connection: whether it lives, its transaction status, its passthrough named
statements and the replies not read yet. A reply carries the client it answers
(ghost data for `OwnReply`) and the status its ReadyForQuery reports.

*Target goroutine.* `tpc` is the place in its loop. `HandleClose`; `GrowthScan`,
`GrowRecycle`, `GrowFresh`, `GrowEnd`, `OpenOne`, `OpenFails`, `Shrink`,
`ShrinkEnd` for `growthCycle` and what it calls; `HealthStart`, `HealthTake`,
`HealthKeep`, `HealthReap`, `HealthEnd` for `healthCheck`; `UpdateServerStats`.

Abstractions: statement text, parameters and rows are gone, a request is one of
nine kinds; a reply is one message; `growthCycle`'s read of all the pools'
lengths is one step; the `Demand` and `ConnReady` tokens are left out, because
the borrower's `select` receives from the `Queue` itself (they are in `Wakeup`); NOTIFY is a query of a
single statement; identities of backends are reused once nothing refers to them
(`Unreferenced`); `reconcileConn`'s `SetBackend(nil)` and `Return` are one step
(`Unpin`): the only other goroutine that looks at the pointer is `failListen`, and
between the two lines it finds it cleared; the branch of `executeQuery` for a pinned
client without a backend (`query.go:544-557`) is left out: the pointer was not nil at
line 531, so it is reached only if `failListen` closes the client before line 543, and
the connection it borrows is released when its reply cannot be forwarded. pgfox's own
counters are not cut short: `MaxNamed` bounds only how many named statements the
clients parse.

### Lease, and how Pooling implements it

`Lease` knows clients and sessions only: `Open`, `Lend`, `Run`, `Answer`, `End`.
A session is lent only when it is idle, has no named statement and no unread
reply; only its holder runs requests and reads replies, its own; a client in a
transaction sends nothing on another session; a session is given back clean or
ends. In `PoolingLease` a session exists while its connection is open and not on
`CloseCh`, and is leased to the client that holds it or is pinned to it, whatever
channel or goroutine it passes through in between. `ImplementsLease` is then one
statement about all the paths of a request together, and about the steps in which
nothing visible may happen: growth, reaping, hand-over through the `Queue`.

### ListenNotify

`registered` is the entry of the channel in `Server.Listeners`; `subs` and
`backend` are fields of each `Listen`; `mpc`, `cur`, `todo`, `mtarget` are the
places and locals of the monitor goroutines. `Listen`, `Join`, `Dial`,
`DialFails`, `RegisterLate`, `Register` are `getOrCreateListen` cut at its locks;
`Unlisten`, `Cleanup`, `TearDown`, `TornDown` are `RemoveClientFromListen` and
`tearDownListen` on behalf of a client; `Loop`, `ReadNotification`, `Deliver`,
`DeliverFails`, `MonitorTearsDown`, `MonitorTornDown`, `FanOutEnd`, `ReadError`,
`Reconnect`, `StoreBackend`, `FailListen`, `FailClients` are `run` and what it
calls.

Abstractions: one channel, because channels share nothing but `ListenOpen`;
LISTEN and UNLISTEN outside a transaction (`DeferredListen` has the others);
`AtomicTotalOpen` is constant, so `MaxListen` is the room it leaves.

### Statements

`nameMap` and `namedStmts` are fields of `Client`, `cache` the keys of
`StmtCache`, `deployed` the `deployedStmts` of a backend, and `stmts` what its
PostgreSQL session really has. `known` records what a client was told is
prepared; with it `Sensible` says what a correct client sends.

| Action | Code in `query.go` |
|---|---|
| `ExecuteExtendedPipeline` | phase 1: names are mapped, messages rewritten, the statements a Bind needs are collected |
| `ExecuteAsPrepared` | the same for a parameterized simple query |
| `Acquire`, `AcquireFails` | phase 2 |
| `Inject`, `InjectFails` | phase 3.5: Parse and Sync for a statement the backend lacks |
| `Forward`, `ForwardFails` | phase 4: a Parse the backend does not need is skipped and acknowledged |
| `AnswerParse`, `AnswerUse`, `AnswerClose`, `AnswerError` | PostgreSQL; `ParseComplete` is pgfox's bookkeeping in phase 5 |
| `FinishSync`, `FinishFlush`, `Disconnect`, `Reap` | the end of a pipeline, a session, a connection |

Abstractions: a pipeline is about one named statement and Execute goes with its
Bind; it has the form drivers give it (`WellFormed`: a Parse comes first, a Close
last and not together with a Parse, and one Sync or Flush ends it); the unnamed statement, which pins its client, is left out; that
a connection serves one client is taken from `Pooling`, as are read errors after
the pipeline was sent; nothing but a Close takes a statement from a session
(`DISCARD ALL` and `DEALLOCATE ALL` are left out, see section 3); `DeployCount` and the other counters for metrics are gone.

### Lifecycle

`srv` is the place in `Start` and `shutdown`, `phase[c]` that in `handleClient`,
`tpc` that in `Target.run`, `rld` that in `Reload`. `registered` is
`Server.Clients`, `closed` the sockets shutdown has closed, `open` the sockets to
PostgreSQL. `StartReady`, `StartFails`, `AcceptNext`, `Accept`, `Shutdown`, `ShutdownEnd` are
`server.go`'s accept loop; `Register`, `Startup`, `ScramServed`, `ScramGivesUp`, `ScramExchange`, `Loop`,
`Cleanup` a session around its requests, and `HandleClientMessage`, `BorrowConn`,
`ReplyPins`, `ReplyReturns`, `ReplyFails`, `Release` a request; `DrainStart` to
`DrainEnd` are `drain`, cut where clients can come in between; `ReloadRemove`,
`ReloadDrained`, `ReloadTimesOut`, `ReloadRaise` are `Reload`.

Abstractions: one target and one pool; a growth cycle is one step; the outcome of
an authentication is left open, because `handleClient` serves the session in
either case as long as the error could be written; added targets, the moved
listener and a Reload during start are left out. `p.Targets` is changed by
`Reload` without a lock while `getPool` and `shutdown` iterate over it; the model
has the target's `Draining` flag instead, which is atomic.

### Startup

`who`, `pool`, `verifier` are a session's database and user, the Pool `getPool`
gave it and the verifier it got; `pools`, `registered`, `cached` are
`Target.Pools`, `PoolRegistered`, `CachedPools`; `wire` is what PostgreSQL has
sent on the privileged connection and nobody has read.

| Action | Code |
|---|---|
| `HandleStartupMessage`, `CheckAccess`, `HandleClientSCRAM`, `EndStartup` | `startup.go`; the rules are `config.go`'s and `checkAccess` |
| `GetPool`, `LoadOrStore`, `RegisterPool` | `getPool`, cut at its accesses to shared state |
| `FetchSCRAMVerifier` | case ScramCh of `Target.run`: the lookup, its reading loop, the answer |
| `GrowthCycle`, `HealthCheck`, `UpdateServerStats` | the tickers, as far as they touch the registry and the privileged connection |
| `ReplacePrivileged`, `PrivilegedLost` | the loss of that connection, its one replacement with `deployPrivilegedStmts` |

Each reading loop is given by the messages it stops at (`Ends`, `EndsLookup`). It
stops at the first of them (`EndAt`), or at any message when its read deadline passes
on a connection that is slow and not dead (`Stops`, fault `"late"`); what it leaves
(`LeftAt`) is the beginning of what the next one reads, and the connection is kept.
`marked` is what `deployPrivilegedStmts` and the lookups believe to be prepared; a
server may refuse any query (fault `"error"`), which ends the statistics and the
lookups before their ReadyForQuery. Abstractions: one target that
is not removed; the arithmetic of SCRAM; an exchange may end in any way and the
session goes on either way, as in `handleClient`; of the health check only
what concerns the registry and the privileged connection.

### Wakeup

Connections are numbers (`total`, `idle`, `closing`, `totalOpen`; the target's count
is that of the set `Numbered`, in which each has the number it has in its Pool), tokens are
`demand` (one at most) and `connReady` (at most MaxConnections), `reg` is how far
the registration of a Pool has come. `BorrowConn`, `ReceiveConn`, `WakeUp`,
`BorrowTimeout` are `borrowConn`; `TakeDemand` and `GrowthTick` start a
`growthCycle`, whose scan works on what it saw while `GrowNext`, `GrowBreak` and
`Shrink` run against clients that borrow and return. Abstractions: opening a
connection succeeds (refusals are in `Pooling`); the remembered peak of use is any
value between the present use and what leaves no excess; PoolRegistered has room.

### DeferredListen

`status` and `tag` are what `Client.WriteMessage` mirrors, `pending` and `channels`
the client's buffer and subscriptions. `tx` and `wire` are the server's session and
its reply, `rest` the statements of the query string it has still to execute. `want`
and `draft` run PostgreSQL's own rules beside it: the channels of the session, and those
it has if its transaction commits. `ExecuteQuery` sends a string, `Execute` is the server
with one statement of it (a COMMIT may fail), `Forward` passes the reply on, message by
message, with `resolvePendingListens` at the last, and `ApplyPending` is one round of its
loop; `BufferListen`, `ApplyListen`, `ListenFails` are `handleListen` and
`handleUnlisten`; `Intercept` is the pipeline that ends with a Flush. Abstractions: savepoints, which the comment of
`resolvePendingListens` leaves out too; the monitors behind a subscription.

### Parameterize

`Classify` chooses the path; `RewriteLiteral` is one round of `rewriteLiteralsWS`,
`RewriteEnd` its end; `PutParamWorkspace` empties the workspace the next query gets.
`Bound` is what the server makes of the rewritten text and the Bind: the reference is
the query as it was sent. What the parser and the walks make of a statement are the
parameters `TextOf`, `LiteralsOf` and `HasParam`; the run gives them the operators of
`ParseTrees`. There a statement is a tree: nodes with named clauses that hold nodes and
tokens. `Written` is the order of the clauses in SQL, `Walked` the order in which
`collectLiterals` goes through them, `Searched` where `containsParam` looks. Abstractions: characters (a token has a kind and a value; the digits of a name
or of a `$N` are its value, because `findNextLiteral` sees them as a number); the
parser. The split is there for the proofs: recursion over trees needs RECURSIVE
operators, which a module with theorems cannot reach, and the rewriting has no use for
the trees once the literals are collected.

## 3. Model checking

Passing runs:

| Run | Instance | Checks | Shows |
|---|---|---|---|
| `tx` | 2 clients, 1 pool, 2 backends, budget 3; simple queries, NOTIFY, pipelines with Sync or Flush, pinned or not; connections break | `TypeOK Exclusive QueueClean OwnReply Accounting NothingLost NeverBlocked TxRouting ImplementsLease` | transactions stay on their session, sessions are reused clean, no slot is lost or miscounted, no hand-over blocks; `Pooling` implements `Lease` |
| `named` | as above, passthrough named statements, Close, Flush, NOTIFY on a second connection; clients closed from outside, no breaks | `QueueClean ImplementsLease` | named statements pin until they are closed |
| `pools` | 2 pools, 5 backends, budget 5; openings refused | `Accounting NothingLost` | growth, recycling, shrinking and reaping against running clients |
| `live` | 2 clients, 1 backend; prepared DML, Flush, NOTIFY; connections break, openings are refused, the privileged one's replacement too | `Accounting RequestEnds PoolRecovers ReleasedIsClosed` | every request ends, also NOTIFY of a client that keeps the only connection after a Flush and waits for a second; an empty pool is refilled, a released connection is closed; the count is right with and without the privileged connection |
| `shared` | 2 clients, 2 backends; two shared statements and one that pins; statements refused, connections lost, borrowing timed out | `TypeOK DeployedExact StatementFound OwnText` | pgfox knows what each session has; a statement acknowledged to a client is found on any connection, with the client's text |
| `shutdown` | 2 clients, 2 backends, limit 1 raised to 3, target removed | `TypeOK InUseSpared RemainingOpen ShutdownEnds RemovedStops` | shutdown and removal end, unless the raised limit lets more be released than CloseCh holds; they spare connections in use and count what they leave open |
| `listen` | 2 clients, 2 monitors, 3 connections, all faults | `TypeOK RegisteredRuns Counted` | what `Listeners` holds is a working monitor; `ListenOpen` never falls behind |
| `startup` | 2 clients, 3 keys of which the rules deny one database, 2 addresses; a role that is dropped and created; the privileged connection dies, its replacement is refused | `TypeOK OwnVerifier PoolsAgree StartupEnds` | a session gets its own user's verifier; clients and target goroutine agree on the Pools; every startup ends |
| `wakeup` | 3 clients, 2 pools, budget 5 | `TypeOK WaiterServed` | who waits is served while there is budget, whoever takes the tokens |
| `deferred` | 1 client, 2 channels, 11 query strings, 3 buffered commands; sends, reads, COMMITs and monitors fail | `TypeOK SubscribedAsCommitted` | an idle client listens to what PostgreSQL would have it listen to |
| `rewrite` | 1 workspace, about 1900 statements in any order | `TypeOK SameStatement CanonicalForm` | a rewritten query is the client's query; its form depends on nothing but its literals' places |

*Why the bounds are enough.* Two clients and two backends give a waiter for every
holder, a thief for every returned backend and a second connection for the
pinned client that sends NOTIFY; a third client only repeats a role. Growth
recycles only from a pool with more than two idle connections, hence five backends with two
pools. In `ListenNotify` two clients give the last one leaving against the next
one joining, two monitors the old one stopping beside its successor, and three
connections a lost one, its replacement and a racing dial. In `Statements` two
texts for one name give the stale mapping, a third text the pinned client, and
two backends the one that lacks the statement; `MaxNamed` bounds the refused
passthrough Parses, which pgfox goes on counting. In `Lifecycle` two clients and
two backends give one connection that comes back before the drain and one after
it; a limit raised from 1 to 3 leaves CloseCh with room for one of them, so that the
second Release after the drain blocks. (The first limit has room for the privileged
connection only; with 2 raised to 4 and three backends the run passes as well, and two
clients never overfill CloseCh.) In `Startup` two clients give the race for a Pool and the lookup that follows
another's; `MaxUnread` = 4, the most that may be left unread, is more than any loop leaves
behind in that instance, so that it cuts nothing off.
In `Wakeup` the third client, of another Pool, takes tokens without using what
they stand for. In `DeferredListen` two channels tell UNLISTEN from UNLISTEN \*, and
three commands an order from a set. In `Parameterize` two values that repeat in
every clause give the literal that is met twice, and a statement after another the
workspace with something in it. Clients that are in
the same pool, and backends, monitors and connections, are interchangeable: they
are symmetric in the runs of `Pooling`, `Statements` and `ListenNotify` without liveness properties. `StatsReplies` empty
means the statistics query has not answered; `{"room"}` that the server has free
slots.

*Deadlock* is checked in all passing runs except `shutdown`, whose behaviours end
with the process, and `listen`, where the session names
of clients that a stuck monitor still refers to cannot be used again, so
the model may run out of them; the program does not.

*Fairness* (only `live`, `shutdown`, `startup` and `wakeup`). A goroutine that can go on does
(`WF` on its steps inside a request or a cycle); a Go timer fires (`WF` on
`BorrowTimeout`); the target's `select` picks at random among ready cases and its
tickers go on ticking, so no case is passed over for ever (`SF` on `HandleClose`
and `GrowthScan`); `healthCheck` handles at most the connections that were in the
Queue when it began (`SF` on `HealthEnd`). Clients, faults and the server owe
nothing, except that a server which got a request answers it or is dead
(replies are made together with `SendRequest`), and that a server which is asked
for a connection again and again does not refuse for ever (`SF` on `OpenOne`). In `Lifecycle` the same goes for
`Session` (a client's goroutine, except where it reads from its client), `Drain`,
the accept loop and `ReloadTimesOut`. In `Startup` a session's own steps are weakly
fair, and a lookup that waits for the target's `select` strongly. In `Wakeup` the steps
of a cycle are weakly fair, the ticker's case of the `select` strongly; so is the
receive of a waiting borrower, because Go serves the receivers of a channel in the
order in which they came. Nothing is assumed of the Demand case: the ticker alone
has to be enough. `ShutdownEnds` is stated for a shutdown that has closed the
sockets of all the clients accepted, and allows one other outcome: after a raised limit,
a session that waits for ever for room in CloseCh (`CloseChFull`). Both cases are
described below.

One run shows a disagreement between the code and its documents (`findings` has the
quotation):

| Run | What the code does |
|---|---|
| `two_owners` | A read error on the extended path is reported as status 0 without an error, and `reconcileConn` returns the backend while a client with named statements stays pinned to it. |

Further disagreements, each with the instance of its module that shows it:

| Change to the run | Violates | What the code does, and what is said of it |
|---|---|---|
| `tx` with `Requests = {"dml"}`, `Faults = {"timeout"}` | `QueueClean`, and `OwnReply` alone | `query_timeout` on the prepared and extended paths (`query.go:738`, `470`) returns a backend whose reply is still to come, and the next borrower reads it. `docs/architecture.md:183`: "it is removed rather than returned". |
| `tx` with `Requests = {"dml"}`, `Faults = {"oversize"}` | `QueueClean`, and `OwnReply` alone | A reply with a message longer than `max_message_size` (`backend.go:214`) ends the same two paths the same way: the rest of the reply stays on a live connection that is returned. |
| `shared` with `Texts = {t1, t2, x}`, `Hashes = {h1}`, `HashOf <- SameHash`, `CanonicalSQL <- CanonicalDistinct`, `Queries = {t1}`, `Faults = {}` | `OwnText` | A named statement with a literal is sent as it is, under the name of its canonical form (`query.go:189`); clients with another literal then run the first one's text. `README.md:27`: "Prepared statements are shared safely." |
| `listen` with `Faults = {}` and the invariant `Subscribed` | `Subscribed` | LISTEN looks the monitor up, unlocks and joins it after the last subscriber has removed it (`listen_notify.go:181`): acknowledged, and no notification ever arrives. |
| `named` with `Faults = {"closeSkipped"}`, `Requests = {"named", "close"}` | `QueueClean` | A Close the server skips is counted, and a session that still has the statement goes back to the Queue. |
| `named` with the invariant `NothingLost` | `NothingLost` | `failListen` closes the backend of a pinned client without `Release`; its slot is never freed. |
| `startup` with `Roles <- NoPassword`, or with `"error"` among the faults | `OwnVerifier` | `fetchSCRAMVerifier` leaves its loop at a NULL password (`target.go:370`) and at an error without reading on to ReadyForQuery: the next lookup ends at the old one, and every lookup after it gets the reply to the one before. |
| `startup` with `"late"` among the faults | `OwnVerifier` | The deadline of a lookup (10 s, `target.go:297`) or of the statistics (5 s, `target.go:709`) passes on a slow connection; the caller gives up (`target.go:338`, `751`), the connection is kept, and the late reply is taken for that of the next lookup. `target.go:288`: "queries pg_authid for the SCRAM verifier of username". |
| `startup` with `RegisteredCap = 1` | `PoolsAgree` | A Pool that does not fit into PoolRegistered is never registered again. `server.go:308`: "Channel full is benign - the target goroutine will pick it up on the next drain". |
| `startup` with `Faults = {"die", "silent"}` | `StartupEnds`, and deadlocks | The probe of a peer that does not answer is read without a deadline (`target.go:627`) and stops the target goroutine. `target.go:633`: "a dead or wedged TLS session can only be detected reliably by using it". |
| `rewrite` with `Statements <- Decoys` | `SameStatement` | In `SELECT ... FROM t1 WHERE id = 1` the digit of the name is taken for the literal, and a `$1` in LIMIT or FROM, which `containsParam` does not find, gets the value of another literal. |
| `rewrite` with `Statements <- Ordinals` | `CanonicalForm` | `GROUP BY 1` becomes `GROUP BY $1`, which no longer names a column. |
| `deferred` with `Strings <- Chained` | `SubscribedAsCommitted` | The tag of the last statement decides for the string: `COMMIT; SELECT 1` discards what was committed, `ROLLBACK; COMMIT` applies what was rolled back, and after `ROLLBACK; BEGIN` it stays in the buffer for the next transaction. |
| `deferred` with `"dialAtCommit"` among the faults | `SubscribedAsCommitted` | A LISTEN that was acknowledged is dropped when its monitor cannot be opened at COMMIT; it is logged only. |

The passing runs leave out the inputs behind these, and lost slots are not checked
where clients are closed from outside. They check everything else. `CanonicalForm` is
stated for queries without such tokens (`HasDecoy`) and without clauses the walk meets
in another order than the text (`Straight`): those fall back to the simple path, which
is slow and correct, and `SameStatement` is checked for them too.

The models contain these as well:

* A listen monitor stores a new backend after the teardown took the old one away
  (`listen_notify.go:118`): it reads on, and the teardown waits for ever.
* `fanOut` that fails to write to the last subscriber tears its own monitor down
  and waits for its own `Done` (`MonitorTornDown` with `mtarget[m] = m`).
* `failListen` deletes the entry of the channel even if a newer monitor holds it.
* `ListenOpen` is decremented only for backends with a `Pool`, which listen
  connections never have: it only grows, until no LISTEN is accepted.
* `Reload` promises that the transactions of a removed target are "force-closed"
  (`server.go:335`). `drain` closes what is in CloseCh and the Queue; connections
  that clients hold stay open, and those that come back after it are never
  closed. `t.Wg.Wait()` waits for nothing, as nothing is added to `t.Wg`.
* A client that asks a removed target for a verifier waits until the server
  stops (`startup.go:222` has no other way out).
* Shutdown does not close a client that was accepted and is not yet in `Clients`;
  it waits until that client sends something or leaves.
* A Reload that raises `max_connections` leaves the channels at their size: after
  the target has stopped, a release that finds CloseCh full blocks, and shutdown
  with it. `ShutdownEnds` names this outcome (`CloseChFull`), which occurs in the run;
  without it the property is violated.
* `growthCycle` leaves its loop when the budget is spent (`target.go:577`) before
  it tries to recycle, though the comments at lines 505 and 574 put recycling
  first: a contended pool then gets nothing while another pool is idle. This is
  why `WaiterServed` ends with "or the budget is spent".
* ConnReady is shared by all the Pools of a target: a token may be used up by a
  waiter of another Pool. The ticker of 50 ms then serves the one it was meant for.
* A privileged connection whose replacement failed is not tried again: every
  later login is refused (`StartupEnds` holds by refusal).
* A Pool is created and registered before the access rules are asked, also for a
  client they refuse; `targetServesDatabase` looks at a rule's databases only, so
  that a rule for some users decides for everybody whether the target serves a
  database. `docs/configuration.md:135` says a rule matches "when all of its
  specified fields match".
* Without a matching rule access is permitted; the comments at `target.go:29`,
  `target.go:173` and `config.go:100` say it is denied.
* An ErrorResponse of pgfox's own (`query.go:581`, `listen_notify.go:460`) is not
  followed by ReadyForQuery: the client of a simple query goes on waiting
  (`pc = "waiting"` in `DeferredListen`).
* A LISTEN takes effect after its COMMIT was answered, so a session does not get a
  NOTIFY of the same transaction; `docs/usage.md:128-130` says it does.

And these they leave out:

* A pipeline of more than 16 messages is resliced past its capacity.
* More than 65535 literals overflow the count of a Bind (`extended.go:129`); the
  model has the count, `CountRange` is never reached.
* Negative numbers and numbers written otherwise than the parser prints them are
  not found in the text, and the query falls back to the simple path.
* `UNLISTEN *;` is taken for a channel `*`, because the semicolon is not cut off
  before the comparison (`listen_notify.go:493`, `506`).
* A cancel request is recognised only if its length is 8 (`startup.go:29`); the
  protocol's is 16, so that the routing `README.md:31` describes is not reached.
* The `parameters` of a target are read from the configuration and not used.
* A Describe without Bind, on another connection than the Parse, fails: only
  statements a Bind needs are deployed (`query.go:216`).
* Two Parses of the same canonical text in one pipeline are both sent, and the
  second is refused; a passthrough Parse before a remapped one takes its place
  when ParseComplete is attributed.
* `DISCARD ALL` or `DEALLOCATE ALL`, sent as a simple query, empties the session and
  leaves `deployedStmts` as it was: a Bind that follows on this connection, of whatever
  client, names a statement that is gone.
* After a refused Parse the name stays mapped. Used again for a statement that
  passes through, it is rewritten to the old hash.
* A made-up ParseComplete is written before the replies to earlier messages of the
  pipeline.
* A Flush without Describe waits for a message that does not come.
* `DeployCount` is not raised on the extended path, though it is lowered when the
  connection is closed.
* `authenticateClientWithBackend` returns nil after it has sent a FATAL error, so
  that the session goes on.
* The comment at `server.go:339` says listen_addr changes are ignored; they are applied.

## 4. Proofs

Eight modules hold proofs. They assume only what the modules they are about assume of
their constants (`PoolingAssumption`, `ListenAssumption`, `StatementsAssumption`,
`LifecycleAssumption`, `StartupAssumption`, `WakeupAssumption`, `DeferredAssumption`,
`ParameterizeAssumption`): any sets of clients, backends, pools, monitors, names, texts,
keys, roles, channels and query strings, any budget, any access rules. All the theorems
are about `Spec`, and none uses fairness. Each inductive invariant was checked with TLC on
the instances of section 3 before it was proved.

Some theorems have provisos. Each of them excludes something that the code is known to
get wrong, and all but `WellFormed`, which is a limit of the model, can be lifted in an
instance of section 3 that shows it; none of them holds by the shape of the model.

| Proviso | Theorems | Without it |
|---|---|---|
| no passthrough named statements, or no broken connection, no query_timeout and no reply longer than `max_message_size` | those of `PoolingProofs` but `TypeCorrect` | run `two_owners` |
| clients are not closed by a failing listen monitor | `NoConnectionLost` | `named` with `NothingLost` |
| no query_timeout expires and no reply exceeds `max_message_size`; a Close that is sent is not skipped | `IdleConnectionsClean`, `RepliesReachTheirClient`, `TransactionsStayPut`, `PoolingImplementsLease` | `tx` with `"timeout"` or `"oversize"`, `named` with `"closeSkipped"` |
| `WellFormed`, in `StatementsAssumption`: a pipeline is about one statement, has at most one Parse and begins with it | `DeployedIsExact`, `StatementsAreFound`, `TextsAreOwn` | with several Parses a ParseComplete is filed under the wrong hash (`query.go:460-479`, `874`; hazard at `query.go:460`); not modelled |
| `DescribedInUse`: a Describe comes with a Parse or a Bind | `StatementsAreFound` | only a Bind's statements are deployed (`query.go:216`) |
| `OneKindPerName`: a name is used for statements that are shared or for ones that pass through, not for both | `StatementsAreFound`, `TextsAreOwn` | a refused Parse leaves its name mapped |
| `ParsedCanonical`: named statements have parameters and no literals | `TextsAreOwn` | `shared` with `SameHash` |
| `RoomToRegister`: PoolRegistered has room for all the keys that are served | `RegistryAgrees` | `startup` with `RegisteredCap = 1` |
| `RepliesReadToTheirEnd`: no role has a NULL password, no query is refused, no reply comes after its deadline | `VerifiersAreOwn` | `startup` with `NoPassword`, with `"error"` or with `"late"`; `LookupsFromCleanAreOwn` says what still holds |
| `EndsLast`: a query string ends a transaction only with its last statement | `SubscriptionsFollowCommits`, `NoStraySubscriptions` | `deferred` with `Chained` |
| no monitor is refused when a LISTEN is applied at COMMIT | `SubscriptionsFollowCommits` | `deferred` with `"dialAtCommit"`; `NoStraySubscriptions` says what still holds |
| `NoLookalikes`: no `$N` that `containsParam` misses, no name with the digits of an integer literal | `RewritingKeepsStatements` | `rewrite` with `Decoys` |
| `CountsFit`: fewer literals than the count of a Bind can say | `RewritingKeepsStatements` | more than 65535 overflow it (`extended.go:129`) |

### Pooling

**`TypeCorrect`**: `TypeOK`. It is not inductive: a handler that reads dereferences
`held[c]`, and `Reconcile` then stores it. `TypeInv` adds `HeldWhileServing` (a
backend is held exactly while a request is sent or read), which is the fact that the
handlers never work on a nil backend.

**`ExclusiveOwnership`**: `Exclusive`. The invariant `ExclusiveInv` adds
* `PinsKnown`: a pinned backend knows its client, so `Release` clears the right
  pointer;
* `BorrowedApart`: a handler that neither found nor set a pin works on a backend
  its client is not pinned to, so returning it leaves the pin alone;
* `Silent`: a session that ended has no replies, so a reply with a status
  comes from an open one;
* `Unbroken`, under the second alternative: owned and idle connections are open;
* `NoNamed`, under the first: `namedStmts` is 0, so the default case of
  `reconcileConn` unpins.

The hand-overs are lemmas of their own (`ReturnExclusive`, `BorrowExclusive`,
`TakeExclusive`, `PutExclusive`, ...), and each action cites the one it performs.

**`BooksBalance`** (`Accounting`), **`SendsNeverWait`** (`NeverBlocked`). `BookInv` is
`Homes` (a connection is in the All of the Pool it was opened for and of no other),
`Placed` (what is in a channel, in the target goroutine's hand or with a client is in
the All of its Pool) and `Budget` (`TotalOpen` is the number of connections in the
Alls and the privileged one, and between the decision to open and `openOne` there is
budget). With exclusive ownership the client's own
connection and those in the channel are different members of at most MaxConnections:
a channel of that capacity has room.

**`NoConnectionLost`** (`NothingLost`). `PinInv` adds that `Backend.client` and
`Client.backend` agree, and that a handler works on the pinned backend or its client
has none: so whatever a step lets go of has a place to be found in.

**`IdleConnectionsClean`** (`QueueClean`), **`RepliesReachTheirClient`** (`OwnReply`),
**`TransactionsStayPut`** (`TxRouting`, an action property). The invariant `CleanInv`
ties what pgfox believes of a session to what PostgreSQL knows of it:
* `Wires`: a live connection that is read carries one reply, its reader's, with the
  status the session is in; all others carry none;
* `TxKnown`: `inTransaction` is set while the pinned session is in a transaction,
  except between a request that may begin one and its reply;
* `NamedBound`: `namedStmts` is at least the number of the session's passthrough
  statements, give or take the one the request in flight is about;
* `IdleFresh`, `BorrowedFresh`: idle sessions, and borrowed ones before their first
  request or after one that cannot begin a transaction, have no transaction and no
  statements;
* `Handlers`, `Stale`, `Ended`: which backends a handler may work beside, what a
  client that was closed from outside leaves behind, and what a session that ended is.

**`PoolingImplementsLease`** (`ImplementsLease`): `Spec` implies `Lease!Spec` under the
mapping of `PoolingLease`. Every action is shown to be a step of `Lease` or a stutter
(borrowing is `Lend`, a request `Run`, a reply with what `Reconcile` makes of it
`Answer` or `End`; `openOne` is `Open`; `Release`, a loss, and the closing of an idle
connection are `End`; the rest stutters), from `SafeInv`, which is all of the above but
`PinInv`.

### ListenNotify

**`RegisteredMonitorRuns`**: `RegisteredRuns`, under all faults. `ListenInv` adds the
types and `OpenedFirst` (a goroutine that registers a monitor has a connection in its
hand). The argument is that the entry is deleted under the same lock that finds the
last subscriber gone, before anything of the monitor is taken away, and that a monitor
fails only after it has deleted the entry. **`ListenTypeCorrect`** comes with it.

**`ListenOpenSuffices`**: `Counted`, under all faults. Every open listen connection is
that of a client about to register or of a running monitor (`OpenOwned`), a monitor
reconnects or gives up only after its connection was lost (`LostBefore`), and each of
these clients and monitors is in the count (`OwedCounted`).

### Lifecycle

**`LifecycleTypeCorrect`**, **`DrainSparesInUse`** (`InUseSpared`),
**`RemainingOpenExact`** (`RemainingOpen`), **`ReleaseFindsRoom`** (`RoomToRelease`), without proviso. `LifecycleInv` adds that a
handler at work has a connection, and `Apart`: no connection has two users or is both
idle and about to be closed, and what is idle or about to be closed is open. Hence
each closing step closes one open socket and lowers `TotalOpen` by one, at whatever
point of a drain it comes. `RoomToRelease` is the part of `ShutdownEnds` that does not
need fairness: as long as the limit is the one CloseCh was made for, a session that
releases a connection finds room for it, whether the target runs, drains or has
stopped. `Budget` gives the reason: fewer pooled connections are open than CloseCh has
places, and the one in the session's hand is not among those in CloseCh.

### Statements

**`StatementsTypeCorrect`**, **`DeployedIsExact`** (`DeployedExact`), for pipelines that
are `WellFormed` and without other proviso.
`ExactInv` says of a handler at work what its pipeline looks like, what of it the
server has still to answer, and that `sentParseHashes` is in step with that; so each
ParseComplete is filed under the hash that was parsed, and none is lost.

**`StatementsAreFound`** (`StatementFound`). `FoundInv` adds that no connection is in
two hands; that the passthrough statements a client knows are in the session it is
pinned to (`OwnKept`) and are counted (`OwnCounted`), so that the pin is not given up;
and that what a pipeline uses is parsed by it, will be deployed before it, or is the
client's own (`Planned`, `Found`).

**`TextsAreOwn`** (`OwnText`). `TextInv` adds that sessions have shared statements in
their canonical form only, and that this form is what a client that knows one has
parsed.

### Startup

**`StartupTypeCorrect`**, without proviso: a session that has begun knows its key, what
it registers is a Pool, and none is past `getPool` without one.

**`RegistryAgrees`** (`PoolsAgree`). `PoolsInv`: a Pool is stored under its own key,
which the rules let be served (`Made`); who registers has made and stored its Pool, and
it is not in PoolRegistered or CachedPools (`Creating`); what is there is stored, and
nothing twice (`Listed`); what is stored is there or about to be sent (`Told`); what
sessions have is stored (`HandedOut`). The keys of the Pools in PoolRegistered are
different, so that an injection into the served keys shows that there is room
(`RoomLeft`). The access rules are not looked into: the theorem holds whatever they are.

**`VerifiersAreOwn`** (`OwnVerifier`). The invariant `VerifierInv` is that nothing is
unread between two users of the privileged connection, and that its statements are
prepared while it is open; every loop then stops at the end of the reply to its own
query.

**`LookupsFromCleanAreOwn`** (`LookupsAreOwn`, an action property), without proviso: a
lookup that finds nothing unread gives its session the verifier of its own user or none,
whatever is refused, NULL, late or lost while it runs. So what is left unread by an
earlier user is the only way to another user's verifier.

### Wakeup

**`WakeupTypeCorrect`**: `TypeOK`, which is more than types: every connection of a Pool
is idle, held or on its way to be closed, and `TotalOpen` is the number of all of them
and stays within the budget, whatever the growth cycle's stale scan makes it open or
close. The invariant adds that what is counted is finite, so that no bound on the
clients or the pools has to be assumed.

### DeferredListen

**`DeferredTypeCorrect`**, and **`StatusIsTheServers`** (`StatusKnown`): whenever the
client may send its next request, the status byte `handleListen` goes by is that of its
session. Both hold without proviso, also for the strings in `Chained`. `WireInv` says that
nothing but the last message of a reply is a ReadyForQuery, and that it carries the
status the server is in.

**`SubscriptionsFollowCommits`** (`SubscribedAsCommitted`). `ListenInv` follows the buffer
through a transaction:
* `Working`: while it is open, the client has the channels PostgreSQL has, what the
  buffer would make of them is what PostgreSQL would have after a COMMIT, and no COMMIT
  is on the wire or in `tag`;
* `Ended`: once the server has ended it and the client does not know yet, either it was
  not committed and the buffer is empty or will be discarded, or it was committed and
  COMMIT will be the tag in force when the ReadyForQuery comes;
* while `resolvePendingListens` is in its loop, what is left of the buffer leads to what
  PostgreSQL has.

What a buffer leads to is given in closed form (`Effect`: a channel is in if a LISTEN
of it is not cancelled by a later UNLISTEN, or if it was in and nothing cancels it), with
lemmas on what a command more at its end or one less at its beginning does.

**`NoStraySubscriptions`**: if a LISTEN cannot be applied at COMMIT, the client misses
channels, but never has one that PostgreSQL would not give it, and its buffer is empty.
The same invariant shows both: equality is weakened to inclusion if that fault is possible
(`Agrees`).

### Parameterize

All three hold for any statements, texts and literals; what the walk over the tree
collects is a parameter.

**`ParameterizeTypeCorrect`**: `TypeOK`, without proviso. The scan stays in the text and
rewrites it token by token, each literal is used up once, and the workspace that goes
back to the pool is empty.

**`RewritingKeepsStatements`** (`SameStatement`), in whatever order the walk met the
literals. `Used` says that the values are those of the first literals and the others are
still to come, `SameInv` that each token written so far is the one of the text, or a
parameter whose value stands there.

**`OrderedLiteralsReplaced`** (`LiteralsReplaced`), without proviso: if each literal is
the first token taken for it after the one before (`Places`), the query does not fall
back to the simple path, and its text has `$k` in the k-th place and nothing else
changed. This is the part of `CanonicalForm` that does not depend on trees. The
other part, that `Places` is not empty for a statement that is `Straight` and has no
decoy, was checked with TLC on the statements of `rewrite`, as were `NoLookalikes` and
`CountsFit`; some of these statements have no places, so the theorem's
hypothesis is not always true either.

### Only model-checked

* The liveness properties `RequestEnds`, `PoolRecovers`, `ReleasedIsClosed`,
  `ShutdownEnds`, `RemovedStops`, `StartupEnds`, `WaiterServed`: fairness and ENABLED
  are beyond this prover.
* `CanonicalForm` of `ParseTrees`: trees need RECURSIVE operators, and what they compute
  needs induction over data. `OrderedLiteralsReplaced` is what is proved of it.

## 5. What is not modelled, and the plan

In this order:

1. The budget shared by pools and listen connections (`AtomicTotalOpen`,
   `ListenOpen`), composing `Pooling`'s counters and `ListenNotify`'s.
2. `Statements` with several statements per pipeline and the unnamed statement.
3. Cancellation: the keys and the backend a request is routed to.

Not modelled, and not planned: the wire encoding (byte layouts of single messages; messages are
abstract in the models), configuration parsing and validation, certificates, metrics,
logging (I/O without shared state), TLS negotiation, and the arithmetic of SCRAM.
