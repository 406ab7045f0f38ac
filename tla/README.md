# A TLA+ model of the server

The repository is a multi-threaded HTTP server: a main reactor accepts
connections, one sub-reactor per hardware thread runs them on edge-triggered
epoll, and a pool of DB threads does the blocking work with MySQL and Redis.
This directory models what the server does with its state, checks the models
with TLC on small instances, and proves the safety of its concurrent core with
TLAPS for every size.

Paths below are relative to the root of the repository.

## The system and its parts

| Part | Code | Shared state | Modelled by |
| --- | --- | --- | --- |
| main reactor | `EventLoop`, `Acceptor`, `Server::newConnection`, `Server::sweepIdle` | `connections_` under `connMtx_` | `Reactor` |
| sub-reactors | `EventLoop`, `Epoll`, `Channel`, handlers of `Connection` | a `Connection` and its `Channel`, `connections_` | `Reactor` |
| input of a connection | `handleMessage`, `processRequests`, `findHeader`, `requestContentLength`, `wantKeepAlive` | `inputBuffer_` | `HttpFraming` |
| output of a connection | `sendResponse`, `sendFile`, `writeFromBuffer`, `handleWrite`, `sendHttpResponse` | `writeBuf_`, the socket | `ResponseStream`, `OrderedResponses` |
| DB tasks | the lambdas of `handleRegister`, `handleLogin`, `handleProfile`, `handleLogout` | both pools, the users table, the cache and the sessions | `DbTasks` |
| connection pools | `MysqlPool`, `MysqlGuard`, `RedisPool` | `pool_`, `cv_` | `ConnPool`, `MysqlPool`, `RedisPool` |
| thread pools | `ThreadPool`: `thPool_` runs the loops, `dbPool_` the DB tasks | `tasks_`, `stop_`, `cv_` | `ThreadPool`, `TaskPool` |
| the process | `main`, `Server::Server`, `Server::stop`, the order of `Server`'s members | both thread pools, the quit flags | `Shutdown` |
| value parsers, rate limit, configuration, logging, addresses, test client | see [Not modelled](#not-modelled) | | |

`PROJECT.json` lists every part with its status, every hazard at its line, and
the lines each definition translates.

The modules meet at these seams:

* `DbTasks` instantiates `RedisPool` and `MysqlPool` and performs their actions;
  that it uses them by their specifications is a checked and proved refinement
  (`RedisPoolUsed`, `MysqlPoolUsed`), so that the theorems about the pools carry
  over.
* `Shutdown` instantiates `TaskPool` twice, as `thPool_` and `dbPool_`;
  `ThreadPool` is proved to implement `TaskPool`. That DB tasks end, which
  `Shutdown` assumes, is `TaskEnds` of `DbTasks`.
* `ResponseStream` takes from `Reactor` that an armed `EPOLLOUT` is reported
  (`NoLostWakeup`), and `Reactor` leaves the contents of requests and responses
  to `HttpFraming` and `ResponseStream`.

## Modules

### Reactor

A client, its socket, its `Connection` and its `Channel` are one value `c` of
`Conns`. The state falls into three groups:

* the kernel (external): what the peer did, the receive and send buffers, the
  descriptor table `fdTab`, the registered mask `interest` and the ready list
  `rdy` of edge-triggered epoll. `EPOLL_CTL_ADD` and `MOD` look at the socket
  again and queue an event; `epoll_wait` takes up to `kMaxEvents` items off the
  list;
* the objects: `obj` says whether a `Connection` is alive or freed, `fdOf` is
  its descriptor number, `events`, `revent`, `inEpoll`, `input`, `wbuf` and
  `idle` are its fields;
* the threads: `mpc`, `mconn` and `todo` of the main reactor, `batch`, `rpc`
  and `rcur` of each sub-reactor, `tasks` of the DB workers.

`newConnection` is four steps (`AcceptConnection`, `RegisterChannel`,
`SetInEpoll`, `InsertConnection`), because the sub-reactor can run between any
two of them. `sweepIdle` is one step per entry for the test and one for the
`shutdown()`, under `connMtx_`. A handler runs `HandleWrite` or
`HandleMessage`, then one step per request, then `DeleteConnection` where the
code calls the delete callback.

A request is counted, and its route, its `keepAlive` flag and its outcome are
chosen when it is dispatched. A response is pending or not, and closes the
connection or not. A write may fail on a healthy socket too, since `sendfile()`
returns 0 for a file that was truncated. `missed` marks a connection that was
given up while `connections_` lacked it, so that the delete callback erased
nothing: it lives on, until a later write succeeds or fails or the sweep comes.
`TouchFreed` is the loop of `processRequests` on a freed
object: undefined behaviour, so the handler ends or the process dies.

### HttpFraming

One client's byte stream and the `inputBuffer_` it is read into. A byte is CR,
LF, or one of a few others; at the start of a header line, three of those stand
for the fields the code looks for (`Content-Length` 1 or 2, `Connection:
close`), elsewhere they are ordinary bytes. `HandleMessage(n)` reads any number
of bytes that have been sent, so TLC tries every way to cut a stream into reads.
Then one turn of the loop of `processRequests` is one step: `IncompleteHeader`,
`RejectHeader`, `RejectBody`, `IncompleteBody` or `TakeRequest`, which between them
are all its exits. A rejection, like a request that asks for `close`, closes the
connection or not (`closes`): not while its response waits for `EPOLLOUT`, and not
when the delete callback misses. Reading then goes on, and the next bytes are
framed from where the rejection left off. The string functions are operators on
sequences; the reference they are checked against is the stream itself. `log`, a
history variable, has an entry for each part taken from the buffer: where in the
stream it began (`at`), its bytes (`text`), and whether it was dispatched or
answered 400 or 413 (`code`). `wantKeepAlive` is also false for a request without
the field that does not say `HTTP/1.1`; the loop ends in the same way, and the
`Connection: close` of the model stands for both.

### ResponseStream and OrderedResponses

One connection's output. A response is three units, a header and two of body;
`write()` and `sendfile()` take any number of units that fit into the send
buffer, or fail. `WriteFromBuffer` is one turn of the loops of
`writeFromBuffer`, with its `EAGAIN`, error and end-of-data exits. A DB worker
(and a handler that refuses a request) writes directly, gives up at `EAGAIN`,
and runs at any time between two steps of the reactor. The static file is opened
once and may be truncated later; the idle sweep may shut the socket down in the
middle of a response. `Pipelining` says whether the client sends requests
without waiting for responses.

`OrderedResponses` is the promise: the client is given the responses to its
requests, whole and in order, until the connection is closed. `Implements`
states that `ResponseStream` without pipelining keeps it.

### DbTasks

Each worker of `dbPool_` runs the task of one request after the other. A step is
a critical section of a pool, a command that Redis carries out, a query that
MySQL carries out, or what follows a reply up to the next of these. Both servers
are external and may fail at every step: Redis goes down and comes back, loses a
connection before or after it acted, refuses a command with an error reply, and
lets keys expire; MySQL restarts, after which the pooled handles are dead for
good, and loses the result of a `SELECT` or the acknowledgement of an `INSERT`.
The table's `UNIQUE` key on `username` is taken from `README.md:46`.
Credentials and tokens are those the parsers and `checkCredentials` let through.
`drawn`, `handed`, `ended` and `winners` are history variables.

### ThreadPool and TaskPool

`ThreadPool` has a step per critical section of `tasks_mtx_`, and separate
steps for the notifications, which the code sends after unlocking. Every call
of `add` has a state of its own, since callers are different threads. Waits may
wake up spuriously. `TaskPool` is the promise, without mutex or condition
variable: a task is accepted or its call throws, accepted tasks start in order
and once each, no more run at a time than there are threads, and the destructor
outlasts them. `Implements` states the refinement, mapping the queue to
`pending` and the state of calls and workers to `status`. A call of `add` on a
pool whose destructor has returned is outside this model (guard
`dpc # "returned"`); whether the server makes such a call is asked of
`Shutdown`.

### ConnPool, MysqlPool, RedisPool

`ConnPool` holds what the two pools share: the queue, `getConn` with its timed
wait, `releaseConn`. Both pools notify while they hold the mutex, so putting a
connection back and waking a thread is one step. `wait_for` tests its predicate
once more at the timeout (`Expire`). `RedisPool` adds Redis going down and up,
and `discardBrokenConn`, whose replacement may fail to open or may have the
address of the connection just freed. `lost` is a history variable that counts
connections that could not be opened.

### Shutdown

`main`, from the construction of the server to the end of the process, with the
loops of the sub-reactors as tasks of `thPool_` and requests as tasks of
`dbPool_`. `stop` sets one quit flag after the other; a loop sees its flag only
between two batches of events. `Destruction` is the reverse of the order of the
members in `Server.h`, with the logger at the end; the destructor of a pool
closes it and then joins. An `add` on a stopped pool throws, and the exception
ends the loop (it is kept in the `packaged_task`). An `add` on a destroyed pool
is undefined: it throws, returns, or ends the process.

## Runs

State counts are TLC's distinct states (of symmetry classes in `dbtasks`).

| Run | Instance | Checks | States |
| --- | --- | --- | --- |
| `reactor` | 2 clients, 1 descriptor, 1 sub-reactor, 2 requests of one client, fair | ownership of descriptors, channel pointers, the sweep, wake-ups, who destroys; closed peers are reclaimed, requests read, the backlog served | 207,064 |
| `threadpool` | 3 workers, 4 tasks, fair | wake-ups, each task once, refinement of `TaskPool`; accepted tasks run and the destructor returns if tasks end; a queued task gets a free thread | 129,128 |
| `redispool` | 3 threads, 3 connections, 4 addresses, fair | exclusive use, accounting, wake-ups, broken connections; `getConn` returns | 13,196 |
| `dbtasks` | 2 workers, 2 MySQL connections, 1 Redis connection, 1 name, 2 passwords, 2 tokens | order of waiting, racing registrations, cache, tokens, one answer, outages, refinement of both pools | 1,978,142 |
| `dbtasks_live` | 2 workers, 1 connection of each kind, 1 token, fair | every task ends | 239,405 |
| `framing` | 7 tokens (up to 14 bytes), header limit 4, body limit 1 | framing, no request waits, causes of rejections | 3,287,295 |
| `stream` | 3 requests, send buffer of 2 units, no pipelining, fair | refinement of `OrderedResponses`, what direct writes give up, closing, completion of buffered responses | 23,408 |
| `shutdown` | 2 sub-reactors, 1 DB thread, 3 requests, batches of 2, fair | users joined before what they use is destroyed, accepted requests answered, the process ends | 101,188 |

Four more runs check what a comment says and find it violated; see
[below](#where-the-code-and-its-comments-disagree).

### Why the bounds are enough

* `reactor`: one descriptor number and two clients is the smallest instance in
  which a number is reused; a request lets a DB task outlive its connection and
  a write meet a full buffer, and a second one waits behind that write, where
  `handleEvent` drops the read half of an event. One descriptor never has more
  channels ready than `epoll_wait` returns: for that case there are the theorems,
  which cover every size. The four invariants were also checked with two
  descriptors, `kMaxEvents` 1 and two requests of either client (10,193,511
  states, too many for the liveness properties).
* `threadpool`: one task more than there are threads, so that a task waits
  although every thread is taken.
* `redispool`: the server has 4 DB threads and 8 connections per pool. As many
  connections as threads is the boundary of `WaitsOnlyIfShort`, and one address
  more lets a replacement have a new one. Fewer connections than threads
  arises when some cannot be opened.
* `dbtasks`: a MySQL connection for each worker lets two registrations of a name
  stand between their `SELECT` and their `INSERT` at once; instances with fewer
  connections are among the initial states. Two tokens are two logins, whose
  cache writes and sessions interleave. `dbtasks_live` has one connection of
  each kind, where waiting is worst.
* `framing`: 14 bytes hold two requests, a body, a terminator cut in two,
  headers on both sides of the limit, and a request behind a rejected one.
* `stream`: the send buffer is smaller than a response and larger than a header,
  so `EAGAIN` meets every part; three requests let an earlier response disturb
  one after the next.
* `shutdown`: two loops, so that one can be stopped while the other is not, more
  requests than DB threads, and batches that outlast the setting of the flag.

`framing`, `stream` and `shutdown` do not check for deadlock, because their
systems stop: the client has nothing more to send, the connection is closed, the
process has ended.

### Fairness

* `Reactor`: weak fairness of each thread. Strong fairness of `DeleteConnection`:
  a sub-reactor blocked on `connMtx_` gets it in the end, because the main reactor
  gives it up after every sweep, as a rule for the whole of an `epoll_wait`. While
  `accept()` fails with `EMFILE` the listening socket stays ready and `epoll_wait`
  returns at once, so then it is a mutex that is taken and given up again and
  again, and the assumption is about the mutex. Strong fairness of `WriteRest`:
  a response is finite, and each write there is room for takes some of it. That
  connections become idle as time passes (`TimePasses`) is a hypothesis of
  `ClosedPeerReclaimed` and `BacklogServed`. Nothing is assumed of clients.
  Clients send a bounded number of requests, so each goes quiet in the end:
  `BacklogServed` says nothing of clients that keep all descriptors busy for
  ever.
* `ThreadPool`: weak fairness of each thread, nothing of tasks. That tasks end
  (`TasksEnd`) is a hypothesis of the two properties that need it.
* `RedisPool`: only that the timeout of `wait_for` expires.
* `DbTasks`: weak fairness of each worker and of the timeout. It includes that a
  server answers a command or its connection breaks: neither `redisCommand` nor
  `mysql_query` is given a timeout, so this is the network's doing and not the
  code's.
* `ResponseStream`: weak fairness of the reactor, of direct writes, and of a
  client that reads; it need not send, and nobody has to close.
* `Shutdown`: weak fairness of the main thread, of the DB threads and of each
  loop; `epoll_wait` returns after a second at most.

## Where the code and its comments disagree

Four runs check what a comment says, and TLC finds a behaviour of the model that
contradicts it. None was reproduced on the running server.

| Run | Claim | What happens |
| --- | --- | --- |
| `reactor_freed` | `src/Connection.cpp:758-760` | a keep-alive response whose write fails destroys the connection, and `processRequests` continues on it |
| `reactor_stale_fd` | `src/Connection.cpp:278` | a DB task outlives its connection and writes to the client that got the descriptor number next |
| `stream_pipelined` | `src/Connection.cpp:755-757` | with pipelined requests a response overwrites one that is partly sent, and direct writes overtake or interrupt buffered ones |
| `shutdown_freed` | `src/include/Server.h:31`, `test/server.cpp:34-35` | `dbPool_` is destroyed first, while a loop is still handling its last batch and submits to it |

Six more disagreements came up that have no run of their own:

* `src/Connection.cpp:748-749` says `'this' destroyed` after the delete callback.
  The channel is registered before the connection is in `connections_`, so an
  end of stream handled in between erases nothing. `Reactor` records it
  (`missed`), and `ClosedPeerReclaimed` shows that the sweep reclaims the
  connection later. The same holds of the failed write in
  `src/Connection.cpp:412-413` and `432-433`: a response that was being sent stays
  unsent on a connection that looks open, which `NoLostWakeup` has to exempt.
* `src/Connection.cpp:775` and `788` say `return; // closing` after a 400 or 413.
  The response closes the connection when it has been sent: while it waits for
  `EPOLLOUT`, or when the delete callback misses, the connection is read on, and
  the body of the rejected request is framed as further requests. `Framed` and
  `RejectedForCause` state what holds then: no byte is lost or taken twice, and
  each later rejection has its own cause.
* `src/RedisPool.cpp:57-58` says a broken connection is replaced `so the pool
  does not shrink`. When the replacement cannot be opened nothing tries again.
  `lost` counts these, and `GetConnReturns` shows that callers fail instead of
  hanging.
* `src/include/RedisPool.h:16` says `NotFound` means `command succeeded but key
  does not exist`. `get` and `del` also return it for an error reply, and a valid
  token is then answered 401. `UnauthorizedIsNoOutage` states that this is the
  only way.
* `src/Connection.cpp:583` takes a `NULL` result of `mysql_store_result` for an
  empty one: when the connection is lost after the query, a login is answered 401
  `user not found`, while a query that fails is answered 500. The model follows
  the code; for a registration the `INSERT` still decides (`OneWinner`).
* `src/include/Config.h:90` says `reject request headers larger than this`. The
  limit is tested only while no terminator has arrived: a larger header that
  arrives in one read is accepted, and a cut terminator counts towards the
  limit. `RejectedForCause` states what a rejection does mean.

## Proofs

Eight modules hold the proofs. Everything in this section holds for every value
of the constants that satisfies the named assumptions of the modules.

| Module | Proves | From |
| --- | --- | --- |
| `ReactorProof` | `Ownership`, `TypeCorrect`, `FdsOwned`, `ChannelsAlive`, `SweepSafe`, `DestroyedByOwner`, `NoWakeupLost` | `ReactorAssumption` |
| `ThreadPoolProof` | `PoolInvariant`, `PoolTypes`, `TasksOnce`, `JoinSafe`, `PoolConserves`, `PoolImplements` | `ThreadPoolAssumption` |
| `QueueProof` | lemmas on sequences as queues of distinct elements | |
| `ConnPoolProof` | `RedisPoolInvariant`, `RedisTypes`, `RedisExclusive`, `RedisAccounted`, `RedisNoSleeper`, `RedisWaits`, `RedisBroken`, `MysqlPoolInvariant` | `ConnPoolAssumption` |
| `DbTasksProof` | `DbInvariant`, `DbTypes`, `WaitsInOrder`, `RegistersOnce`, `CacheIsCoherent`, `TokensGood`, `AnswersOnce`, `OutageIsNo401`, `UsesRedisPool`, `UsesMysqlPool` | `DbTasksAssumption` |
| `HttpFramingProof` | `FramingInvariant`, `FramedAlways`, `NoneWaitsAlways`, `RejectedForCauseAlways` | `HttpFramingAssumption` |
| `ResponseStreamProof` | without pipelining `OnePlace`, `ClosesBehindTheLast`, `ImplementsOrderedResponses`, `AnsweredInOrder`, `DirectWritesFit` | `ResponseStreamAssumption` |
| `ShutdownProof` | `ShutdownInvariant`, `ShutdownTypes`, `UsersAreJoined`, `ServedUntilSignal`, `PoolsUsed` | `ShutdownAssumption` |

**Reactor.** None of the safety invariants is inductive alone. That descriptors
are owned needs that the connection `newConnection` is setting up is alive and
not filed; that no channel pointer dangles after a teardown needs that the
connection a sub-reactor handles is its own and not in the rest of its list.
`ThreadsOwn` states those facts, and `IInv` is the conjunction. The central lemma
is `DeleteOwn`: the connection `deleteConnection` frees is, by `FdOwnership`, the
one its caller handles, and by `ThreadsOwn` no other thread has a pointer to it.

**Wake-ups.** `NoLostWakeup` speaks of moments when a sub-reactor is about to
wait. Its strengthening `WInv` speaks of all moments: until the first
`epoll_ctl` returns nothing has touched the channel (`Unregistered`); afterwards
epoll knows what the channel wants (`Armed`); and whatever there is to do for a
connection has an event queued or a handler that will do it (`Awaited`), unless
it was given up by a tear-down that missed (`GivenUp`). The proof takes the threads one by one, with a lemma for what each does to the
connection it touches and one frame lemma for all the others.

**ThreadPool.** `NoSleeperAtJoin` needs that `stop_` is set from the destructor's
first step on. `ExactlyOnce` says so, and says where each task is, which is what
the refinement needs: when a worker takes the head of the queue, the abstract
status of that task alone changes. The bound on running tasks is a step about
cardinalities: the worker that takes a task runs none.

**Connection pools.** `PoolInv`, the conjunction of the five properties, is
inductive as it stands; `ConnPoolProof` proves it for the steps both pools share,
then for each pool. Most of the work is counting: a queue that grows by one
grows by an element it does not contain (`QueueProof`), and a thread that holds
nothing leaves fewer connections held than there are threads (`Counted`).

**DbTasks.** `DInv` says for every step of every task what it holds, whether it
has answered and what it awaits (`Control`), and what its local variables say of
the stores (`Data`): a login about to write the cache has the table's password;
the token of a login is nobody else's and has no session until it is written; a
reply that reports success means that the session is there or has ended since.
The refinements to `RedisPool` and `MysqlPool` follow step by step, because a
task takes part in a pool only through that pool's actions. Where the pools'
theorems are used through them, `ConnPoolAssumption` is to hold of the workers
and handles of `DbTasks`.

**HttpFraming.** `Framed` speaks of positions: each part taken from the buffer is a
slice of the stream and begins where the one before it ends (`Placed`). That is
kept because the buffer is itself a slice of the stream (`Buffered`), and a slice
of a slice is a slice (`SliceOfSlice`); that reading more bytes moves no terminator
already found is `EndsOfPrefix` and `HeaderEndOfPrefix`. `RejectedForCause` is not
inductive: it speaks of all that was sent, and a rejection looks only at what was
read. `Deserved` says of each part why it was dispatched or rejected, in terms of
its own bytes, which no later byte changes, and implies it.

**ResponseStream.** For a client that does not pipeline, `OneSource` says where the rest of the last response is: in the input buffer as a
request (`Unanswered`), in the reactor's write buffer and file (`InBuffer`), with
one direct write (`InDirect`), or given up (`Dropped`); `Prefix` says that what is
on the wire is in its place and that all responses but the last are complete. A
second writer would break `OneSource`, and the client's waiting for a complete
response (`Caught`) is what excludes one. The refinement of `OrderedResponses`
and `ClosesWhenSent` follow from where the next unit comes from.
`CutOnlyWhenFull` needs besides that the send buffer holds nothing of an earlier
response when a request has been sent (`Unread`): whatever fills it then is the
response being written. `AnsweredInOrder`
is the property that `stream_pipelined` finds violated when the client does
pipeline: not pipelining is exactly the hypothesis it needs.

**Shutdown.** `UsersJoined` needs that the phases of the two pools go with the
members destroyed so far (`Phases`), that a pool whose destructor has returned has
no task queued or running (`Pools`), and that a loop runs exactly while it is a
task of `thPool_` (`Loops`). `ServesUntilSignal` needs that everything `stop` and
the destructors do follows a signal (`Asked`). `PoolsUsed` closes the circle with
`PoolImplements`: `Shutdown` uses its pools by the specification that `ThreadPool`
implements.

TLC finds each inductive invariant to hold on the instances of the runs as well.

Only model-checked: liveness, which is beyond the prover (`ClosedPeerReclaimed`,
`RequestsRead`, `BacklogServed`, `AcceptedRun`, `DestructorReturns`,
`EveryLoopRuns`, `GetConnReturns`, `TaskEnds`, `BufferedAnswered`,
`ShutdownCompletes`). Every other property of a passing run has a theorem. In
`HttpFraming` the value of a number (`Value`) and the choice among the lines of a
header are fixed by the few bytes of the model; the theorems are about where
requests are cut, for streams of any length.

## Not modelled

* `parseMethod`, `parseUrl`, `parseBody`, `getJsonValue`, `parseBearerToken` and
  `jsonEscape`: stateless functions on strings. The models choose among what they
  return.
* `allowRequest`: `kRateLimitQps` is the constant 0, so it returns before it
  touches its counters. With a positive limit two threads could find a new
  second at once and forget requests already counted.
* `Buffer` and `test/client.cpp`: only the single-threaded test client uses them.
* `Config` (constants and environment lookups, which are the CONSTANTS of the
  models), `Log` (formatting for spdlog's asynchronous logger), `InetAddress` and
  `util` (no state), and the set-up calls of `Socket`.
* `hardware_concurrency()` returning 0 is excluded by `ReactorAssumption`.
* Exceptions inside a DB task (`runDbTask` answers 500): what a task calls
  reports its failures by return values, and running out of memory is not
  modelled.
* The destructors of the two connection pools: static objects, destroyed after
  all threads have ended.
* Redis is compiled in only with `USE_REDIS`; the models describe that build.
