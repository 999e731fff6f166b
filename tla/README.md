# VoteWebServer: a verification development

VoteWebServer (`src/muduo-myServer/WebServer`) is a voting site on a C++ reactor in the style of muduo: one
accepting loop, eight I/O loops, a pool of MySQL connections, a pool of Redis connections, a thread that copies
MySQL to Redis, a time wheel for idle clients and an asynchronous log. This directory holds TLA+ modules of its
core, TLC configurations that check them on small instances, and theorems checked by TLAPS.

`src/` contains unresolved merge-conflict markers (for instance in `Reactor/EventLoop.cpp`). The side after
`=======` (commit 6d98924, the one with Redis and `dbSYN`) is what is modelled: it is the one the README of the
repository describes under "redis" and the one the other files (`TcpServer.cpp`, `Pool/redisConnectionPool.cpp`) fit.

Paths below are relative to `src/muduo-myServer/WebServer` unless they start with `src/`.

## 1. Inventory

### The parts, their state and their operations

| Part | Files | State | Operations |
|---|---|---|---|
| Vote counters and pages of a loop | `Reactor/EventLoop.cpp` 65-100, 180-343 | `voteAdd`, `voteSituation`, the result pages on disk | `AddVote`, `UpdateVoteSituation`, `InitVoteSituation`, `updateHtml`, `voteInit` |
| dbSYN | `DbSyn/dbSYN.cpp` | `voteCount` | `startSyn`, `synFuncOnce`, `synFuncLast` |
| Redis pool | `Pool/redisConnectionPool.cpp` | list of connections, semaphore | `init`, `getConn`, `recoveryConn` |
| MySQL pool | `Pool/MysqlPool.cpp` | list of connections, semaphore | `init`, `getMysqlConn`, `recoveryMysqlConn` |
| Task queue of a loop | `Reactor/EventLoop.cpp` 101-170 | `pendingFunctors_`, `callingPendingFunctors_`, `wakeupFd_`, `quit_` | `runInLoop`, `queueInLoop`, `wakeup`, `handleRead`, `doPendingFunctors`, `quit` |
| epoll | `Reactor/Epoll.cpp` | `fd2Chan_`, interest of the kernel | `epoll_add/mod/del`, `poll`, `getRequestChan` |
| Channel | `TcpConnection/Channel.cpp` | `events_`, `revents_` | `enableReading`, `enableWriting`, `disableWriting`, `disableAll`, `update`, `handleEvent` |
| TcpServer, Acceptor | `TcpServer.cpp`, `Reactor/Acceptor.cpp` | `connectionMap_` | `start`, `newConnection`, `removeConnection(InLoop)` |
| TcpConn | `TcpConnection/TcpConn.cpp` | `state_`, buffers, weak entry of the timer | `connectEstablished`, `handleRead/Write/Close`, `addTimer`, `connectDestroyed`, `sendInLoop`, `shutDown` |
| Time wheel | `TimeManager/TimeManager.cpp`, `TimeWheel.cpp` | buckets of shared entries | `addTimer`, `click`, `Entry::~Entry` |
| Buffer | `TcpConnection/Buffer.cpp` | vector and two indices | `append`, `retrieve`, `readFd` |
| HTTP | `TcpConnection/State.cpp`, `stateAnalyse.cpp` | `Context` of a connection | `loadDataFromBuf`, `analyseDataFromConn`, the `handle` of each state, `process_write` |
| Startup | `TcpServer.cpp`, `Reactor/EventLoopThread.cpp`, `Pool/EventLoopThreadPool.cpp`, `Thread.cpp` | latches, conditions | `start`, `startLoop`, `threadFunc` |
| Asynchronous log | `Log/AsyncLogging.cpp` and its files | two buffers, a list of full ones | `append`, `threadFunc`, `stop` |
| Webbench | `src/muduo-myServer/WebBench/webbench.c`, `socket.c` | counters of each client process, a pipe, a flag set by a signal | `bench`, `benchcore`, `alarm_handler`, `Socket` |
| Formatting, sockets, addresses, time stamps, TimeQueue | the rest | none of interest, or unused | |

### How they interact

* The main loop accepts and gives each new `TcpConn` to an I/O loop in turn. Only tasks in the loops' queues cross
  threads; a task holds a `shared_ptr` to the connection, the channel's callbacks a raw `this`.
* A request for a vote adds one to `voteAdd`, private to the loop. At the end of *each* iteration of
  `EventLoop::loop` the loop sends two `UPDATE`s to MySQL, one for each row, then takes a Redis connection,
  reads the totals with `MGET` into `voteSituation`, clears `voteAdd`, and rewrites its pages.
* `dbSYN` does `SELECT` and `MSET` to the Redis master for ever; Redis replicates to a second instance; half of the
  pool's connections go to the master, half to the replica.
* At the start the main thread fills the pools, starts dbSYN and then one loop after the other. It waits for each thread twice: on the
  latch of `Thread::start` and on the condition of `startLoop`. A loop needs a MySQL and a Redis connection before it announces itself.
* Every thread logs into the same front buffer; the logging thread swaps it out.
* The wheel of a loop turns at the end of each iteration; an entry nobody holds any more closes its connection.

### What is hard

Counters that are cleared in a different function from the one that stores them, and that does not look at errors;
copies of copies that lag; votes acknowledged before they are stored; a wakeup written only when it "is needed";
objects kept alive by tasks in the queues of two threads while events for them are pending; several independent
reasons to close the same connection; work that is done only at the end of an iteration although `epoll_wait` has
no timeout; a test without the lock in front of a semaphore; buffers that change hands between threads; lengths that are differences
of unsigned numbers; a signal that may come before the call it is to interrupt. `PROJECT.json` lists every hazard with its line and the properties that watch it, or why none does.

### What makes each part correct

* Pipeline: no vote counted twice; none that finds its counter is lost while MySQL answers, each in one place at a time; copies never ahead of the
  database; pages read from the master never go back; accepted votes get everywhere in the end.
* Task queue: the loop never sleeps on work; tasks run once and in order; `quit` ends the loop.
* Connections: no callback on a destroyed object; asserts hold; destroyed once, after being disconnected; the timer
  of each set exactly until it was silent for a turn of the wheel; reset ones are collected.
* Requests: each read is answered, as its first line and the file say; a whole vote counts for its own option; no vote
  comes from nowhere, disappears before a reply or counts twice.
* Channel: the interest in epoll equals `events_`; the loop is woken exactly when there is something to read, or to write and room for it;
  what waits is written.
* Buffers: the output buffer is a queue of bytes that stays inside its vector and grows only with what waits; a read hands on its beginning.
* Log: no buffer in two hands; no message lost between them or written twice; the file is all messages in order, but for gaps it announces; `stop` saves what was to be saved.
* Pools: no connection with two holders; who passes the semaphore finds one.
* Startup: `start` returns; keys the master or the replica may lack are missed before anybody is served; clients go to running loops, in turn.
* Webbench: the alarm distorts a client's counts by at most one; what is printed covers all clients; it comes to an end, but for two cases that are named.

## 2. Modules

| Module | Models | Proofs |
|---|---|---|
| `VoteTally` | abstract: votes are accepted, counted once, shown only when counted | |
| `VotePipeline` (`MCVotePipeline`) | loops, UPDATEs, dbSYN, Redis, pages; failures, crash | `VotePipelineProofs` |
| `Mailbox` | abstract: tasks are put in and run in order | |
| `EventLoopQueue` (`MCEventLoopQueue`) | the task queue of one loop, step by step | `EventLoopQueueProofs` |
| `Service` | abstract: the stages of a connection, and for what it may be dropped | |
| `ConnectionLifecycle` (`MCConnectionLifecycle`) | `TcpConn` from `accept` to its destructor, over the main and the I/O loops; the time wheel | `ConnectionLifecycleProofs` |
| `Ballot` | abstract: a vote is noted for a request that asks for one, and counted once, with the next good reply | |
| `HttpRequest` (`MCHttpRequest`) | what one connection makes of its reads: the states of `State.cpp`, `process_write` | `HttpRequestProofs` |
| `ChannelEvents` | `events_`, `revents_`, the interest in epoll and the output buffer of one connection | `ChannelEventsProofs` |
| `Stream` | abstract: bytes are taken in the order in which they were put in | |
| `Buffer`, `ConnectionBuffers` | the vector and the indices of a `Buffer`; the two of a connection and all that is done with them | `ConnectionBuffersProofs` |
| `Journal` | abstract: messages get to the file in order, some that wait are thrown away and announced | |
| `AsyncLog` | the buffers of `AsyncLogging`, its thread, `start` and `stop` | `AsyncLogProofs` |
| `Pool` | abstract: connections are lent to one user at a time, in turn | |
| `ServerStart` | from the constructor of `TcpServer` to busy loops that share the two pools | `ServerStartProofs` |
| `Webbench` | the load generator: parent, clients, alarms, pipe | |

`VotePipeline` and `HttpRequest` meet in `Vote`; `ConnectionLifecycle`, `ChannelEvents` and `ConnectionBuffers` look at the same connection:
the first at its life, the second at its events, the third at its bytes. `ServerStart` ends where `VotePipeline` begins; what they share, the
connections to Redis, is the same `Pool` in both. `ServerStart` has it with semaphore, lock and list apart, `VotePipeline` in one step.

Definitions named `Mut...` are the definition after them with a plausible bug. No specification uses them; they show
that each property can fail.

### VotePipeline

One variable for each piece of state: `voteAdd`, `voteSituation` and `page` of each loop, `mysql`, `voteCount` of
dbSYN, `master` and `replica`, `redisPool` with its connections in order, and `phase`, the place of each loop in
`EventLoop::loop`. A count is not a number but a *bag of votes* (a function from votes to how often it was counted),
so that a vote that is lost cannot hide behind one that is counted twice.

Which counter a vote adds to is `voteAdd[voteWhat][option]`, and nobody checks the option, a byte of the request. `VoteOption` gives each vote its two indices,
and `Cell` the place they select, counted from `voteAdd[0][0]`: cells 0 to 3 are sport, 4 to 7 fruit, 8 to 15 the totals of `voteSituation`, the next member of `EventLoop`. So an
accepted vote may be one of `SportVotes` or `FruitVotes` (`Votes`, those that find a counter, not always one of their own row), a stray one that adds to a total until the next
`MGET` overwrites it (`Strays`), or lost. What the rest overwrites is undefined; in the model they add to nothing. The properties say which votes they speak of: those of `Votes`, among which are all with an option
from 0 to 3 (`Proper`).

| Action | Code |
|---|---|
| `StartSync`, `StartLoop`, `Listen` | `TcpServer::start`, `EventLoopThread::startLoop/threadFunc`, `Acceptor::listen` |
| `Wake`, `FinishEvents` | `Epoll::poll` returns; the handlers and functors are done |
| `Vote` | `FILE_REQUESE` case of `stateAnalyse::process_write`: `AddVote`, whatever the option, then 200 |
| `UpdateSport`, `UpdateFruit` | the two statements of `UpdateVoteSituation`; either may fail, which is only logged |
| `TakeRedis`, `ReadRedis` | `getConn`, `MGET`, clearing, `recoveryConn`, `updateHtml` |
| `SyncSelect`, `SyncMset` | `synFuncOnce`, repeated by `synFuncLast` |
| `Replicate`, `Crash` | outside the code: replication; the process ends and is started again |

`ReadRedis` joins the answer, the clearing and the page into one step: between them the loop touches only state of its
own, except the pool, whose connections other loops can take only after `recoveryConn`.

`VotePipeline` implements `VoteTally` for the votes that find a counter, under
`accepted <- cast \cap Votes, tally <- OfVotes(mysql), shown <- OfVotes(page)`. Its connections to Redis implement `Pool`
under `free <- redisPool, holds <- redisConn`, but for a crash, after which there is a new pool.

### EventLoopQueue

`Post` (push under `mutex_`) and `Signal` (the write to the eventfd) of another thread are two steps. So are the
`quit` flag and its wakeup. The loop's own calls, from a handler or a task, are `QueueInLoop`; whether
they write depends on `callingPendingFunctors_`, which is the condition the whole design rests on. `Poll` returns when the
eventfd is readable or another descriptor is. `Swap`, `FunctorDone`, `EndIteration` are `doPendingFunctors` and the
end of the iteration. It implements `Mailbox` under `queue <- functors \o pendingFunctors`.

### ConnectionLifecycle

The kernel's view of a client (`peer`, `unread`, `sockError`, `backlog`), epoll's interest (`watched`), the server's
objects (`state`, `loopOf`, `connectionMap`, `wheel`) and the loops (`pc`, `ready`, `pending`, `functors`). `Alive(c)`
defines when the `TcpConn` exists: in the map, or bound in a task that is pending or in a vector not yet
destroyed. This is why `functors` keeps its finished tasks until `EndFunctors`: the vector, with its
`shared_ptr`s, dies at the end of `doPendingFunctors`.

`Reported` follows `Channel::handleEvent`: a hang-up is looked at only when no input is reported; level-triggered
epoll reports it in every iteration until `connectDestroyed` has removed the channel. `HandleRead` has the three
outcomes of `TcpConn::handleRead` (data, error, end of stream). `Click` overwrites the oldest bucket and `Expire`
is one `Entry` destructor. A push to another loop and the write of its eventfd are one step here, since
`EventLoopQueue` shows that no wakeup is lost between them.

`silence` is a history variable: the iterations since something was heard of a connection. It is what `OnlySilentExpire` speaks of:
the buckets only know in which of them an entry was put.

It implements `Service` under `stage <- Stage(c)`: away, accepted (`newConnection`), served (`connectEstablished`), leaving (out of the map),
down (`connectDestroyed`), gone (the last `shared_ptr`). A hang-up reported again, a second removal and a task that finds nothing to do are stutters of it. `Click` is its `Turn`, for the
connections of one loop together; `Expire` only queues the removal, a stutter. `Patience` is the number of buckets.

### HttpRequest

One `Context` for each read, one `AnalyseData` for the connection. A read is a sequence of tokens (lines of five kinds
and bodies, which have no line end); the text of a line is abstracted to its kind. `Sentence` is `getSentence`: a body followed
by a line is one line nobody understands. `StateRequese`, `StateHeaders`, `StateContexts`, `StateDoRequese` are the four `handle`
functions, `ProcessWrite` the rest of `analyseDataFromConn`. The parser does not know the empty line: it is an unknown
header, except after `Content-length`, where the option is the byte at a fixed distance behind the place where the headers were left.
`contextData = 0` stands for a pointer into an older `Context`, or one nobody has set: what is read through it is any byte, or the process ends (`Segfault`).
In `VotePipeline`, `Vote` is `ProcessWrite` with a vote to count.

Noted, since it is easily overlooked: a vote is noted before `thank.html` is looked for. If it cannot be sent, the client gets an
error and the vote is counted by the next successful request of the connection. `VoteSpent` says it is not counted again after that.

It implements `Ballot` under `asked <- Asked, noted <- voteOption, reply <- Verdict`. `Asked` is what the request being parsed may be a vote for: the option of its body, if
it is a whole vote; any option, if it is one for a vote but cut, or has its headers in the other order; nothing, once the request is over. A new read is `Receive`, the step that notes the option `Note`, `ProcessWrite`
`Answer`; the other steps of the parser are stutters. `Answer` needs a request that asks for nothing any more, so a whole vote cannot be answered without having been noted, nor a vote be noted for a request for a page.

### ChannelEvents

The events are sets of the names of the bits. `Update` is `Channel::update` with `epoll_add` and `epoll_mod`, which leaves the
system call out when `revents_ = events_`; but `revents_` is also what `getRequestChan` stores. That this never leaves the kernel
behind is not a property of `epoll_mod` but of its callers: a report has no bit that was not asked for, so where a callback *adds* a
bit, equality means that it was there already; where it *takes one away* (`disableWriting`, `disableAll`), it runs because that very bit was
reported, so the masks differ. `disableWriting` called anywhere else could be lost. The other side of it: `handleEvent` goes on testing `revents_` after the read callback,
which may have replaced it with `events_`, so the write handler runs in the same iteration without having been reported;
`HandleWrite` is therefore modelled for a full kernel buffer, too (`write` fails, nothing changes).
`Written` takes all, or as much as there is room. When a connection is removed is left open (`Remove`): `ConnectionLifecycle` has it.

`WokenForWork` speaks of all this at once, whenever the loop sleeps in `epoll_wait`: it is woken for this connection if and only if there is something to do for it.
It fails if the interest lags behind, if `enableWriting` is forgotten after a partial write, if `disableWriting` is (the loop would spin), or if a client is no longer listened to.

### Buffer and ConnectionBuffers

A byte of `outputBuffer_` is its number in the stream, a byte of `inputBuffer_` its number in the last read, or 0 if an older read left it there.
So a byte that is lost, repeated or stale is seen. Indices and lengths wrap at `Word`, as a `size_t` does.

| Action | Code |
|---|---|
| `ReadFd` | `Buffer::readFd`: the read goes into the room and an array on the stack; what is in the array is appended |
| `RetrieveAllString` | `Context::loadDataFromBuf`: everything is taken, the indices go back to the front |
| `AppendReply`, `EndReply` | the pieces `process_write` appends: `ensureWriteAble`, `makespace`, copy |
| `Write` | `handleWrite`: `write` took n bytes, `retrieve(n)` |

When a read fills the room, `readFd` appends `n - writeIndex_` bytes of the array where `n - writeAble` are in it. It loses `kprepIndex` bytes, or, if
`n < writeIndex_`, the length wraps and what the copy does is undefined: it is the end (`"dead"`) or nothing. `OnlyFullReadsHurt`
says that no other read can do this, and no reply.

`outputBuffer_` implements `Stream` under `waiting <- Waiting` (the cells between the indices) and `given <- sent`: `AppendReply` is `Put`, `Write` is `Take`, whatever else
happens to the connection is a stutter. That the vector shifts and grows in between cannot be seen.

### AsyncLog

A buffer is an address, a message its number; `Pointers` lists everything that points to a buffer, and `NewBuffer` returns an address that is in none
of them. `AppendMessage` is `append` under the mutex. `Top`, `Wait`, `Swap`, `Cut`, `WriteBuffer`, `Refill`, `Finish` are the parts of `threadFunc`. `Swap` comes
after a wait whatever ended it, since the code tests the condition with `if` and the wait has a timeout. `Stop` sets `running_` and notifies without the mutex.
`dropped` and `owed` are history: what was thrown away, and what `stop` is sure to save.

It implements `Journal`: `waiting` is what is in the buffers not yet written (`Queued`), `accepted` is `appended`. `AppendMessage` is its `Accept`, `WriteBuffer` its `Write`, and
`Cut`, when it cuts, its `Discard`; whatever else moves a buffer about is a stutter. `AllAccountedFor` says what follows for the messages: those logged so far are those in
buffers, those thrown away and those in the file, each in one of the three only, and the file has them in order.

Noted: the announcement in the file counts the buffers thrown away, not the messages. What is appended between the last swap
and the end of the thread is lost without a word: `running_` is looked at before the buffers.

### ServerStart

| Action | Code |
|---|---|
| `SetConn`, `MysqlInit`, `RedisInit` and their `...Fails` | `dbSYN::setConn`, `Mysql_pool::init`, `CachePool::init`; a failure ends the process, that of a replica only leaves the pool smaller |
| `Create`, `LatchWait`, `LoopWait`, `Listen` | `Thread::start`, `CountDownLatch::wait`, `EventLoopThread::startLoop`, `Acceptor::listen` |
| `NewConnection` | the loop a client gets (`getNextLoop`) |
| `CountDown`, `Announce`, `Copy` | `runInThread`; `threadFunc` when `loop_` is set; dbSYN's `MSET`, on the master |
| `Replicate` | outside the code: the replica gets the keys, some time later or never |
| `Check`, `Wait`, `Pop`, `Use`, `Put`, `Post` | `getMysqlConn` and `getConn` with the test in front, the semaphore and the list; the query; giving back |
| `Wake` | an iteration of a loop with clients |

`keys` are the servers of Redis that have the keys of the votes, `Server(c)` is the one on connection `c`. The first loop reads the master, but with more loops than connections to it a later
loop's first read is of the replica. Both may end the process (`atoi` of NULL). `KeysMissedEarly` says when: on the master only before any loop runs; on the replica before `start` is over, if there are more loops
than connections to the master (8 and 4 in the server), since each of the connections has then been used once. Two things would let it come later, and are excepted: fewer loops, and an error reply in the place of a loop's first answer
(`refused`), which is only logged, so the loop goes on without having read.

Sleeping on the latch and on the condition is a place of its own, left only by the notification: a forgotten or early one is seen.

Each pool implements `Pool` under `free <- free[p], holds <- Held(p)`: `Pop` takes, `Put` gives. The test, the semaphore and the announcement of a connection are stutters.

Noted: a thread that cannot be created is not reported, so `startLoop` waits for ever; with a replica that is down the Redis pool is half as large;
`reserve = sem(n)` copies a `sem_t`, which works with the C library used and is modelled as setting the semaphore.

### Webbench

One place for each client in `benchcore`; `Alarm` may come at every one of them and sets the flag only. A call that fails because of the
signal looks like a failed request and is taken back at the top of the loop, whether or not it was the signal's. `failures` (history) counts the others.
An alarm between the test of `timerexpired` and `read` is not repeated, and the server does not close a connection after its reply, so this `read` may never return.
Noted: the parent holds the pipe open for writing itself, so when a child has died (`SIGPIPE` with `-k`, `exit(3)`) or waits in such a `read`, it waits for ever, and "Some of our childrens died."
is never printed; `bench` returns the speed of the last report, where its comment speaks of an error code (`webbench.c:335`).

## 3. Runs

| Run | Configuration | Checks | Instance |
|---|---|---|---|
| `votes_faults` | `VotesFaults` | `AtMostOnce`, `PagesBehindDatabase`, `TallySpec` | 2 loops, 3 votes (for a counter of each row and for a total), 2 Redis connections, all faults and crashes; 325 000 states |
| `votes_live` | `VotesLive` | `VotesBalance`, `PageNeverRegresses`, `VoteRecorded`, `BusyPagesCatchUp` | 2 loops, a vote for fruit and one for fruit that adds to sport; answers of Redis and `MSET` may fail; 35 600 states |
| `votes_idle_pages` | `VotesIdlePages` | `PagesCatchUp`, refuted | 2 loops |
| `queue` | `Queue` | `NoLostWakeup`, `MailboxSpec`, `EveryTaskRuns`, `QuitStops` | 2 threads, 4 tasks; 52 000 states |
| `connections` | `Connections` | `CallbacksSafe`, `TimerExact`, `DestroyAssert`, `OnlySilentExpire`, `ServiceSpec`, `ResetsAreCollected` | 2 connections, 1 I/O loop, wheel of 2; 403 000 states |
| `http` | `Http` | `ReplyAgrees`, `WholeVoteCounted`, `BallotSpec` | 2 options, reads of 1 to 6 tokens; 101 000 states |
| `http_header_order` | `HttpHeaderOrder` | `PostUnderstood`, refuted | same |
| `channel` | `Channel` | `InterestInSync`, `WokenForWork`, `RepliesWritten` | replies of 3 units, kernel buffer of 2; 2 000 states |
| `buffers` | `Buffers` | `BeginningDelivered`, `OnlyFullReadsHurt`, `StreamSpec` | `kprepIndex` 2, room of 4, `size_t` of 6 bits; 318 000 states |
| `async_log` | `AsyncLog` | `SparesReady`, `NoSharing`, `AllAccountedFor`, `StopKeepsItsDebt`, `JournalSpec`, `EveryMessageWritten` | 9 messages, 2 to a buffer, cut above 3 buffers; 24 000 states |
| `server_start` | `ServerStart` | `PopFinds`, `NeverNull`, `KeysMissedEarly`, `PoolSpecs`, `StartReturns` | 3 loops, 3 MySQL and 2 Redis connections, all faults; 278 000 states |
| `webbench` | `Webbench` | `FailuresReported`, `AllAreCounted`, `BenchReturns` | 2 clients, 3 requests each, all options; 430 000 states |

The type invariants are not run, since they are proved (section 4); `Webbench` has none. Nor are `OneHolder` and `DestructorAssert`, which follow from the refinements of `Pool` and
`Service`; `VoteSpent`, `InOrder`, `OutputWatched`, `TimerArmed` and `DropsAnnounced`, whose place was taken by `BallotSpec`, `StreamSpec`, `WokenForWork`, `TimerExact` and `AllAccountedFor`; and `PoolSpec` of `VotePipeline`,
`RoomBounded`, `NobodyWaitsForNothing`, `StartNeverStuck`, `ClientsInTurn`, `ReadersMoveOn` and `InHand`, which are there to be proved; all have theorems.

The two refuted properties are what the repository's README says and the code does not do:

* `PagesCatchUp`: `src/README.md:9` says the pages are updated in real time; a loop rewrites them only after an event of
  its own, and `epoll_wait` waits without limit. A loop may even show a result without the vote it has just taken, until its
  next event, because the read overtakes the copy to Redis. `BusyPagesCatchUp` is what does hold.
* `PostUnderstood`: `src/README.md:10` says GET and POST are parsed; a form whose `Content-length` is not the last header is
  accepted, but a character of the header that follows is its option, which selects the counter unchecked. `WholeVoteCounted` is what does hold.

Other places where comments and code part, without a run of their own:

* `src/README.md:86` says data is read from the replicas; half of the pool is connected to the master, and the two halves take turns.
  `PageNeverRegresses` is therefore stated for reads of the master.
* The comment at `TcpServer.cpp:78` wonders why the assert on `erase` always fails: the hang-up is reported again in each
  iteration until the channel is gone, so several removals are queued. The early return makes that harmless (`DestroyAssert` holds).
* The wheel turns once for each iteration, not with time (`EventLoop.cpp:96`), so on a quiet loop a silent client stays for ever.
  `OnlySilentExpire` and `TimerExact`, which count iterations, are what does hold.

### Bounds, and why they suffice

* Loops: two give every interaction of the pipeline (two streams of `UPDATE`s to the same rows, two users of the pool).
  With two connections in the pool one comes from each half.
* Votes: in `votes_faults` one for a counter of each row, so that an iteration may flush one row or both, and one that adds to a total; in `votes_live` one for fruit and one
  for fruit with option -3, which adds to the second counter of sport. No run has two votes of one row: they would share the `UPDATE`, which adds each on its own; the proofs cover any number.
* Tasks: four, so that two threads, a handler and a task may queue one each. A task is queued once at most; this bounds
  the queue and the eventfd.
* `QueueBound` in `ConnectionLifecycle`: the main loop's queue holds at most two tasks when one more removal is posted. Two
  already let a second removal wait behind the first one, which is the interesting case. The bound makes the I/O
  loop wait for the main loop, where the code would not; without it the repeated hang-ups make the queue grow without limit.
* Wheel: two buckets (the code has 11). An entry may be in the newest, in an older, or in both.
* One I/O loop with two connections: they share the wheel, so that the traffic of one expires the other, and the
  main loop runs concurrently.
* Reads: a first token (request line, something else, a body), up to two tokens that may be headers, and a tail (nothing, the empty line, a body
  after it, the start of a second request, both). These give whole requests, their halves in either order and two in one read. The reads
  of a connection are not bounded: what the next one finds of the former ones is finite.
* Replies of three units and a kernel buffer of two: a reply is never written at once. `MaxOutput` stops the client from
  sending more while four units wait, so that two replies can wait together.
* Buffers: the room of 4 lets a reply of up to 4 bytes (`MaxAppend`) fit, need a shift, or need growth. An array of 4 on the stack and reads of up to 8 bytes (`MaxRead`) give
  reads shorter than the room, as long, and longer by less, as much and more than `kprepIndex`. A reply is begun while at most 2 bytes wait (`MaxWaiting`), and 11 are
  appended in all (`MaxSent`): the vector of the output shifts and grows several times. Lengths that wrap differ from all others with 64 values of a `size_t`.
* Log: 9 messages, 2 to a buffer, make 5 buffers, so the cut (above 3) comes at any time of the thread's work; 9 addresses are
  more than can be held at once.
* Startup: three loops at two Redis connections wait for one another; three MySQL connections are just enough. Each loop gets one client (`MaxClients`), which is enough to wake it for ever, and `getNextLoop` wraps after the last.
* Webbench: three requests (`MaxRequests`) before the alarm let it come after none, one or several; two clients are enough for a report that is left out.
* `CHECK_DEADLOCK FALSE` for `connections`, `channel`, `buffers`, `async_log`, `server_start`, `webbench`, `http` and `http_header_order`: when clients are gone, `stop` has returned, the process has ended
  or the bound on what is sent is reached, nothing is left to do.

### Fairness

* `VotePipeline`: each loop's steps, dbSYN, listening and replication are weakly fair: threads are scheduled, the databases
  answer. Reads of Redis and `MSET` may fail but are strongly fair in succeeding: who asks again and again is answered in the end. `Wake` and `Vote` are not fair, since no client is obliged to come. No fairness for `Crash`, of course.
* `EventLoopQueue`: the loop's steps, `epoll_wait` when the eventfd is readable, and `Signal` (a thread that pushed goes on
  to the write). Nothing is assumed of other descriptors, nor that anybody posts or quits.
* `ConnectionLifecycle`: the steps of the main loop and of each I/O loop. Clients are free.
* `HttpRequest`, `ConnectionBuffers`: none, they have no liveness property.
* `ChannelEvents`: the steps of the loop, and that a client which stays reads what it is sent. It may close, reset or send more at any time.
* `AsyncLog`: the logging thread (its wait has a timeout), and that `start` and `join` return when they can. Nobody has to log.
* `ServerStart`: the main thread, the start of dbSYN's thread, the steps of each loop. Nothing is assumed of copies and replication. Semaphores favour nobody: weak fairness of each loop is enough for `StartReturns`.
* `Webbench`: parent, clients and alarms; a client that connects again and again succeeds in the end (`-k` has no other way out of that loop). All calls of a client return but `read`: the server reads whatever it is
  sent, so a `write` ends, but need not say anything, so a `read` may not.

## 4. Proofs

For every value of the constants (number of loops, votes, connections, threads, tasks, any set of faults, sizes of replies and buffers, any set of reads):

| Module | Theorem | Says |
|---|---|---|
| `VotePipelineProofs` | `TypeCorrect` | `Spec => []TypeOK` |
| | `CountedAtMostOnce` | `Spec => []AtMostOnce` |
| | `NothingRunsAhead` | `Spec => []PagesBehindDatabase` |
| | `RedisNeverLosesVotes` | `[]VotesBalance`, of the votes that find a counter, if neither `UPDATE`s fail nor the process crashes |
| | `PipelineImplementsTally` | `Spec => TallySpec` |
| | `PagesOnlyGrow` | `PageNeverRegresses`, without replica and crash |
| | `PipelineLends` | `Spec => PoolSpec`: the connections to Redis are lent as `Pool` says |
| | `ReadersNeverBlock` | `Spec => []ReadersMoveOn`: if none is free, a loop that has one is reading |
| `EventLoopQueueProofs` | `TypeCorrect` | `Spec => []TypeOK` |
| | `WakeupNeverLost` | `Spec => []NoLostWakeup` |
| | `LoopImplementsMailbox` | `Spec => MailboxSpec` |
| `ChannelEventsProofs` | `TypeCorrect` | `Spec => []TypeOK` |
| | `InterestAlwaysInSync` | `Spec => []InterestInSync` |
| | `OutputAlwaysWatched` | `Spec => []OutputWatched` |
| | `AlwaysWokenForWork` | `Spec => []WokenForWork` |
| `HttpRequestProofs` | `RepliesAgree` | `Spec => []ReplyAgrees` |
| | `VotesSpent` | `Spec => []VoteSpent` |
| | `WholeVotesCounted` | `Spec => []WholeVoteCounted` |
| | `RequestsImplementBallot` | `Spec => BallotSpec` |
| | `TypeCorrect` | `Spec => []TypeOK`: the parser never leaves its text |
| `ConnectionLifecycleProofs` | `TypeCorrect` | `Spec => []TypeOK` |
| | `CallbacksAreSafe` | `Spec => []CallbacksSafe` |
| | `DestroyedOnce` | `Spec => []DestroyAssert` |
| | `DestructorFindsItDown` | `Spec => DestructorAssert` |
| | `TimerStaysArmed` | `Spec => []TimerArmed` |
| | `TimerIsExact` | `Spec => []TimerExact` |
| | `SilentOnesExpire` | `Spec => []OnlySilentExpire` |
| | `ServerKeepsPromises` | `Spec => ServiceSpec` |
| | `NobodyIsForgotten` | `Spec => []InHand`: until a connection is down, a loop that is awake has a task for it, or epoll and the timer have it |
| `ServerStartProofs` | `TypeCorrect` | `Spec => []TypeOK` |
| | `ConnectionsHaveOneHolder` | `Spec => []OneHolder` |
| | `ConnectionIsThere` | `Spec => []PopFinds` |
| | `MysqlNeverNull` | `Spec => []NeverNull` |
| | `MissingKeysEarly` | `Spec => []KeysMissedEarly` |
| | `PoolsLend` | `Spec => PoolSpecs` |
| | `SemaphoresAreReturned` | `Spec => []NobodyWaitsForNothing`: who waits at a semaphore waits for a loop that is to post it |
| | `StartIsNeverStuck` | `Spec => []StartNeverStuck`: while the main thread sleeps, another thread can go on |
| | `ClientsGoInTurn` | `Spec => []ClientsInTurn` |
| `AsyncLogProofs` | `PhasesAgree` | `Spec => []PhaseInv`, where the two threads are |
| | `TypeCorrect` | `[]TypeOK`, if memory does not run out |
| | `BuffersAreNotShared` | `[]NoSharing`, likewise |
| | `SparesAreReady` | `[]SparesReady`, likewise |
| | `StopSavesItsDebt` | `[]StopKeepsItsDebt`, likewise |
| | `LogImplementsJournal` | `JournalSpec`, likewise |
| | `MissingOnesAreAnnounced` | `[]DropsAnnounced`, likewise |
| | `MessagesAreAccountedFor` | `[]AllAccountedFor`, likewise |
| `ConnectionBuffersProofs` | `TypeCorrect` | `Spec => []TypeOK` |
| | `RepliesInOrder` | `Spec => []InOrder` |
| | `OutputImplementsStream` | `Spec => StreamSpec` |
| | `RoomIsBounded` | `Spec => []RoomBounded` |
| | `BeginningIsDelivered` | `Spec => []BeginningDelivered` |
| | `ShortReadsAreHarmless` | `Spec => []OnlyFullReadsHurt` |

Assumptions used are those named in the modules: at least one loop, two indices for each vote (any integers), a pool of at least two, faults from
the four kinds. `RedisNeverLosesVotes`, `PagesOnlyGrow` (no crash) and the theorems about the log name theirs in the statement.
That memory does not run out is `Endless`: `Heap` is infinite. TLC's heap is finite, but larger than what can be held.

The argument for votes. `AtMostOnce` alone is not inductive: one must know that a vote sits in the `voteAdd` of at
most one loop, at most once, only if it was accepted, and that `voteAdd` is empty when a loop is outside the part
between `events` and `read`. That is `VoteInv`: with it, the `UPDATE` of a row adds exactly the votes of this loop
that are still `Unflushed`, and after it they are not. `VotesBalance` needs one thing more, that without the faults every accepted
vote that finds a counter is counted or `Unflushed` somewhere (`AllAccounted`); that it is in one place only is `VoteInv`. That no vote is in both rows is `CellsDisjoint`, from the arithmetic of `Cell`;
that one with a proper option is in the row it is for, `OwnCounter`.
`FlowInv` orders the copies (`replica <= master <= mysql`, `voteCount <= mysql`, pages and `voteSituation` below
`mysql`); each copy step takes something below and puts it below, and `mysql` only grows. `MasterInv` strengthens
this where all connections are the master's: what a loop has read and shows is the same and is below `master`, which
never shrinks, because by `FlowInv` what dbSYN is about to store is not below it. The refinement of `VoteTally` follows action by action: `Vote` accepts,
an `UPDATE` counts the votes of the row that were still uncounted, `ReadRedis` rewrites one page with counted votes, all other steps stutter.
`LinksInv` counts the connections to Redis, in the list and with the loops; as there are at least two, an empty list means that somebody reads.

The argument for the queue. `NoLostWakeup` is the conjunction of `TaskWakes` and `QuitWakes`, each inductive together with
`CallingInRun` (the flag `queueInLoop` tests says whether the loop runs tasks): the wakeup is consumed only before the swap,
so what is pushed later, by a task or by another thread, leaves its own. The refinement of
`Mailbox` needs `BoxInv` (the abstract queue is what is left of the vector followed by what is pending; the vector is empty
outside `run`).

The argument for the channel. `InterestInSync` needs `ReportInv`: while events are handled, `revents_` has no bit for reading
or writing that `events_` lacks, whether it is a report or a copy. `UpdateInSync` then covers every change of the mask, for the reason
given above. `OutputWatched` is proved in the middle of an iteration, too (`WatchInv`).
`WokenForWork` puts the two together with `HearInv`: nothing but the end of what the client sends takes `EPOLLIN` out of the mask, so an open client is always listened to.

The argument for requests. `PlaceInv` says that past the request line the URL is that of the text's first line, and `LabelInv` that the
label at the end agrees with it and with the file. For a whole vote, `OnTheWay` follows the parser: among the headers
it stays before the empty line, since each of them is one sentence (`SentenceOfLine`); Content-length, the last, puts `contextData`
on the empty line, where `OptionsAt` finds the option. A new read makes all of it start again.

`TypeCorrect` of this module needs that a line end behind a position has a first one, an induction; it follows from the well-foundedness of the
strict order on finite sets (lemma `Least`).

The refinement of `Ballot` rests on the same invariants. By `PlaceInv` the row in the URL is that of `text`, so what is noted is asked for; for a whole vote `OnTheWay` makes it the very option of the body. `text`
changes only with a new read, so `Asked` stays as it is until the parse ends; and a text that begins with a request line, so that something is asked for, gets to the end through `StateDoRequese` only, which notes.

The argument for connections. `LifeInv` has four parts. `TaskInv` says which tasks about a connection may be queued where, and how often: `established` and `destroyed` at most
once, in the connection's own loop, the first only while the state is new, the second only while it is connected and out of the map. `StateInv` relates `state` to the map and to those tasks: `remove` takes a
connection out of the map before it posts `destroyed`, so a second removal finds nothing. `EntryInv` keeps entries in the wheel of the connection's own loop, and `ReadyInv` says that only
watched channels have events in `ready`. From these `CallbacksSafe` and `DestroyAssert` follow, and, for each step, `DestructorAssert`. `WheelInv` adds `ArmedInv` (a connected one has
an entry, or its removal is under way), `DoneInv` and `SilenceInv` (the newest bucket that holds an entry is the one its silence says).
`TimerExact` needs the converse, too: `CountInv` says that the last entry of a served client has left the wheel only after a whole turn in silence; `SilenceInv` that none stays longer.

The refinement of `Service` adds `CauseInv`: for whoever is to be removed a reset or a full turn of the wheel in silence is on record, and stays so until the removal runs, although
the removal runs in another thread; a hang-up is only reported of a client that has reset. `AliveMeans` puts the reference count in terms of the map and of single tasks, so that the step in which a
connection is freed is seen: the end of a vector of functors, which may free several at once. Each action then is at most one step of `Service`.
`NobodyIsForgotten` is what is left of liveness without fairness: with `AwakeInv` (a loop with tasks has been woken or is on its way to them) and `HandInv`
(a client waits in the backlog, a new connection has its task, a connected one is watched) no stage before the last is one in which nobody would act.

The argument for the pools. `BaseInv` is the type invariant with the places of the main and the other threads (`MainInv`, `PlaceInv`): before a pool is filled nobody uses it. `SemInv`: the length of the list is the
semaphore plus those who have passed it and not yet popped, plus those who have pushed and not yet posted; `PopFinds` is read off. `CountInv`: list and
holders together are as many as were made, so with no fewer connections than loops one is left for whoever looks. `KeysInv` follows the connections to Redis, which loops started one
after another take in the order of the list, the master's first (`OrderInv`, `HeldInv`): so the first loop reads the master, and once every loop runs and none was refused, each server with connections has been read and had the keys (`ReadInv`, `EndInv`). `EmptyInv` says that an unfilled pool is empty, so filling it is a step of `Pool`; by `SemInv` `Pop` finds what it takes.
For `StartNeverStuck`, `SleepInv` says that what the main thread sleeps for is still to come from a thread that exists. That thread has no more than the two pools to wait at, and there, by `SemInv` and `CountInv`, a
semaphore at 0 means that another loop has passed it and has yet to post it.
For `ClientsInTurn`, `ListInv` says that `loops_` holds the first loops in the order of their start, all of them running; `TurnInv` says that the loops before `next_` have exactly one client
more than those from `next_` on.

The argument for the log. `PhaseInv` ties the places of the two threads together. `BufferInv` is about the pointers: all are distinct (`DistinctInv`), the spare ones are there and empty when the thread comes round (`SpareInv`, `EmptyInv`);
`Refill` has enough written buffers because the front takes the second spare one only when it has used `next`, and then it has given two back. `DebtsInv` (`TotalInv`, `DebtInv`)
follows the messages `stop` owes through `buffers`, `toWrite` and the file.
`LogInv` is about what the buffers hold. `OrderInv`: the messages of a buffer increase, and those of one buffer are below those of the next, in the order they will be written (`Ahead`). `FileInv`:
what waits is younger than the file. `FilledInv`: nothing thrown away is empty, which is why a cut has something to announce. With them `WriteBuffer` writes the oldest that wait, and what `Cut` throws away lies
without a gap between what it keeps and what came later.
`AllAccountedFor` is an invariant of `Journal` in which `dropped` grows by what is discarded. So it is proved there: `JournalStep` gives, for each step of the log, the step of `Journal` and what was thrown away with it, and
`AccountKept` that such a step keeps the account.

The argument for buffers. `OutputInv` is `InOrder` with the indices in order and the vector within its bound, so that no arithmetic wraps; it is preserved by each helper (lemmas `Ensured`, `AppendedBytes`,
`Retrieved`, `Refitted`). `InputInv` knows that a read begins with the indices at the front, so what it leaves is a function of its length (`ReadLeaves`).
For `Stream`, `OutputInv` makes the abstract queue a function of two numbers, what was taken and what was sent (`WaitingBytes`: the bytes `taken + 1 .. sent`). Putting and taking are then facts about such runs of numbers (`BytesJoined`, `BytesCut`).

Left to TLC: `Webbench`, a tool beside the server, whose totals (`AllAreCounted`) are sums over sets of children, an induction over data, and whose other invariant has not been proved; all liveness properties; and everything about `ENABLED`, which
the prover does not handle. `StartNeverStuck`, `ReadersMoveOn` and `InHand` say instead, in terms of the state, who can go on.

## 5. What is not modelled, and why

* `TcpConn::send`, `sendInLoop` and `shutDown` have no caller, so the state is never `kDisconnecting`; nor have `Buffer::retrieveUntil`, `appendIn64`, `readIn64` and the pools'
  `DestroyPool`. Failing `accept` (-1 becomes a descriptor, undefined) and `epoll_ctl`.
* Requests of 1024 bytes and more (the size of `Context::data_`), and URLs whose part after the last slash does not fit `file_path` (200 bytes with the working directory, `State.cpp:169-174`, 239): the copy goes beyond the array, which is undefined.
* Votes whose option selects a counter beyond `voteAdd` and `voteSituation` (`Cell` outside 0 to 15): they change other memory, which is undefined. The model has them add to nothing; nothing is claimed of them.
* The file sent is the one `stat` saw; `mmap` succeeds.
* What is left in the output buffer when a client half-closes is never sent: `handleRead` disables everything (`TcpConn.cpp:64`).
  `RepliesWritten` excepts it.
* The counters `freeConn` and `curConn` of the pools, changed outside the lock: nobody reads them after `init`. Fewer MySQL connections than
  loops: NULL then does reach `mysql_query`. The server makes eight of each, which is the condition in `NeverNull`.
* In `VotePipeline` the keys of Redis exist, on both servers; that they may not is in `ServerStart`. `SELECT` failing makes dbSYN dereference NULL, that is, a `Crash`.
* A message logged after `stop` has returned: the object is gone. Rolling of the log file is left out: a file is what was given to `LogFile::append`.
* Webbench's options, `build_request` and the number of bytes read: strings, and a sum like the others.
* A failed `UPDATE` loses its votes, because `voteAdd` is cleared all the same. This is the code's behaviour;
  it is why `RedisNeverLosesVotes` assumes that there is no such fault.
* `EventLoop::quit` is called only by the destructor of `EventLoopThread`; the server never ends normally.
* Formatting of the log (`LogStream`), time stamps, addresses, socket options: no state or ordering worth a model. `TimeQueue` is not used.

## 6. Plan

What is left, in the order of what it would add:

1. `ServerStart` and `VotePipeline` in one specification, so that a crash goes through the start again; both implement `Pool`, which is what they would have to agree on.
2. Proofs about `Webbench`.
3. `LogStream`: the conversion of integers, at the smallest negative one.
4. Two I/O loops in `connections`, beyond what TLC does in minutes; the proofs cover any number.
