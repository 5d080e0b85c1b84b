# KaIM: TLA+ specifications and proofs

KaIM is the server of an instant-messaging system, built on KaNet, its own epoll
library in C++11: event loops in threads of their own, timers, buffers, connections, a
log, and connection pools for Redis and MySQL.  This directory holds TLA+ modules that
model that code, TLC configurations that check them on small instances, and proofs,
checked by TLAPS, of what holds for every size.

Every part of the program that has behaviour is modelled; what is left out, and why, is
at the end.

## Files

| Modules | Content |
|---|---|
| `ConnectionPool` | abstract specification: what any connection pool promises |
| `KaCachePool`, `MCKaCachePool`, `KaCachePoolProofs` | the Redis pool; its instance; its proofs |
| `TimerQueue`, `MCTimerQueue` | the timers of an event loop |
| `TimerQueueProofs` | proofs about TimerQueue and LoopEventList |
| `KaLog`, `MCKaLog`, `KaLogProofs` | the asynchronous log |
| `Reactor` | the loop of one thread: EventLoop, KaPoller, KaChannel |
| `LoopThreads` | EventLoopThread and EventLoopThreadPool |
| `EventLoopProofs` | proofs about Reactor and LoopThreads |
| `TcpServer`, `TcpServerProofs` | TcpServer, TcpConnection, KaAcceptor and their threads |
| `MCNet` | instance of Reactor, LoopThreads and TcpServer |
| `Buffer`, `LineSearch` | the buffer of a connection and its searches |
| `CacheConn`, `KaCacheManager` | a redis connection; the pools' manager |
| `KaDBConn`, `KaDBPool`, `QueryResult` | a MySQL connection, its pool, its results |
| `DataBaseProofs` | proofs about the five modules of the two lines above |
| `ChatSession`, `KaZlibUtil` | packages in a stream of bytes; uncompressing |
| `StreamProofs` | proofs about Buffer and ChatSession |
| `ConfigFile`, `LoopEventList`, `Packing` | settings, loop events, checksum and encoding |
| `Conversions` | the pure functions of Packing and LineSearch against their reference definitions |
| `ConversionProofs` | proofs about ConfigFile and Conversions |
| `MCDataBase`, `MCData` | instances of everything from `Buffer` on |

`MC*_*.cfg` is one configuration for each run; `PROJECT.json` lists components, runs, the
source of each definition, mutants, hazards and theorems.

An operator whose name ends in an underscore and a word (`RelCacheConn_NoNotify`) is not
part of a model: it is a faulty variant of the definition after it.  `PROJECT.json` says
which property fails when the definition is replaced by the variant, so that every
property of a run is known to notice a bug of its kind.

To check a run: `tlc -config MCNet_all.cfg MCNet`.  To check proofs: `tlapm
EventLoopProofs.tla`.

`MCNet` and `MCData` instantiate several modules that share no state.  Their variable
`part` is chosen in the initial state and never changes; the actions of a module are
enabled only in its part, and the variables of the others keep one of their initial
values.  So a run explores the parts one after the other, never their product, and a
property of one module is trivially kept in the parts of the others.

## Inventory of the system

For each component: state; operations; whom it talks to; what is hard; what makes it
correct.

**EventLoop, KaPoller, KaChannel** (`Reactor`).  State: `m_channels`, each channel's index
and events, `m_activeChannels`, the size of `m_events`, `m_quit`.  Operations:
`updateChannel`, `removeChannel`, `poll`, `loop`.  The loop calls timers, channels and
functors.  Hard: an `epoll_ctl` that fails, descriptors that are used again, events of
channels that are gone.  Correct when the table, the channels' indices and the kernel's
set agree.  As written a new channel says it is registered already, so nothing is ever
registered; the handler of events is empty, `m_pendingFunctors` is never filled, and
`quit` does not stop the loop.

**EventLoopThread, EventLoopThreadPool** (`LoopThreads`).  State: `m_loop` published under
a mutex, the vector of loops, `m_next`.  Operations: `startLoop`, `threadFunc`, `start`,
`stop`, `getNextLoop`.  Hard: the hand-over of the loop, its end against those who hold
it.  Correct when `startLoop` returns a running loop and turns are fair.

**TcpServer, TcpConnection, KaAcceptor, KaSocket** (`TcpServer`).  State: `m_connections`,
`m_nextConnId`, `m_listening`, each connection's `m_state` and channel.  Operations:
`start`, `stop`, `newConnection`, `removeConnection`, `connectEatablished`, `handleRead`,
`handleClose`, `send`, `shutdown`, `forceClose`.  Hard: the acceptor's thread and the
loop's work on one connection, callbacks close it again, names are cut.  Correct when
states only go forward, callbacks come in order, and the map holds the live connections.

**TimerQueue and Timer** (`TimerQueue`), **LoopEventList** (`LoopEventList`), `time`.
State: `m_timers`, a `std::set` of (expiration, pointer), and in a timer `m_expiration`,
`m_repeatCount`, `m_cancled`; `m_loopList`.  `EventLoop::loop` calls `doTimer`, which
calls user code, which calls the queue again.  Hard: reentrancy under an iterator; four
meanings of the repeat count; keys that go stale.  Correct when the iterator stays valid,
a timer runs as often as asked, never early, and eventually.

**Buffer** (`Buffer`, `LineSearch`).  State: `m_buffer`, `m_readIndex`, `m_writeIndex`.
Operations: `readFd`, `append`, `prepend`, `retrieve*`, `ensureWritableBytes`,
`hasWritten`, `shrink`, the searches.  Hard: every boundary.  Correct when what is readable
is what was written, in order.

**Ka_Log** (`KaLog`).  State: `m_listLine`, `m_Exit`, `m_hLogFile`,
`m_CurrentWrittenSize`, the writer thread.  Operations: `init`, `output`, `uninit`; any
thread calls `output`.  Hard: the queue between the threads, exit against wakeup, a file
that is rolled and may fail, FATAL lines written past the queue.  Correct when no line is
lost, doubled or overtaken and nobody waits for ever.

**KaCachePool** (`KaCachePool`), **KaDBPool** (`KaDBPool`).  State: the free list, a count,
a mutex and a condition variable.  Operations: `Init`, `getCacheConn`, `RelCacheConn`,
called by any thread.  Hard: a connection attempt inside the critical section, waiting and
waking, callers that return a connection twice.  Correct when no connection is in two
hands, none is lost, the count is right and bounded, and no thread sleeps for nothing.

**CacheConn** (`CacheConn`), **KaDBConn** (`KaDBConn`).  State: the context of a connection
and when it was tried last; a MySQL handle and what is unread on it.  Operations: `Init`
and every command.  Hard: a server that loses a command before or after it ran it, a
result nobody reads, a clock that is set back.  Correct when no command runs twice and a
connection that failed is made anew.

**KaCacheManager** (`KaCacheManager`): a static pointer, created on first use without a
lock.  **QueryResult, Field** (`QueryResult`): a cursor over a result whose one row of
fields is overwritten.  **ChatSession** (`ChatSession`): `OnRead` cuts packages out of a
Buffer.  **ConfigFileReader** (`ConfigFile`): a map read from a file and written back on
every change.  **ProtocoIStream** (`Packing`), **KaZlibUtil** (`KaZlibUtil`): conversions.

The hazards, each at its line and with the properties that cover it, are in
`PROJECT.json`.

## KaCachePool

`pc[t]` is where thread `t` stands: not in the pool, in the loop of `getCacheConn`,
connecting, or asleep on `m_cond`.  What a thread does between taking and giving up
`m_mutex` is one step: `TakeFront`, `Wait`, `RelCacheConn`.  The connection attempt is the
exception.  It takes up to 200 ms of network time with the mutex held, so it begins
(`StartConnect`) and ends (`ConnectOk`, `ConnectFail`) in steps of its own and `mutex`
names its owner between them.  A thread woken by `notify_all`, or spuriously, goes back to
the loop and competes for the mutex.  `open` (the connections that exist) and `held` (who
has borrowed what) belong to the model; the pool itself does not record its borrowers.

Callers return what they hold, or once more something still idle, which the search in
`RelCacheConn` is there for.  They do not return a connection another thread has borrowed
in the meantime: the pool cannot tell it from a rightful return.

| Run | Instance | Shows |
|---|---|---|
| `pool` | 4 threads, one of which borrows 2 connections; limit 3 | `PoolSafe`: none in two hands, none listed twice, none lost; `NoLostWakeup`; the pool implements `ConnectionPool` (`PoolSpec`); no deadlock; `SleeperIsWoken` |

Bounds.  The pool starts with two connections, so a limit of 3 is the least at which it
grows; then 4 threads are enough to have it full with a sleeper.  Four addresses leave one
unused, so that a wrong growth would show.  One caller nests; were there two that do, they
could wait for each other for ever.  `WithinLimit` (proved, and what `ConnectionPool` promises) has the larger of the configured maximum
and 2 as its limit: `Init` opens two connections whatever the maximum is.

Fairness: only that a caller which holds a connection and is not blocked returns it.
Nothing is assumed of the mutex, the network or spurious wakeups.  `SleeperIsWoken` says
that a sleeper is woken, not that it gets a connection: it may lose the race for the mutex
for ever, and the code has no queue that prevents it.

Proved (`KaCachePoolProofs`), for any threads, finite set of addresses, limit and borrowing
depth: `TypeCorrect`, `Safety`, `Bounded`, `NoWakeupLost` and `Implements`.  They rest on
one inductive invariant, `IInv`.  What it adds to the properties is `ConnectAlone`: during
a connection attempt the connecting thread owns the mutex, the list is still empty and the
count below the limit.  That is why the new connection is the one the caller gets, and why
the count stays bounded.  `PopFront` and `PushBack` say what taking and appending do to the
set of elements; counting uses the library's facts on cardinality.  The refinement maps
`held` to `inUse`; under `IInv` the abstract `Idle` is the free list, so `TakeFront` is
`Acquire`, `ConnectOk` is `OpenAndAcquire`, `RelCacheConn` is `Release` (or nothing, for a
second return), and the other steps change nothing that the abstraction sees.

## TimerQueue

A timer is a record: the constructor's arguments, `m_expiration`, `m_repeatCount` and
`m_cancled`, and history (`made`, `ran`, `removed`).  The set is ordered by the expiration
at insertion, which is the `when` of the constructor, then by address: `Before`.  `iter` is
`doTimer`'s iterator.  A pass is a step per timer (`SkipCancelled`, or `BeginCallback` and
`EndCallback`) and `StopWalk`, since during a callback the user may add, remove and cancel
timers, and the clock may move.  `Timer::Run` is split around its callback in the same way:
count and expiration move in `EndCallback`, and `Advance` is what `doTimer` does with the
entry afterwards.  `passTime` is the time `doTimer` took at its start.

A callback may remove any timer, also the one it is called from; nothing in the code keeps
it from that.  Then `doTimer` goes on from an entry that is erased, which is undefined: the
model goes "wild" (`UseErased`) and follows it no further.  No comment or test says whether
the call is allowed, so it is not stated as an error; `TypeOK` says that it is the only way to
invalidate the iterator.

| Run | Instance | Shows |
|---|---|---|
| `timers` | 2 timers with counts -1, 0 and 2 and two periods, or 3 with counts 0 and 2 | `TypeOK` (`iter` points to an erased entry only after the running callback removed its own timer); `RunsAsAsked`: never too often (`NeverTooOften`), dropped only when done (`DroppedWhenDone`), never early (`NeverEarly`); `DueOnesVisited`: what a pass leaves unvisited was added meanwhile or is behind a timer that was not due; `FiniteTimersEnd`: where no timer runs for ever, every timer ends up out of the set or cancelled (`EveryTimerEnds`), unless "wild" |
| `timer_expiry` | as `timers` | **violated**: `InvalidAtExpiry`. A timer that is to run twice stays valid after its time stamp has expired and it has run once |

Bounds.  Three timers are the least for which one can be skipped between two others; two
suffice for everything about one timer and a neighbour.  Count 2 is the least at which a
timer survives a run and then ends.  The clock (`MaxTime`) outlasts every expiration a
finite timer reaches, but none that a timer with count -1 does: at the end of the clock that one
would hold up those behind it, so `EveryTimerEnds` is checked where there is none.

`CHECK_DEADLOCK FALSE`: "wild" is where the model ends.

Fairness: the loop calls `doTimer` again and again, a pass goes on, callbacks return, and
time passes; that is what `EventLoop::loop` does.  The user owes nothing.

Proved (`TimerQueueProofs`), for any timers, periods, counts and clock: `TypeCorrect`,
`TimersRunAsAsked` and `PassesVisit`.  The invariant `IInv` adds the `Books` of
every timer in the set, with expiration and remaining count as functions of the runs so
far, and `Ahead`: what a pass has not visited is at or after its iterator.  The books give
the counts and the times; `Ahead` gives `PassesVisit`, an action property.

## KaLog

A line is known by its length.  `Output` is a call of `output` that passes the level filter
and is not FATAL.  `wpc` is where `writeThreadProc` stands; its steps are split wherever
another thread can act: around the mutex, before `wait`, and between closing and opening a
file.  `m_mutexWrite` is held across steps only by a writer that has found nothing to do and
is about to wait.  `uninit` sets `m_Exit`, notifies and joins in three steps, since it takes
no mutex.  `m_Exit` is a plain `bool` in the code; reading and writing it is taken to be
atomic.  `m_Running` is never cleared and guards nothing, so it has no variable.  A FATAL
call is the second process (`fpc`): it looks at `m_hLogFile`, perhaps closes and reopens,
writes, and crashes the program, without the mutex.  A `FILE*` used after it was closed may
seem to work, fail, or crash.

| Run | Instance | Shows |
|---|---|---|
| `log_safety` | two lengths, 3 lines, a roll size of 2, two calls of `init`, failing files | `InOrder`: no line lost, doubled or overtaken; `Drained`: a writer that returns has written what was queued before `m_Exit`; `NoLineAsleep`; `EveryLineWritten`; `UninitEnds` |
| `log_crash` | a FATAL line against the writer | `PrintedInOrder`: what is printed is the queued lines in order, whichever of the two closes the file under the other |
| `log_fatal` | a FATAL line against the writer | **violated**: `FatalOnRecord`. The writer may close the file between the call's test and its write |

`m_CurrentWrittenSize` is never reset, so once a file was full every line gets a file of
its own; the model has it.

Bounds.  Three lines of one or two bytes roll a file of two bytes at least once with a line
in the writer's hands and one queued.  Two calls of `init` reach a second writer that finds
`m_Exit` set.  `CHECK_DEADLOCK FALSE`: the program stops logging, ends with `uninit`, or
crashes.

Fairness: the writer thread and the thread in `uninit` are scheduled.  Nothing makes the program log, and no spurious wakeup is assumed.

`UninitEnds` is stated for a writer that is asleep when `m_Exit` is set.  If the writer has
looked at `m_Exit` and not yet begun to wait, the notification is lost and `uninit` hangs
until another line is queued; the model has that behaviour.

Proved (`KaLogProofs`), for the program without FATAL lines, any lengths and roll size, with
and without a file, whether or not files fail: `TypeCorrect`, `KeepsOrder`, `Drains` and
`NeverAsleep`.  `IInv` adds `Hands`, which ties the writer's place to the line it holds and
says that a writer is gone only on exit or failure.  `Drained` then follows from `InOrder`: a
writer that leaves found the queue empty and its hands empty, so all that was accepted is
delivered.  A log without a file has no run of its own; the theorems cover it.

Proved, with FATAL lines: `PrintsInOrder` (`PrintedInOrder`).  `PrintInv` needs no more than
that the sequences hold lines and that `init` finds no writer that is about to print: what
is printed depends on the queue and the writer's hands alone, and no step of a FATAL call
touches either.

## Reactor

Channels are used by the thread of their loop: before `loop()`, or in a timer's callback
(`UserCode`), which is the only user code that `loop()` runs.  `kernel` is the epoll set and
`ctl` the outcomes of `epoll_ctl`: it does what it is asked, refuses an addition for lack of
memory, or a change of what it does not have.  `told` is what the last `updateChannel` of a
channel answered.  `DestroyChannel` ends a channel and closes its socket, which the kernel
then forgets and the table does not; `NewChannel` may get the same address and the same
descriptor.  `MakeNew` is `setIndex(KNew)`: it is public, nothing under `src` calls it, and
without it no channel can be registered, so the rest of the poller can be looked at only with
it.

| Run | Instance | Shows |
|---|---|---|
| `net`, parts `masks` and `live` | the loop's own channel and one with every mask, or two with two masks; three descriptors; room for one event | `PollerAgrees`: the types, what the kernel watches is in the table (`KernelInTable`), what was reported as done is watched (`ToldIsWatched`), only live channels are handled, once a pass (`HandlesLiveOnce`); `PendingIsHandled` |

Bounds.  Two channels of the user and two free descriptors are enough for a channel that
comes back under the other's descriptor, or under its own with an old entry in the table.
Room for one event at first makes `m_events` grow twice.

Fairness: `loop()` runs, and `epoll_wait` and the callbacks return.

Proved (`EventLoopProofs`), for any channels, descriptors and masks: `BooksAgree` (`PollerAgrees`).
`IInv` adds `OneHolder` (a descriptor has one channel), `KernelKnown` (what the kernel
watches, the table has under a channel that exists, is `KAdded` and was told so), and that
the list of active channels is empty while user code runs.  `KernelKnown` is what makes a
reused descriptor harmless: the table may have a channel that is gone, but the kernel never
watches for it.

## LoopThreads

`opc` is where the pool's owner stands, `tpc[i]` where the i-th thread does.  `startLoop`
makes the thread and waits; the wait is split into `Sleep`, `SpuriousWake` and
`LoopPublished`, so that the notification may come before, between and after them.  `quit`
stores false (`QuitValue`), so no loop ends; `stop` blocks in its first join, and the part of
the owner that comes after is never reached.  No property demands that: `HandedOutLive`
speaks of the time until `stop` is called.

| Run | Instance | Shows |
|---|---|---|
| `net`, part `threads` | 0 to 3 threads, 2 turns for each loop | `LoopsServe`: the types, and no null loop is handed out, and until `stop` those that were are published and alive (`HandedOutLive`); `TurnsAreFair`: no loop gets two turns more than another; `StartReturns` |

Fairness: the threads run, and so does the owner while it is in `start`.

Proved (`EventLoopProofs`), for any number of threads: `PoolServes` (`LoopsServe`) and
`FairTurns` (`TurnsAreFair`).  `LoopsIInv` says
how far `start` has come (`Progress`, `Unborn`), that a loop in the vector is published
(`LoopsRun`), and that exactly the loops before `m_next` have had one turn more than the rest
(`Turns`), which is what makes `TurnsAreFair` inductive.

## TcpServer

`at[t]` is the stack of thread `t`: thread 0 runs the base loop, the next ones the loops of
the pool, and the last is a thread of the application that kept a connection.  A handler is a
frame whose `pc` names the statement it is at; the code's tests of `m_state` and the
assignments after them are steps of their own (`CloseTest`, `CloseSet`), because other threads
can act between them.  A callback is a frame `"user"`, from which the application calls
`send`, `shutdown` or `forceClose`, or returns; `forceClose` inside a callback stacks frames,
up to `MaxDepth`.  `Name` is the name of a connection: `snprintf` cuts it, so that only the
first digits of a long number remain (`nameRoom`, in base `Radix`).

`send` changes nothing of a connection but what went out, so the write-complete callback, which
it calls when all did, has no frame: what it may do, the callback that sends may do instead.
`stop` leaves null pointers in the map; a later `stop` calls `connectDestroyed`, whose body is
empty, through them, and that is counted for no connection.

`dispatches` says whether handlers are called at all.  FALSE is the code as it stands (see
Reactor); TRUE is the reactor the handlers are written for, and what the passing run explores,
together with some behaviours of the first.  `watched` and `accepting` say what such a reactor
would report; `Enable` and `listen` may fail.  `Enable` that fails closes the connection,
as `connectEatablished` does.

| Run | Instance | Shows |
|---|---|---|
| `net`, parts `one` and `two` | one connection with a worker and an outside thread; two without, the second of which gets the first one's name if only one digit fits | `NotifiedInOrder` and `StateGoesForward`, where one thread alone uses connections (`Confined`); for all threads, `ClosedLeavesTheMap`, and, under distinct names and before `stop`, `WatchedIsKept` (with the types, these two are `MapHoldsTheLive`) and `DestroyedOnce`; `GoneIsRemoved` |
| `net_listening` | the code as it stands | **violated**: `ListeningIsWatched` |
| `net_send` | one connection | **violated**: `NothingIsDropped` |

Bounds.  One connection with three threads has every race there is inside a connection; two
connections are needed for the map alone, and carry no data.  One message is enough to
overtake the "up" callback.  Two frames let a callback close the connection it was told of.

Fairness: a thread that is inside a connection goes on, callbacks return, and a loop handles
what is ready.  Peers and the application owe nothing.

Proved (`TcpServerProofs`), for any number of connections, loops, messages and frames, and any
room in the name: `MapHoldsTheLive`, `DestroyedOnce`, `NotifiedInOrder` and `StateGoesForward`,
each with the premises above.
There are two invariants.  `IInv` holds on any threads.  A connection that is being made is in
the hands of the base loop alone, and its number is nobody else's (`MakesFresh`): so the name
it is entered under still has it when it is watched.  From then on it is in the map until the
thread that closed it, which has a frame at `"down"` or `"remove"`, takes it out (`WatchedInv`,
`ClosedInv`, `MapInv`); that the entry is still there when `destroyed` is counted is
`DestroyedInv`, what makes `DestroyedOnce` inductive although two threads may close one
connection.  `ConfInv` is what one thread adds: where the base loop stands (`Steps`, a stack of
at most two frames), and that the state of a connection and the calls made of it so far say
each other (`Told`).  `NotifiedInOrder` follows from `Told`, and `StateGoesForward` from what
the loop knows at each step (`Knows`).

## Buffer

A buffer is a record `[cell, size, r, w]`.  The methods of the class are functions from
buffers to buffers (`HasWritten`, `Retrieve`, `MakeSpace`, `AppendTo`, `ReadInto`, ...) that
call each other as the methods do; the actions are its public operations.  A buffer belongs
to one thread, so each operation is one step.  `owed` is what its callers count on finding.
`promised` becomes false at the first call after which they can count on nothing.  `append`
and `shrink` may lose what they are given and tell nobody: `hasWritten(len)` refuses to advance
when `len < writableBytes()`, that is when there is room to spare.  And `retrieveAsString(len)`
returns `len` bytes and, unless they are all there is, leaves them readable, so that a caller
who counts on them gone reads them twice.  `readFd`, `prepend`, `retrieve` and the rest either
do what they return or return that they did not.

`RetrieveBytes` takes all or nothing, as `retrieve` does (its first test refuses every
partial length); `RetrieveAsString` is the method that ignores what `retrieve` answers.  `LineSearch` has `findCRLF(start)` and `findEOF` as functions of the
readable bytes; `LinesAreFound` (part of `ConversionsAgree`) follows a reader that goes from line to line through
every packet of up to six bytes.  `findString` and `findCRLF()` search from `peek()`
backwards to `begin()`, a range that is not one; what that does is undefined.

| Run | Instance | Shows |
|---|---|---|
| `data`, part `buffer` | prepend area 2, initial size 2, extra buffer 3, writes up to 4 bytes | `Lossless`: until `append`, `shrink` or a `retrieveAsString` of a part, the readable bytes are exactly those counted on, in order; `AllOrNothing`: what the first two lose they lose whole, and the third leaves all or nothing; `EnsureWorks`: `ensureWritableBytes` makes room |
| `buffer_append` | the same, smaller | **violated**: `ReadableIsWritten`. Bytes appended with room to spare cannot be read |

Bounds.  Writes of 1 to 4 bytes into 2 writable ones end before, at and after the end of
the buffer, and a read may fill both parts of `readv`; prepending moves the read index
down, and the buffer can grow several times before `MaxSize`.  Two byte values are enough
to see an order.

Proved (`StreamProofs`), for any sizes, bytes and lengths: `TypeCorrect`, `NothingLost`,
`EnsuresRoom` and `AllOrNone`.  `TypeOK` is inductive by itself, and with it `Lossless` is.
The work is in a lemma for each method (`StoreFacts`, `EnsureFacts`, `AppendToFacts`,
`ReadIntoFacts`, ...) that says what it does to the indices and to each cell, and in lemmas
that carry those facts over to "the readable bytes are this sequence" (`HoldsMore`,
`AppendHolds`, `EnsureHolds`).  `TypeOK` includes that the read index never leaves the
prepend area, so the compacting branch of `makeSpace` is never taken: after a partial
retrieval it would be, and there is none.

## CacheConn, KaCacheManager

A connection is used by one thread at a time, so a command is one step: `Init`, then one
`redisCommand`, which the server answers, refuses with an error, or loses before or after
running it (`Lost`).  `InitOutcomes` are the outcomes of `Init`: the context is kept as it
is; or it is too early; or the attempt fails; or `select` is refused and the context stays.
`As` gives for each type of reply what the method makes of it.  `hist` counts what an
observer of the server would.

Every step of `getInstance` that reads the static pointer is a step of the model, since the
function reads it again after `new` and after `Init()`.

| Run | Instance | Shows |
|---|---|---|
| `data`, part `CacheConn` | time up to 14 | `LossesAreBounded`: at most one command is lost in four seconds (`AtMostOneLossPerInterval`), and a failed one ran at most once (`RunAtMostOnce`); `ContextIsRight`: a freed context comes from `isExist` alone (`StaleOnlyAfterIsExist`), another database from a refused select (`StrayOnlyAfterRefusal`) |
| `data`, part `KaCacheManager` | 2 callers, 3 addresses | `SerialCallersShare`: calls that do not overlap share one filled manager |

Proved (`DataBaseProofs`), for any course of the clock: the two of `CacheConn`.  `CacheInv`
adds `InDbUnlessRefused`; the counts of attempts, of losses and of the time of the last
attempt bound each other, and so are inductive only together.  `Books` is the invariant as a
predicate of a connection and a history, to state once what `Init` keeps.

Proved, for any number of callers: `SerialCallersShare`.  `ManagerInv` says,
for the one caller inside `getInstance`, what the static pointer points to at each step
(`AgreesWith`); a caller that holds a manager excludes every step that creates or deletes one.

## KaDBConn, KaDBPool, QueryResult

A statement is its kind: what the server answers to it.  `real_query` has the client
library's outcomes; in particular `CR_SERVER_GONE_ERROR` only for what was not sent, which is
why the second attempt of `query` is harmless.  `unread` is what must be read before the next
statement.

`KaDBPool` has the algorithm of `KaCachePool` and is an instance of that module, with an end
of its own.  `QueryResult` keeps the stored result beside the row that `nextRow` fills.  Its
columns are numbered from 1.

| Run | Instance | Shows |
|---|---|---|
| `data`, part `KaDBConn` | up to 3 lost handles | `RunsAtMostOnce`; `SpoiltOnlyByExecute` |
| `data`, part `DBPool` | 4 threads, limit 3, 4 addresses | `DBPoolSafe`: as `KaCachePool`, with the wakeups |
| `data`, part `QueryResult` | up to 2 rows of 2 columns, names that may be equal, NULLs | `RowsAreCurrent`: nothing of an earlier row is left (`RowIsCurrent`), a copy stays as it was (`CopyOutlivesRow`) |

Bounds.  The pool starts with two connections: a limit of 3 lets it grow, with an attempt that
succeeds or fails, and four threads have it full with a sleeper.  Four addresses leave one unused.

Proved (`DataBaseProofs`): the two of `KaDBConn`, over the invariant `DBConnInv`, and that no call
reads a result that `execute` left (`SpoiltForGood`, which no run checks).  Proved,
for results of any size: `RowsAreCurrent`.  `ResultInv` ties what the row shows
(`RowShows`) to the stored result, NULLs included, since a copy keeps the value of a NULL
column; `FirstOfTheName` says which column a name stands for.

Proved, for any threads, finite set of addresses and limit: `DBPoolIsSafe` (`DBPoolSafe`).  While
the pool lives its steps are those of KaCachePool, so the lemmas of `KaCachePoolProofs` are
taken over by INSTANCE; what is added is that the destructor, which runs once nobody uses the
pool and deletes what is idle, leaves a state that no call changes any more (`Gone`).

## ChatSession, KaZlibUtil

A byte is a record that says what it is part of.  The peer sends packages (`PeerSends`), also
ones whose head lies about the sizes; their bytes arrive in
pieces of any length; a turn of `OnRead`'s loop is a step.  `retrieves` says which Buffer the
session stands on: FALSE is the Buffer as it is, TRUE one that gives up the bytes it is asked
to, for which `OnRead` is written.  `process` has no return statement, so it answers anything.
zlib is external: compressed text is cells that say which text they stand for, and `uncompress`
ignores what is behind them.  So a `compressSize` that is within range and too long takes the
beginning of the next package away unnoticed, and what comes to the front is no head: `OnRead`
copies whatever those bytes are (`misread`, any head of the instance).  `compressBuf` is called
from nowhere and not modelled.

| Run | Instance | Shows |
|---|---|---|
| `data`, part `chat` | up to 3 packages of 6 kinds, one with a `compressSize` too long, 4 calls of `process` | `FramedInOrder`: where `retrieve` takes what it is asked to, the bodies are whole and in order up to and with the first whose `compressSize` is too long (`BodyIsProcessed`); on either Buffer no package is left waiting (`NoneLeftWaiting`) |
| `chat_body` | the Buffer as it is | **violated**: `BodyIsProcessed` |

Proved (`StreamProofs`), for any packages, pieces and sizes: `FramesInOrder` (`FramedInOrder`).
`ChatInv` says that while the connection is open, and no package used up so far had a
`compressSize` that was too long (`Straight`), the bytes not used up, arrived and coming, are
what is left of the packages, each head and body after the other (`Framed`, `IsRests`); so the
head in front is the next package's, and cutting it leaves the rest.  A body cut short by its
head does not uncompress, and the connection is closed (`PackageIsCut`); one with a
`compressSize` that is too long is processed all the same, and ends `Straight`.

## ConfigFile, LoopEventList, Packing

Text is a sequence of character codes, since reading and writing of lines is what the
properties are about.  A write is a step per pair; a program that dies, a write that fails
and a full disk leave any beginning of what was written.  The properties are stated for what
a file can hold at all (`Tidy`).  `left` is the names that the walk over the map has still to
visit; the next is the `Least`, as in a `std::map`.

A pass over the loop events is a step per item, and the callback a state of its own.  An item
that removes itself ends the model in "wild".

| Run | Instance | Shows |
|---|---|---|
| `data`, part `config` | three names, values with '#', '=' and blanks, one pair too long for the line buffer, 3 files | `SettingsSurvive`; `LossIsAtTheEnd` |
| `data`, part `list` | 4 items | `PassRunsEach` |
| `data`, part `packing` | packets of up to 6 bytes, numbers around each change of length | `ConversionsAgree`: `ChecksumVerifies`, `SevenBitsDecode` and `LinesAreFound` |

Proved (`TimerQueueProofs`), for every set of items: `PassRunsEach`.  In `ListInv` the walk stands at a
position such that exactly the items before it have run (`StandsAt`); removing an item before
it moves the position, and adding one behind it does not.

Proved (`ConversionProofs`), for settings and files of any number and length and any two line
buffers of which the one that is read into is not the smaller: `WhatIsSetComesBack`
(`SettingsSurvive`) and `LossIsOnlyAtTheEnd` (`LossIsAtTheEnd`).  The invariant is `ConfigInv`:
during a write the file on the disk is empty and, if the settings are tidy (`Tidy`), what went
out so far is the whole lines of the names before those in `left`, so that loading it gives
exactly their settings (`WholeLines`).  A line that is added at the end of whole lines is read by itself
(`LoadedAppend`), and the line of a tidy pair is read as the pair (`PairLineFacts`, `CutPair`);
a line that is cut is read as nothing, or as the name with a beginning of the value
(`CutLine`).  That settles both properties, for a write ends with whole lines and at most one
that is cut.

`checksum` adds up in an `unsigned int`, which wraps (`UInt`, 2^32): carries are lost in packets of
more than 128 KB, whose checksum need not verify.  `ChecksumVerifies` is about packets whose
sum fits (`Fits`); the instance's `UInt` is so small that some of its packets do not.

Proved (`ConversionProofs`), for packets of any bytes, all natural numbers and any width of an
`unsigned int` of at least sixteen bits: `ConversionsCorrect` (`ConversionsAgree`).

- `ChecksumOfBytes`: for packets short enough not to wrap, up to 131071 bytes where `UInt` is 2^32.
  Adding a carry back (`Carry`) keeps the sum modulo 2^16 - 1 and does not
  make it zero (`CarriedFolds`).  A packet with its checksum sums to a positive multiple of
  2^16 - 1, and 2^16 - 1 is the only one that sixteen bits hold (`FoldedMultiple`).
- `EncodeDecodes`: what a number is written as (`Writes`) is one more group before what the
  number without its low seven bits is written as (`WritesMore`).
- `BytesLinesFound`: a reader that missed an end would always stand before it and yet go on by
  one byte at least (`WalkFindsAll`).

The functions of these two modules are recursive, and the induction theorems of the library,
which take a predicate, are of no use to the provers.  `SetInduction` and `StepInduction`
state the same of a set of numbers, and follow from the well-foundedness of `<`; `Recursion`
says that a function with one recursive call, on a smaller argument, exists, which is what
the `CHOOSE` in a recursive definition needs.

Bounds.  The line buffers are 6 and 12 characters, so that a short pair is cut and a line is
read in two pieces.  Four items leave one on each side of two that a callback adds and
removes.

## What is assumed, and what is only model-checked

The proofs assume only the named assumptions on constants, which TLC evaluates in the passing
runs, and the library's theorems on sequences, functions and finite sets.

Every invariant and every action property that a passing run checks is proved.  Only TLC
checks liveness (`SleeperIsWoken`, `FiniteTimersEnd`, `EveryLineWritten`, `UninitEnds`,
`PendingIsHandled`, `StartReturns`, `GoneIsRemoved`), because fairness and ENABLED are out of
the proof system's reach, and the absence of deadlock.

The type invariants of KaCachePool, KaLog, Buffer and KaDBConn, and `SpoiltForGood`, are proved
and in no run; those of the other modules of the theorems are in a run too.

`CHECK_DEADLOCK FALSE` stands where the system may stop: objects that are no longer used,
peers that have sent everything, a program that has ended.

## Disagreements found

| Run | Code | What it says elsewhere |
|---|---|---|
| `buffer_append` | `Net/Buffer.h:67`: bytes appended with room to spare are not readable | `Buffer.h:39`: `readableBytes` counts what was written and can be read |
| `chat_body` | `ChatSession.cpp:79`: `OnRead` steps over a head with a `retrieve` that refuses, and gives `process` the head | `ChatSession.cpp:94`: `process` handles the protobuf data that was received |
| `log_fatal` | `Util/KaLog.cpp:189`: `m_hLogFile` is shared without a lock | `KaLog.cpp:211`: crash after writing |
| `timer_expiry` | `time/TimerQueue.cpp:59`: a timer that is to run n times stays until it has, also after its time stamp expired | `KaTime.h:15-17`: it becomes invalid when the time stamp expires before it has run n times |
| `net_listening` | `Net/KaAcceptor.cpp:32`: enabling the new channel fails and nobody looks | `KaAcceptor.h:35`: from then on the socket is listened on |
| `net_send` | `Net/TcpConnection.cpp:73`: what the socket does not take is dropped | `TcpConnection.h:131`: `m_outputBuffer` is used to send data |

Others, which the models show and no run states:

- `Util/KaLog.cpp:330`: `m_CurrentWrittenSize` is never reset, so after the first full file
  every line gets a file of its own; `KaLog.cpp:332` speaks of a new file when there is none or
  it is full.
- `time/TimerQueue.cpp:77`: an entry keeps the key it was inserted with, so the first entry
  need not be the next to expire; `TimerQueue.h:54` calls it a heap sort of timers.
- `KaCachePool.cpp:573`: two connections are opened in any case; `KaCachePool.h:123` has the
  maximum number of connections.
- `KaCachePool.cpp:650`: overlapping first calls make two managers; `KaCachePool.h:131` has
  one.
- A redis method that returns a string returns the text of an error as if it were a value
  (`As(Text, ...)`); `mget`, `hget` and `hgetAll` send commands that no server knows, or that
  it refuses.
- `KaDBManager.cpp:88`: `query` returns NULL for a write that succeeded; the comment at
  `KaDBManager.cpp:48` takes NULL for an error.

## Not modelled

- **KaDBManager**: `getInstance` creates a manager only when there is one, and the constructor
  is private, so no manager can exist; `RelDBConn` returns at once when it is given a
  connection.
- **handleWrite** and `shutdownWrite`: nothing enables writing on a channel.
- **doPendingFunctors**: nothing is ever queued.  **handleEventWithGuard** is empty.
- **process** of ChatSession, **ChatServer**, **HttpServer**, **TcpSession**, **KaCo**, the
  streams of ProtocoIStream: no bodies.  **KaSingleton**: not used.
- **KaSocket** beyond bind and listen, **DaemonRun**, **Timestamp**: one system call or one
  expression each.  Generated protobuf code, SQL and the examples.
- Races inside a `std::map` or `std::set` that two threads change: undefined, and the models
  take each change as one step.
- Contents of commands, statements, log lines and addresses: the models keep what the
  properties tell apart.
