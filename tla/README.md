# A verification project for base_com

base_com is a small library of C++ wrappers for Linux (threads, events, shared
memory, epoll servers, logging) with a few programs that use it. This directory
holds TLA+ models of the parts that keep state, TLC configurations that check
them on small instances, and TLAPS proofs of the safety properties that matter
most. All paths below are relative to the repository; `src/...` stands for the
repository's root. The source's comments are in Chinese (GBK); they are quoted
in translation, the original is in the findings of `PROJECT.json`.

To run one check: `tlc -config MCEvent.cfg MCEvent.tla`. To check the proofs:
`tlapm EpollPipelineProofs.tla` and the other `*Proofs.tla`.

## 1. The system

| component | state | operations | interacts with |
|---|---|---|---|
| `EpollServer` (epoll_server.cpp) | its position in `BindEpollRecv()`, `m_epfd`, `m_listenfd`, the accepted descriptor | set-up (epoll, socket, registration, bind, listen), epoll loop, accept, first read, write of a message | writes descriptors into the pipe; shares the process's descriptor table with the reader |
| `PipeReadThread` (epoll_reader.cpp) | its position in `ReadPipe()`, `msg.fd`, the events of the last `epoll_wait()` | pipe read, `SetNoBlocking()`, registration, `epoll_wait()`, the branches for data, error, end of file, hang-up | reads the pipe; closes what it was given |
| base/main.cpp | the main thread's position, the threads it has started | fork, execlp, pipe, start of the two threads, end after `scanf()` | the life of both threads and, through the sockets, of the clients |
| `CEvent` (event.cpp) | mutex, condition variable, flag | `Wait(ms)`, `Set()`, `Reset()` by any thread | the clock |
| `ShmOperator` (shm_operator.cpp) | `m_shmid`, `m_memoryAddr` | create, destroy, attach, detach, destructor | the System V segments of the machine, other processes |
| rot13 (rot13/main.cpp) | a bufferevent per connection | accept, read and error callbacks | libevent |
| `CThread` (thread_unix.cpp) | `tid`, `threadStatus` | start, join, timed join | base class of the two epoll threads |
| client (client/client.cpp) | socket, position in the message, count of the loop | socket, connect, send loop, read, close | both threads of the server, through its connection |
| `CThreadMutex`, `CThreadRWLock`, `CSemOperator` | a handle | one library call each | |
| `MysqlConnection` (mysql_connection.h) | last result, its cursor, last status | query with a retry, rows, cursor, destructor | libmysql and its server; not included by any source file |
| `MyLog4Cpp` | a logger | log lines | |
| Kafka, ZooKeeper, `msq_operator`, `select_client` | commented out, or empty classes | | |

What is hard in it:

* *Descriptors cross a thread boundary as numbers.* The accept thread writes a
  number into a pipe and forgets it, or closes it when the write fails. The
  reader acts on the number later. The kernel gives the lowest free number out
  again at once, so a mistake on either side shows as work on a stranger's
  connection, or as `exit(1)` in `SetNoBlocking()`, and only in an interleaving
  that no test makes.
* *Edge-triggered epoll twice.* An event that is not acted upon does not come
  back. The reader handles a batch of events while the peers go on and while the
  accept thread reuses numbers.
* *Two blocking points* (a full pipe, a silent peer) in threads that wait for
  each other's progress.
* *A condition variable with a deadline*, spurious wake-ups, early returns.
* *Calls that fail half-way* in `ShmOperator`, and addresses that are given out
  again.
* *A stream cut into arbitrary reads* in rot13, with a watermark at which
  libevent stops reading.

* *Two programs that wait for each other.* The client reads a reply that the
  server never writes, and the server's reader closes a connection when the
  client ends. Who can get away, and how, depends on both and on the main thread.
* *A retry that cannot know* whether what it repeats was done: `Execute()`.

What makes each part correct: every descriptor has one owner; events are
current; a failed set-up leaves nothing open; neither thread blocks the other
for ever; an event wakes all its waiters, and only for a reason; an object never
points to, or detaches, memory that is not its own; a reply depends on the bytes
sent and not on how they arrived; a message reaches the connection whole however
`send()` cuts it; success of a query is success of this query.

## 2. The modules

| module | models | abstracts |
|---|---|---|
| `Kernel` | TCP connections, the accept queue, descriptors, the reader's epoll instance, the pipe | external code: from the calls the two threads make. Data is counted, not carried |
| `EpollServer` | `BindEpollRecv()`, one action per system call and outcome | `spc` is the next call. `m_maxEventSize` plays no part, as one descriptor is registered |
| `PipeReadThread` | `ReadPipe()`, one action per call, one per branch of the event loop | `rpc` is the next part. The spin on the empty pipe is waiting |
| `EpollPipeline` | the two threads `TestEpoll()` starts, with arbitrary peers; their safety and liveness properties | |
| `ConnectionLife` | what the pipeline implements: the way of each connection from its arrival to its end | no descriptor numbers, no data, no events, no failures but their effect |
| `BaseMain` | the main thread of base/main.cpp in the child of `TestFork()` | the parent prints and ends |
| `TcpClient` | client.cpp, one action per call of `main()` and outcome | the message is `MsgLen` units; 1000 tries are `MaxLoop` |
| `BaseCom` | the programs together: `EpollPipeline` without its arbitrary peers, `TcpClient` in their place, and `BaseMain` | |
| `MysqlConnection` | mysql_connection.h, one action per library call | queries and addresses are model values; the library and the server from what the calls may return |
| `EpollClaims` | two statements of the comments that the code does not keep | |
| `CEvent` | event.cpp, one action per statement that other threads can see | time in ticks; `Second` is where `tv_nsec` must carry |
| `ManualEvent` | the abstract event `CEvent` implements | no mutex, no time |
| `CEventProps` | the properties of `CEvent`, the refinement mapping | |
| `ShmOperator` | shm_operator.cpp, one action per method call, with the kernel's segments and another process | see the note on atomicity below |
| `CThread` | thread_unix.cpp: one object, several users, the threads it starts | identities are numbers that are given out again after a join |
| `Rot13`, `Rot13Props` | the callbacks of rot13/main.cpp and what libevent does between them | |
| `SeqLemmas` | lemmas on the sequences of the models | |
| `*Proofs` | the theorems | |
| `MC*` | constants for TLC | |

`EpollPipeline` extends `EpollServer` and `PipeReadThread`, which both extend
`Kernel`: the kernel's variables are what the threads share. An action of one
thread leaves the variables of the other unchanged, in `Next` of the
composition. A step is one system call, as that is the grain at which the two
threads see each other: between two calls a thread touches only its own
variables.

`ConnectionLife` is what the two threads would do if the kernel let them pass
connections instead of numbers. A connection waits, is with the accept thread, in
the pipe, in the reader's hand, watched, or closed, and moves on in the order of
arrival. The mapping `Life` in `EpollPipeline` looks up in `file` what each number
names at that moment: the elements of the pipe, `acceptfd`, `msgfd`, `interest`.
That this maps steps to steps is the claim that no number is ever closed, or given
out again, while somebody still means its former connection. Reads, events, the
set-up and failing `accept()` calls are stutters of it.

`BaseCom` adds no state of its own. A thread takes steps from its
`pthread_create()`, which may fail unnoticed, until the process ends (`Runs`); the
process ends through `scanf()` in the main thread or `exit(1)` in the reader.
`up`, a parameter of `TcpClient`'s actions, is the one thing a client sees of it:
with the process all its connections are gone, wherever they were: owned by a
thread, in the pipe, or not accepted yet. The kernel's variables then keep their
last values, which nothing reads any more. A `send()` that takes less than it was
given is a sequence of `SendTakes`, one per unit, and then `SendReturns`, so that
the server may read between two units.

In `MysqlConnection` `at` is the next library call inside `Execute()`. The server
may refuse a query, run it, or run it and lose the session before the answer has
come (`QueryServer`). Whether the library reconnects by itself depends on its
version (`reconnect`), because no call sets the option. `Select` are the queries
that are answered with rows; these can fail once more, when the rows are fetched
and stored, with the session lost or, for want of memory or because of an error
among the rows, with the session as it was. The rows are at an address, and
`rows` says which addresses hold a result, so that a leak is an address that
`res_` does not name. `~MysqlConnection()` closes the session and frees nothing:
from then on the last result is such a leak.

In `CEvent` `pc[t]` is the statement a thread executes next, and the fields have
the names of the source (`m_mutex`, `m_bNotify`, `abstime`, `ret`). A wake-up
without a cause is `Wake` before the deadline. The argument of `Wait()` is a `long` and
may be negative; `Quotient` and `Remainder` are the `/` and `%` of C, which
round towards 0, so that `tv_nsec` may become negative as well as too large.
Thread identities, not their number, matter.

In `ShmOperator` a method call is one step. Each object belongs to one thread,
and the one thing another process can do to it between two system calls of a
method is to remove the segment, which makes the later call fail; every call
may fail in the model in any case.

In `CThread` a user's position in `join()` is `pc[u]`; `tid` is read once by
`join()` and kept in `target[u]`, while other users go on. A second join of one
thread is undefined by POSIX; the model gives it the outcomes of the C library,
which fails at once (`ESRCH`, `EINVAL`) or waits for the thread that has the
identity now. `start()` stores the identity in one step with the creation: the
library stores it before the thread runs. `run1()`, the only function that would
assign `threadStatus`, is not called by anything, so that the status is the one
of the constructor for ever. It follows that `join(ms)` keeps
neither half of what `thread_unix.h:39` promises, to wait "until the thread exits
or the time is over": it does not notice that the thread ends, and as its
`ms + 1` turns are pauses of 100 microseconds it gives up on a running thread
after about a tenth of `ms` milliseconds. `TimedJoinIsAPause` states what the code
does do: nothing but the turns decides when it returns.

In `Rot13` a callback is one step, because libevent runs all callbacks in one
thread. `Read` is libevent's read of an arbitrary part of what the socket
holds, up to the high watermark, followed by `readcb()`. `rot13_char()` works on
byte values. `accept()` takes the lowest free descriptor up to `limit`, which
stands for `RLIMIT_NOFILE`, and fails when there is none or, for want of memory,
at any time (`do_acceptFails`). `Answer` in `Rot13Props` is the reference: it takes a stream byte
by byte, where the code takes whole lines out of whatever has arrived.

## 3. The runs

Deadlock is not checked (`CHECK_DEADLOCK FALSE`): in every model the system may
rightly stop, when all peers have ended, the threads no longer call, or all
objects are destroyed; and bounds stop it, too. What must not stop is a liveness
property instead.

| run | what it shows |
|---|---|
| `epoll` | For three clients on two descriptor numbers: `Ownership` (each open descriptor has one owner among accept thread, pipe and reader; none is lost), `EventsAreCurrent`, `NeverExits`, `StopsClean`, `HandOverKeepsConnection`, `PassesConnections` (the refinement of `ConnectionLife`); a writer on a full pipe gets through (`WriterUnblocks`), and each message reaches the reader (`Delivered`) |
| `base_com` | For the server's process and two runs of the client: `ImplementsPipeline` (so that what `epoll` shows for arbitrary peers holds here), `WholeMessage`, `OnlyTheKilledHangUp` (client and server do wait for each other), `EveryTryCounts`, `SendLoopEnds`, `AcceptThreadIsFreed` (from its blocking read), `ClientsEndWithServer` |
| `mysql` | `OneResult` (`Execute()` leaks nothing and frees nothing twice; the destructor leaks one result at most), `SuccessIsOfThisQuery`, `RunsAtMostTwice`, `EightCallsAtMost` (so it ends), for three calls of `Execute()` |
| `event` | `MutexBalanced`, `NoStrandedSleeper`, `EveryWaitReturns`, and that `CEvent` implements `ManualEvent` |
| `shm` | `PointsToOwn`, `UnmapsOnlyOwn`, `ForgetsOnlyUnmapped` for two objects, two segments, three addresses |
| `thread` | `JoinWaits`: no plain `join()` returns before its thread, unless the library refuses it; `JoinReturns`; `TimedJoinIsAPause` |
| `rot13` | `ReplyIndependentOfChunks`, `InputBelowWatermark`, `ReplyIsNotAmplified` (the output has no watermark; what bounds it is what the peer sent), `NothingStaysPending` for three peers: what the open connections send is read and their end noticed, whether `accept()` fails or not, and the queue empties unless they hold all descriptors for ever |

The bounds, and why they are enough:

* *epoll*: three connections on two numbers are the least with reuse of a number
  while another connection is open, and with `accept()` failing for want of a
  number. A pipe of one message is full as soon as it is used. A batch holds both
  descriptors. The buffer is one unit, which a read drains; that a read leaves
  data behind happens in `base_com`. No symmetry is used, as liveness is checked.
  The proofs lift every one of these bounds for the safety properties.
* *base_com*: two clients on two numbers, the second in the accept queue or in
  the pipe while the first is served. Messages of two units with reads of one
  are cut on both sides: `send()` may take one unit, and a read leaves one
  behind. `MaxLoop` 2 is the least that lets a message of two units through and
  ends the loop early. The proofs lift these bounds for the safety properties
  and the refinement.
* *mysql*: three calls are a first one, one with a result to free, and one more
  after either has failed; two addresses let a new result be where the old one
  was, or elsewhere; two queries tell an old answer from a new one, and one of
  them has rows.
* *CEvent*: two threads suffice for each pair of operations to interleave in
  every way; the proofs cover any number, three sleepers among them. Two ticks
  to a second and time-outs of one, two and minus one ticks give deadlines with
  and without a carry or a borrow. Calls begin before `LastCall`, and the clock runs on to `MaxTime`,
  which is as far as a deadline can lie.
* *ShmOperator*: three addresses and two objects leave an address free for reuse
  while both are attached; two segments are the key's former and present one.
  The flag has no `IPC_EXCL` here, so that a second `CreateMemory()` succeeds;
  the proofs cover both settings, and `shm_destructor` uses the flag of
  `src/base/main.cpp:10`.
* *CThread*: two users join, start and wait at the same time; two identities and
  three starts give one out again while a user still has it in hand. Time-outs
  of 0, 1 and 2 cover the plain join and the loop. The proof covers any number.
* *rot13*: `MAX_LINE` is 2 in place of 16384; with three bytes, each LF or a
  letter, there is a line that is too long, one just short of it, and a line or
  another byte after either. With three descriptors allowed (`limit`) the third is
  over `FD_SETSIZE`, which the server closes at once; with one allowed, two peers
  wait while the first keeps it. That `rot13_char()` is its own inverse and keeps LF is an `ASSUME`
  of `MCRot13`, for all 256 bytes, which is why one letter stands for all.

Fairness:

* *epoll* `FairSpec`: weak fairness of each thread. The operating system runs
  both, and nothing is asked of the peers: they need not send, nor end.
* *base_com* `FairBaseSpec`: weak fairness of each thread and each client, which
  the operating system gives. Nobody has to type the input that ends the server,
  or to kill a client, so that `SendLoopEnds` holds without either and
  `ClientsEndWithServer` assumes the end in its statement.
* *mysql* states none: that `Execute()` ends is the measure of `EightCallsAtMost`.
* *CEvent* `FairSpec`: each thread that is inside a function goes on when it can,
  the clock runs, and a sleep that is over ends. No thread needs to call
  anything, so that a sleeper may depend on its time-out alone. Weak fairness
  suffices for the mutex because calls stop at `LastCall`; a mutex that others
  take for ever again would need a fair one, which pthread does not promise.
* *CThread* `FairSpec`: users inside `join()` go on. No thread needs to return from
  `run()`; `JoinReturns` assumes it in its statement.
* *rot13* `FairSpec`: `event_base_dispatch()` gets to every event that stays
  pending. `Write` has no fairness, because a peer may never read. While a
  descriptor is free `accept()` does not fail for ever: what else makes it fail is a
  shortage in the kernel that passes. That descriptors get free is not
  assumed but a premise of what `NothingStaysPending` says of the queue.

Violations. Each of these runs checks what a comment of the code says, and finds
the code doing something else; the findings in `PROJECT.json` quote both.

| run | what happens |
|---|---|
| `epoll_batch` | An end of file or an error in a batch makes the reader break out of its loop; the events behind are lost, since they are edge-triggered |
| `epoll_lookup` | The reader calls `epoll_wait()` only after a message from the pipe: when no further connection comes, data of the open ones is never read |
| `event_already_set` | `Wait()` on an event that is set already returns `EVENT_TIMEOUT`, because `ret` keeps its initial -1 |
| `event_early` | `tv_nsec` may reach a second; `pthread_cond_timedwait()` then refuses the deadline and `Wait()` reports a time-out at once |
| `shm_destructor` | A second `CreateMemory()` that fails makes `m_shmid` -1, and the destructor then leaves the segment attached |

`epoll_lookup` uses `TalkSpec`, under which peers that are connected keep
sending: the counterexample is not one in which nothing happens.

The models also behave as the code does in a few more places that a user of it
should know of, and that no comment denies: one `accept()` per edge leaves a
second connection in the queue until a third one comes; the blocking `read()`
after `accept()` lets one silent peer stop the accept thread (the repository's
own client is none: `AcceptThreadIsFreed`); a failed `bind()`
is not noticed; a connection that is reset with nothing unread stays registered;
a `Wait()` whose time is over when `Set()` comes reports the time-out; the
destructor of `MysqlConnection` never frees the last result; when all descriptors
are in use, the rot13 server calls `accept()` again and again in vain;
the rot13 server drops replies that are not written when the peer ends, and lets
the output of a peer that never reads grow with what that peer sends. They
are among the hazards, with the property that limits the damage or the reason
why there is none. Four have none: the connection stranded in the queue
(`epoll_server.cpp:99`), the descriptor that stays registered
(`epoll_reader.cpp:106`) and the time-out that wins against `Set()`
(`event.cpp:40`), because no text of the repository says that it is otherwise;
and the descriptor `FD_SETSIZE` (`rot13/main.cpp:95`), which matters only to a
`select()` back end. Two are covered in part, as their notes say: of a failing
`accept()` in the accept thread `TypeOK` covers that its -1 is never handed over,
but the connection stays queued; and `JoinWaits` exempts the `join()` that the
library refuses because another user waits for the same thread. That
`start()` fails unnoticed is what the code does; `JoinReturns` shows that a
`join()` after it returns all the same. `thread_unix.h:39` is contradicted by the
code too; it is said at `TimedJoinIsAPause`, which states what holds instead.

Every property of a passing run has a mutant, a plausible mistake in one of the
mapped definitions under which the same run finds the property violated.

## 4. The proofs

Everything below holds for every value of the constants that satisfies the named
assumptions next to them (`KernelAssumption`, `ServerAssumption`,
`ReaderAssumption`, `EventAssumption`, `ShmAssumption`, `ThreadAssumption`,
`ClientAssumption`, `MysqlAssumption`, `Rot13Assumption`): numbers are natural
numbers or positive where the code passes such, and "no descriptor", "no client",
`NULL` and `MAP_FAILED` are none of the values they are used beside.

**EpollPipelineProofs.** `Ownership` is not inductive alone. The invariant comes
in three layers, each inductive relative to the ones before:

1. `Inv1` (theorem `FirstLayer`): types, and `Control`: what the program counters
   say about the variables next to them. It yields `TypeCorrect` and
   `AlwaysStopsClean`.
2. `Connections` (`SecondLayer`): two open descriptors never name the same
   connection, and none that is queued is open. It is needed because closing
   one descriptor must not end another's connection, on which `EventsAreCurrent`
   rests.
3. `Inv3` (`ThirdLayer`): `Ownership`, `EventsAreCurrent`, and that no descriptor
   is in a batch twice. Ownership keeps the accept thread from closing what is in
   the batch; currency keeps the reader from taking the branches it must not.

`OneOwner`, `EventsStayCurrent` and `ReaderNeverExits` follow. `KeepsConnection`
says that whoever keeps a descriptor keeps its connection, and `HandOver` is that as
an action property. `PipelineRefines` is the refinement of `ConnectionLife`. Its
proof has a lemma for each thread and one for the peers. What a step leaves to
its holder stays the same connection (`SameLife`); the names of a pipe that got
longer or shorter are the pipe of names (`NamesAppend`, `NamesTail`); the second
layer is why one `close()` takes exactly one connection off the watched ones, and
why a connection that arrives is nowhere yet.

**BaseComProofs.** `BaseRefines`: every step of the programs is a step of the
pipeline or leaves its variables alone, because a client's calls are things an
arbitrary peer may do, and a thread that has not started or is gone is one that
takes no steps. `BaseInherits` then gives the theorems above for the programs, the
refinement of `ConnectionLife` among them.
The invariant of `ClientInvariant` relates what has gone onto the connection to
`pos` and `taken`; `MessageIsWhole` and `HangUpsAreKills` follow from it, and so does
`SendLoopWindsDown`, the part of `SendLoopEnds` that is no liveness: with each step
in the loop the pair of tries and of units in the running one grows, and both are
bounded by the types.

**MysqlProofs.** `MysqlInv` counts: the runs of a query are at most the tries that
have sent it. That a query without rows is never run twice by a library without
reconnecting needs one more part: if it was run and still failed, its answer was
lost with the session, and nothing between the two tries brings one back. A query
with rows has no such bound below two, as its rows may fail to be stored on a
session that lives on. `OneResult` needs to know that between free and store there
is no result at all; the destructor then leaves at most one behind.
`ExecuteWindsDown` counts the library calls an `Execute()` has left, down from
eight (`mysql_errno()` and `mysql_error()`, which only read, are not counted): each
call takes one of them, so that `Execute()` ends whenever the library's calls return.

**Rot13Proofs.** The invariant comes in layers again:

1. `Rot13Inv`: types, and `InputBelowWatermark`. `readcb()` leaves less than
   `MAX_LINE` bytes whatever it is given (`ReadcbLeaves`), which rests on the
   position of the last LF lying inside the buffer, and that on a bounded set of
   numbers having a maximum (`MaxIsMember`).
2. `PlaceInv` adds `Places`: a connection is new, queued, with exactly one
   bufferevent, or closed, and the buffers of a free descriptor are empty, so that
   nothing of one peer reaches the next; and `OneLine`: no input holds an LF.
3. `ReplyInv` adds `ReplyIndependentOfChunks` and `AllPaid`. The last says how the
   forced line ends are paid for; it strengthens `ReplyIsNotAmplified` by the bytes
   of the line that is not complete, without which the property is not inductive.

Between the first and the second layer stands what `readcb()` computes. `Answer`
takes a stream byte by byte and is a recursive function. The library's induction
takes an operator as parameter, which no prover here can instantiate; induction
over a *set* of numbers (`NatSetInduction`, from the well-foundedness of < on Nat)
does the same work. With it `RunExists` shows that the recursion defines a
function for every stream, `AnswerGrows` that one more byte is one more step of it,
and `ChunkAnswer` that one `readcb()` on a chunk of any length leaves and adds what
the byte-by-byte reply does. `ReadcbByte` is the step of that induction: the same
chunk with one more byte, which may end the line, make it too long, or neither.
`RepliesDoNotDependOnChunks` and `RepliesAreNotAmplified` follow.

**CEventProofs.** `EventInv` adds one fact to the checked invariants: a thread
about to sleep still finds the event not set. It holds because the thread has
held the mutex since its test (`MutexBalanced`), and it is why `NoStrandedSleeper`
is kept. `EventRefines` proves that every step of `CEvent` is a step of
`ManualEvent` or leaves it unchanged: an answer is settled at the test of
`m_bNotify` that succeeds, or at the sleep that gives up.

**ShmOperatorProofs.** `ShmInv` adds to `PointsToOwn` that no address is attached
twice, which is what makes "the mapping at this address" one object's; then
`shmdt(m_memoryAddr)` takes that object's own mapping or none. The action property
`ForgetsNothingMapped` takes each way in which a pointer becomes `NULL`.

**CThreadProofs.** `ThreadTypes` is inductive as it stands: `tid` is tested before it
is passed on, and no later step of another user makes `target[u]` 0.
`JoinNeverEarly` takes each way out of `join()` in turn. `TimedJoinPauses` needs that
no step assigns `threadStatus`, and that `k` never passes `millisTime + 1`.

**SeqLemmas** relates `Range` and injectivity of a sequence to those of its tail
and of the sequence with an element appended: the messages in the pipe and the
connections in the accept queue. `NamesAppend` and `NamesTail` carry this over to
what the elements name. `PrefixGrows`, `PrefixOfAppend` and `SplitAt` are about the
part of a stream that has been read.

Only model-checked: all liveness (`WriterUnblocks`, `Delivered`, `SendLoopEnds`,
`AcceptThreadIsFreed`, `ClientsEndWithServer`, `EveryWaitReturns`, `JoinReturns`,
`NothingStaysPending`), since the prover does not handle
fairness. Every invariant and every action property of the passing runs, and all
three refinements, are proved.

## 5. What is not modelled

* `src/include` is the public headers of libevent, librdkafka and log4cpp, copied
  into the repository: some nine tenths of its lines. They declare other
  projects' interfaces and are no part of this program's behaviour; what the
  program uses of libevent is modelled in `Rot13`.
* The Kafka and ZooKeeper classes are commented out; `msq_operator` and
  `select_client` are empty; `config.h` is generated.
* `CThreadMutex`, `CThreadRWLock`: each method is one call of pthread, and the
  objects keep nothing. `CSemOperator` creates a semaphore that no operation uses.
  `MyLog4Cpp` maps levels to calls of log4cpp. There is no behaviour of their own
  that a model could get wrong.
* The parent of `TestFork()`, which prints and ends, and `setsid()`.
* The destructor of `CEvent` and the setters of the epoll classes: the caller
  must not use them while a thread is inside.
* `EINTR` in the reader: the program installs no signal handler.
* `send()` returning 0 in the client: it does not happen for a positive length on
  a stream socket.
* `MysqlConnection::GetValue()` beyond the cursor (row and column index into what
  the caller knows), and `GetError()`, `GetStatus()`, which only read.
* The set-up of the rot13 server in `run()`: a failure ends the program.

## 6. Plan

Done, in this order: `Kernel`, `EpollServer`, `PipeReadThread`, `EpollPipeline`
with its proofs; `CEvent` with `ManualEvent` and its proofs; `ShmOperator` with its
proofs; `Rot13`; `CThread` with its proofs; `TcpClient`, `BaseMain` and `BaseCom`
with the refinement and its proofs; `MysqlConnection` with its proofs; the replies
of `Rot13`, with what one `readcb()` does to a stream; `ConnectionLife` with the
refinement and its proof; that the client's send loop and `Execute()` wind down.

To come: nothing of the code is left that keeps state and is not modelled, and no
safety property is left that is only model-checked. What would add most is more
safety parts of liveness properties (the measures by which `CEvent`'s `Wait()` and
the reader's batch end), and a property for the hazards without one, should
the code ever say what it promises there.
