# A verification of ServerPlus

TLA+ modules, TLC runs and machine-checked proofs for ServerPlus, a small TCP
server with an encrypted channel (`src/`, `include/`, about 2500 lines of C++).
The modules are translated from the source; where a comment or a test says
something else than the code does, a run or a remark below shows the difference.

## The system

One thread runs libevent's loop. Its callbacks accept connections, run the
handshake and read requests; a thread pool executes what the server hands to
it; a logger is shared by all. Components, their state and what makes each of
them correct:

| Component (source) | State | Operations | Correct when | Module |
|---|---|---|---|---|
| `ThreadPool` | `queue`, `run`, `queue_mutex`, `condition`, threads and futures | `enqueue`, the workers' loop, `stop(graceful)` | each accepted task is started once, in order, and executed in the end; a joined pool has drained; `stop` returns | ThreadPool, TaskPool |
| `CircularBuf` | `buf`, counters `r`, `w`, `capacity` | reads up to a limit or delimiter, `read_from`, `write` of data or through a callback, `clear` | it is a bounded first-in first-out queue of bytes inside its allocation | CircularBuf, ByteQueue |
| `Socket` | `fd`, `listening`, a `CircularBuf`, three mutexes | listen, connect, accept, close, copy, move, send, receive, `read_buffer` | it owns its descriptor and closes it once; nothing of one connection is left for the next; messages of several threads leave whole | Descriptors, Socket, MessageWire; the receive side in CircularBuf and Context |
| `SecureSocket` | DH exchange, `key`, `iv`, `is_secure` | `handshake_init/accept/final/confirm`, `try_recv`, `try_send` | both sides are secure with the same key and vector or know that they are not | Handshake, Context, Connection |
| `Context` | the socket, its event, `header`, `header_parsed` | the two event callbacks, `read_sock`, `handle_request` | requests are handled as sent, once, in order, and a server answers | Context, Connection, Server |
| `Server` | `ctx_pool`, `api`, the loop, the pool | accept, `exec_endpoint`, `close_connection`, `allocate_work`, `run`, `stop`, destruction | every peer is served; Contexts live as long as their connections; no member is used after its end or by two threads at once | Server, ServerStop |
| `Logger` | the instance, a list of 100 messages, its mutex, two streams | `get`, `log`, `error`, `pop`, `clear_buf` | one instance once the first calls are over; the list has the last messages, the streams all of them in the same order | Logger, BoundedLog |
| `Handler` | a callback | `exec` | called once per request | in Context |
| `Lobby` | - | - | not included by any file, does not compile | not modelled |

They interact by calls from the loop: `accept_callback` makes a `Context`,
which sends the host's part of the handshake and registers a handshake event;
`handshake_callback` replaces that event by a read event; `receive_callback`
copies the `Context` and runs `read_sock` on the copy in a thread it joins at
once. `read_sock` drives `SecureSocket::try_recv`, which receives ciphertext
into the `CircularBuf`, takes it out with `read_from` and writes the plaintext
in its place. Handlers run inside `read_sock`. `close_connection` enqueues a
task in the pool, which changes `ctx_pool` from another thread. `stop` may be
called by a handler, by another thread and is called by the destructor.

What is hard: the pool's condition variable and its unlocked flag; TCP, which
neither keeps record limits nor delivers records whole; descriptors that are
reused at once while their numbers are still keys of `ctx_pool`, captured in
a task or left behind in a socket; retries of a handshake with a new vector;
buffers at their capacity; the end of the server, when the loop's thread, the
pool's and the owner's meet in members that are destroyed one after the other;
an unlocked singleton. `PROJECT.json` lists these hazards at their lines.

## Modules

**ThreadPool** has one action for each access to shared memory that another
thread could come between: the test of the predicate (`DecideToWait`, `Exit`,
`Take`) is separate from the sleep (`Park`), the test of `run` in `enqueue`
(`SeeRunning`) from the insertion (`Emplace`), and `stop` is a step for each of
its statements. `queue` is only touched under `queue_mutex`; `run` is written
without it (`Halt`), and that is what the grain is for. A spurious wakeup may
come at any time. A task ends well, throws what the loop catches, or throws
something else. **TaskPool** is what a caller may rely on: no threads, a queue
with three operations and a phase. `Abstract` in ThreadPool maps one to the
other: a pool is closed once its threads have been joined.

**CircularBuf** models the array and both counters, with the masking and the
32-bit variable in `read_from`. A call is one step. `WriteCallback` contains the
callback, which may deliver less than it is asked; `ReadBuffer` is what
`Socket::read_buffer` does to the array when a message has not come completely:
it takes everything out and writes it back behind. **ByteQueue** is the sequence
of bytes that the header promises; `Content` maps the array to it.

**Descriptors** is the life of `Socket` and `SecureSocket` objects: which number
each way out of `try_listen`, `try_connect`, `try_accept`, `close_fd`, a copy, a
move and the destructor leaves in which object, and in the kernel's table. A
call is one step, since nothing is shared but the table. It also keeps what a
socket still has of a connection that is over (`kept`): `close_fd` forgets the
number and leaves buffer, key and `is_secure`. The class is safe only for
callers that know five things, the `Rules` of the module; `Breaches` says which
of them the callers of an instance break.

**Socket** is the send side of a connected socket: the test of `fd`, the lock,
and the loop around `send()` for any number of threads, while the peer reads or
not and closes, and the receiving thread resets `fd` without the lock. One
action is one round of the loop, in which the kernel takes some bytes
(`SendSome`) or `send` fails (`SendFails`: no room, a reset connection, or a
descriptor that is 0 by now). The receive side is that of CircularBuf and
Context: one thread uses it at a time, so that `recv_mux` and `buf_mux` need no
variable. **MessageWire** is what the callers may rely on, without lock, loop or
room: a call adds a beginning of its message to the wire, all at once when it
returns, and returns true exactly if that is the whole message. `Settled` maps
the stream to that wire: it leaves out what the thread in the loop has sent so
far.

**Handshake** is the key exchange between the host and one peer that uses the
same class, with each message cut into pieces that arrive one by one. A step
takes what has arrived for the message it expects. Every failure of a step is
followed by what the caller in `src/` or in the tests' client does then.

**Context** is one secured connection. Its unit is a cipher block and a message
fills one. The peer sends requests of every kind (ping, without and with a
message, to a known and to an unknown path) as records, which may reach
`try_recv` merged or in pieces. `Decrypt` is what cipher block chaining with
one fixed vector makes of that: a block comes out right if it begins both its
record and what is decrypted, or neither. `ReadSock` is one run of
`receive_callback`, with `ReadHeader` and `ReadBody` as the halves of
`read_sock`. An element of `Ways` says how the connection is used, and the
initial state chooses one: whether the Context is `served`, that is, has a
server and is copied by `receive_callback` for each event, or has none and
`read_sock` is called on the Context itself, as in its tests; whether the peer
sends header and message as one record or two, and whether it waits for an
answer; whether the network cuts records; how large the buffer is. `handled` is
the calls of `handle_request`. Without a server that returns at once
(context.cpp:58): no handler runs and nothing is sent back, and what is left to
say is with which header and message it is called, which is what those tests
look at.

**Connection** composes the two, from `accept()` to the last request:
`HostReads` is `ReadSock` once `handshake_callback` has registered the read
event, `PeerSends` the peer's sending once `handshake_confirm` has returned.
Where `read_sock` is called directly, the session is given from the start, as in
the fixture of test/context.cpp.

**Server** has the connections, their descriptors, the kernel's table of
descriptors, `ctx_pool` and the tasks of `close_connection`. A callback is one
step, since the loop runs one at a time and `receive_callback` joins its
thread; a task is one step between two of them, and any of the first `Workers`
tasks may end first, since as many threads have taken them. `KeyIsFd` stands
for the order in which the compiler evaluates the arguments of `emplace`: TRUE
for clang, which goes from left to right.

**ServerStop** extends Server by everything that is not a callback: the thread
in `run()`, the pool's threads (with the tasks of `close_connection` and others
given to `allocate_work`), and the thread that owns the object, calls `stop()`
and destroys it, member by member in the reverse order of their declaration
(`Members`). A callback begins and ends, a task finds its entry of `ctx_pool`
(`BeginErase`) and erases it (`EndErase`), and a `stop()` begins and ends with
`loopexit`. Two that overlap while one of them changes `ctx_pool`, or a use of a
member that is destroyed, are recorded in `misuse`. While one task is between
its find and its erase another thread may begin the next: that is a race between
two threads of the pool, which nothing but the application can prevent.
`~ThreadPool` first clears `run` and notifies without the mutex (`HaltPool`), so
that a thread with nothing to do may miss it ("asleep", as pool_stop shows), and
then joins.

An application may see to four things, `care`:

- "inside": while the loop runs, `stop()` is called by a callback only;
- "wait": the server is destroyed after `run()` has returned only;
- "idle": `stop()` and the destructor are called by the owner only when no task
  of `close_connection` is left;
- "alone": `close_connection` is called only while the loop does not run and
  none of its tasks is left.

Without "alone" there is always a race: a task of `close_connection` may meet any
callback, and the task of another call in another thread. A server that wants
to remove a Context while it runs needs a lock, or an event of the loop instead
of a task.

A task tells nobody that it has ended, but an application can find out: as many
tasks as the pool has threads, given to `allocate_work` and waiting for each
other, have all begun only when every task before them has ended. `Cares` are
the sets of these that the applications of an instance see to; the initial state
chooses one.

**Logger** is the singleton and its list under several threads: the test, the
assignment and the read of the static pointer in `get()` are three steps, since
there is no lock; `log_item` is five, under the mutex of the object it is called
on. `error` with an exception logs two items, between which others may come.
**BoundedLog** is what the list is for: the last `Limit` messages.

The MC modules give small sets to TLC. Operators whose comment begins with
"Mutant" are not part of a specification: each is a plausible mistake in the
definition below it, and shows that a property can fail.

## Runs

| Run | Bounds | Shows |
|---|---|---|
| pool | 2 workers, 2 callers, 3 tasks, `stop` with either argument, tasks that end well or throw | `TypeOK`, `ExitIsFinal`, `AbortHasCause`, `NoLostTaskWakeup`, `AcceptedIsExecuted`, `ImplementsTaskPool` |
| pool_stop | 1 worker | violated: `StopReturns` |
| buffer_fifo | 4 bytes, counters up to 11, truncation at 8 | `TypeOK`, `ImplementsByteQueue` |
| buffer_split | the same, data between two callbacks | violated: `SplitWriteIsContiguous` |
| socket_send | 2 threads, messages of 1, 2 and 3 bytes, room for 2 | `TypeOK`, `SentIsWhole`, `ImplementsMessageWire`, `EverySendReturns` |
| descriptors | 3 sockets, 2 descriptors, callers that keep the rules | `TypeOK`, `OwnsItsDescriptor`, `NoDescriptorLeak`, `FreshBuffer` |
| connection | 5 requests, handshake messages in up to 5 pieces, buffers of 2 and 4 blocks, eight ways of using it | `ConnectionTypeOK`, `KeysAgree`, `UndefinedOnlyAfterFailure`, `SecureHostIsConfirmed`, `RequestsMeetTheKey`, `RoomIsLeft`, `HandledInOrder`, `HandledAsSent`, `EveryRequestHandled`, `EveryRequestAnswered` |
| context_apart | the server's way, header and message apart | violated: `EveryRequestHandled` |
| server_tidy | 3 connections, 2 descriptors, 2 threads in the pool, one other task, `close_connection` once each; an application that sees to "wait" and "idle", and one that sees to all four | `StopTypeOK`, `OwnsItsDescriptor`, `NoDescriptorLeak`, `NoMisuseWithCare`, `NothingDeadIsUsed`, `NothingOutlives`, `OnlyClosedAreRemovedWhileUp`, `ClosedIsRemoved`, `StopEnds` |
| server_stop | 1 connection, `stop` and destructor in another thread | violated: `NoMisuse` |
| server_reuse | 3 connections, 3 descriptors, peers close | violated: `EveryPeerServed` |
| logger | 2 threads, 2 calls each, a list of 2 | `TypeOK`, `CreatedInFirstCall`, `WrittenAsLogged`, `EveryCallReturns`, `ImplementsBoundedLog` |

Why the bounds are enough. Two workers and two callers have all the races of a
pair, and with three tasks one is queued while two run. Four bytes are enough
for a buffer that is empty, full, wrapped and split with two bytes on each
side, and the counters pass the truncation once. Room for two bytes cuts a
message of three in every way, in the middle of another thread's wait. Three
sockets are a listener, one end of a connection and the other, and two
descriptors for them run out and are used again. In connection each kind of
request occurs, two of them complete ones to a known path and one to an unknown
path; a buffer of two blocks is the smallest that holds a request, so that it
is filled by each of them; five pieces cut the host's greeting, of which
`handshake_init` is allowed three attempts (the event fires once, so that it
never makes more than two). Two descriptors for three connections force the
reuse of a number while the old owner, or the task that is to remove it, still
exists, and leave a second connection whose task may run at the same time in
another thread of the pool. A behaviour of server_tidy ends where a race is
recorded: what a torn `ctx_pool` does next is undefined, and the properties of
the first application hold up to there. Two threads that log two items each
overrun a list of two with items of both.

Bounds in the guards are `MaxIndex` (counters of CircularBuf), `MaxInits`
(Handshake), `MaxCloses` (calls of `close_connection` per connection),
`MaxWork` (tasks of `allocate_work` at a time) and `MaxCalls` (calls of the
logger per thread).

A violated run is a finding in `PROJECT.json`: it quotes the comment or the
test and the line of the code. In buffer_fifo a source that could not fill the
first piece of a split write has nothing for the second (`SteadySource`);
buffer_split is the same without that.

Deadlock is checked where a part can always go on (buffer_fifo, buffer_split,
descriptors, pool_stop). The other configurations say where the program may
rest.

### What the passing runs depend on

The same properties fail under other values of the constants. These are
behaviours of the code as well, and each of them can be seen by changing one
line of a configuration or of an MC module:

| Change | Fails | The code |
|---|---|---|
| connection: `HandledAsSent` without its `way.waits` | `HandledAsSent` | records read by one `recvfrom` are decrypted as one (secure-socket.cpp:213); when the garbled block is the message of a parsed header the handler is given it, since nothing checks the digest of proto/header.proto:23 |
| connection: `EveryRequestHandled` for `cut`, for a peer that does not wait, for the server with `apart` | `EveryRequestHandled` | a record that arrives in two pieces is not decrypted and is dropped; merged records as above; context_apart |
| server_reuse: `KeyIsFd = FALSE`, `PeersClose = FALSE` | `EveryPeerServed` | when the compiler moves the socket before it calls `get_fd()` (server.cpp:70), every key is 0 and one connection is kept; with `KeyIsFd = TRUE` and no peer that closes the property holds |
| server_tidy: `MaxCloses = 2` | `OnlyClosedAreRemovedWhileUp` | the task of a second `close_connection` finds the next connection under the same number (server.cpp:75) |
| server_tidy: `MaxCloses = 0` | `ClosedIsRemoved` | nothing in `src/` calls `close_connection` (context.cpp:111 has a @todo) |
| server_tidy: any set of cares but all four, and `NoMisuse` | `NoMisuse`, with a race | without "inside" server_stop; without "alone" a task of `close_connection` races with a callback or with the next task (server.cpp:75-77); without "wait" the destructor's `stop()` walks through `ctx_pool` beside the loop (server.cpp:83), without "idle" beside a task |
| server_tidy: without "wait" or without "idle" | `NothingDeadIsUsed` | the loop uses a server that is gone (test/server.cpp:27); a task finds `ctx_pool` destroyed before the pool (include/server.hpp:28) |
| server_tidy: without "wait" | `NothingOutlives` | nothing in the destructor waits for the loop |
| server_tidy: `KeyIsFd = FALSE` | `ClosedIsRemoved`, stated of key 0 | every key is 0, and `close_connection(fd)` finds none (server.cpp:75) |
| server_tidy: `StopEnds` without its `pool = "asleep"` | `StopEnds` | `~ThreadPool` waits for a thread that has missed the notification, as in pool_stop (thread-pool.cpp:69) |
| descriptors: `Breaches = {"stale"}` | `OwnsItsDescriptor` | a refused `bind` leaves the number that `try_listen` has closed in `fd`, and the destructor closes it again, whoever has it by then |
| descriptors: `{"unopened"}` | `OwnsItsDescriptor` | `fd` is 0 in a new socket, and `close_fd` closes standard input (test/include/client.hpp:75 meets it) |
| descriptors: `{"overwrite"}` | `OwnsItsDescriptor`, `NoDescriptorLeak` | a second `try_connect`, or an assignment to an open socket, forgets the first descriptor (test/include/client.hpp:61) |
| descriptors: `{"copy"}` | `OwnsItsDescriptor` | a copy has the same number, and both destructors close it |
| descriptors: `{"reuse"}` | `FreshBuffer` | `close_fd` empties neither the buffer nor the key |

`stop(false)` destroys joinable threads, which terminates the program
(thread-pool.cpp:83); `AbortHasCause` says that nothing else does but a task
that throws what the workers do not catch (:58).

Others are decided by a single line and have no property: a capacity that is no
power of two is replaced after the array was allocated with it
(circular-buffer.cpp:42); a buffer constructed with data is empty (:48,
`Initial`); `read_to` does not find a delimiter of two bytes, because it
compares bytes that it has not read yet (:159, `ReadToString`); after a failed
handshake the server says it retries, but the event fires once and is not added
again (context.cpp:46); `handshake_confirm` fails when the first of its two
bytes comes alone (secure-socket.cpp:172), and reads the front of an empty
vector when nothing comes (`UndefinedOnlyAfterFailure` says when that is, :179);
a message that `try_send` gives up leaves its beginning on the wire, and the
next one follows it directly (socket.cpp:336); a peer that closes early may end
the process with SIGPIPE (the same line, `BrokenPipe`); a server that was
stopped cannot `run` again, since `listen_sock` is still bound (server.cpp:44).

### Fairness

*ThreadPool.* Weak fairness for every thread once it is inside an operation,
strong fairness for a worker's acquisition of the mutex (a thread does not wait
for ever for a lock that is released again and again). No fairness for spurious
wakeups, for callers, or for the owner's decision to stop. `AcceptedIsExecuted`
also needs tasks that end, which is part of the weak fairness of `Finish`.

*Socket.* Every thread in `try_send` runs on, with strong fairness for the
lock. The peer need not read, nor close: the socket does not block, and
`EverySendReturns` is about that.

*Connection.* The network delivers what was sent, a call that waits for data
returns when it has come, and the loop runs the callback of a pending event
(the read event is level triggered and persistent). The peer may stop at any
time: the properties say nothing of what it has not sent.

*Server and ServerStop.* The loop ends the callback it has begun and leaves after
`loopexit`, the pool runs its tasks (`AcceptedIsExecuted` of ThreadPool), and
`~Server` takes each step it can. That does not make it return: it joins the
pool, and a thread that has missed the notification sleeps until it wakes up by
itself, for which there is no fairness. `StopEnds` therefore says that the
destructor comes to its end or waits for such a thread, and for nothing else.
An application that tidies up calls `close_connection` in the end, with strong
fairness, since it may only do so between two calls of `stop()`; in "alone" it
need not, because the loop may never leave, and `ClosedIsRemoved` excepts it.
All other fairness is weak. What peers do after the loop has left reaches nobody
and is left out. In server_reuse a connected peer answers the handshake.

*Logger.* A thread that is inside a call goes on, with strong fairness for the
mutex; nobody has to log.

## Proofs

Each theorem holds for every value of the constants that satisfies the named
assumptions of the modules, and those it states itself. TLC checked each
invariant first. The properties are seldom
inductive; what was added, and why:

`ThreadPoolProofs`, for any workers, callers and tasks: `IndInv` adds who holds
the mutex where (`MutexInv`), that a worker about to sleep has seen an empty
queue that nobody could have filled since (`WorkerInv`), how far `stop` has come
when threads have left (`OwnerInv`), and that a task on its way into the queue
is in no other place (`FreshInv`). The refinement of TaskPool takes the steps
one by one: `Emplace`, `Take`, `Finish`, `Halt` and `JoinAll` are the five
abstract actions, the others stutter; `JoinAll` needs `ExitIsFinal` to know that
nothing is queued. `AtMostOnceHolds` and `DrainedWhenJoinedHolds` state parts of
the refinement. `NoTaskIsStrandedHolds` is what is safety in
`AcceptedIsExecuted`: while a task is queued some worker can go on without
another notification. For `AbortHasCauseHolds`, `AbortInv` says that a `stop`
that found `run` cleared finds nothing joinable either, unless it does not join;
`GracefulNeverAborts` draws the conclusion for a pool that is stopped gracefully
and whose tasks throw nothing foreign, however many stops overlap the enqueues.

`CircularBufProofs`, for any capacity, any width of the counters it divides and
any inputs: `TypeOK` is inductive, and `BufferIsByteQueue` shows the refinement.
The lemmas first treat masked indices (consecutive ones are distinct up to
`Capacity`, truncation to the width changes no mask, `MaskTruncated`), then the
sequence of cells between two counters (`CellsType` to `CellsAppend`); then each
operation computes what the abstract one does to `Content`, with `SplitWrites`
for the two pieces of a write; `NextStep` and `QueueStep` put them together.
`UnreadIsKeptHolds` needs no assumption: even a source that delivers in fits,
for which buffer_split shows new bytes in the wrong place, harms no byte that
was there before, since both pieces lie in free cells (`KeptCells`). Only the
refinement assumes a steady source and a buffer that starts empty: without the
first buffer_split shows that it fails, without the second a buffer constructed
with data differs from its queue at once.

`SocketProofs`, for any threads, messages, lengths and room in the kernel: a
thread is in the loop exactly while it holds `send_mux` (`MutexInv`), the last
`total` bytes of the stream are the beginning of its message (`TailInv`), and
each reported message lies somewhere (`WholeInv`); the laborious step is
`SendSome`, where the stream grows. The refinement of MessageWire adds that each
call under way is marked as running and has a message of its own (`CallInv`); a
round that does not end the call is a stutter, the last one is `Return`, and
`SplitEnd` splits the stream into what was settled and what the call has sent.
`NotInterleavedHolds` states the same of neighbouring bytes.
`NoSendIsStuckHolds`, from `MutexInv`: while a call is under way some thread can
take the lock, send or fail.

`DescriptorProofs`, for any sockets and descriptors: each theorem assumes only
the rules it needs ("overwrite" for `NoDescriptorLeak`, "reuse" for
`FreshBuffer` with `SpentInv`, all but "reuse" for `OwnsItsDescriptor`), so that
the table above has its converse. `OwnsItsDescriptor` needs `ZeroIsTaken`: no
socket is ever given the number 0.

`ContextProofs` has the lemmas of one connection and `ConnectionProofs` the
theorems, for any requests, ways, capacities, pieces and attempts.
`ConnectionInv` has three groups. The handshake: `HandshakeInv` ties each
message on its way to the vector it was made with, `WholeInv` says that a first
attempt leaves nothing in pieces behind, `StreamInv` that no request is sent
before the peer is secure. The order: `OrderInv` says that the heads in buffer
and network (`FlowInv`) come later in `sent` than what was taken (`TakenInv`)
and that what was handled came before what was taken (`DoneInv`). The contents:
`WaitInv` lists the few states of buffer and network that a peer that waits can
cause; from it `handle_request` finds the message that was sent. Records that are
merged, cut or garbled have no case of their own in the order: decryption keeps
or spoils blocks and never moves them.

Four more theorems are what is safety in the liveness properties of connection:
a pending block meets a registered event and room in the buffer
(`ReaderIsReadyHolds`), a secure host's confirmation is on its way or has come
unless the peer has failed (`ConfirmationIsComingHolds`), and once everything is
read a peer that waits has a server's reply for every request
(`AnsweredWhenReadHolds`) and, where nothing is lost, `handle_request` has been
called for every complete request but the pings (`HandledWhenReadHolds`). The
last is for `Lossless` ways: records whole and one at a time, a buffer of more
than one block, and no header apart from its message in a server; context_apart
shows what the third is for.
`AnswerInv` says that at most one reply is missing while something is unread.
`ReachedInv` follows each request: it is in the network, its message is still to
be sent, or it has been handled; the record under way is whole (`WholeRecord`),
so that decryption garbles nothing. `ConnectionImplementsContext` and
`ConnectionImplementsHandshake` are lemmas: they hold by the shape of the
composition.

`ServerProofs`, for any connections and descriptors above 2: sockets
and the kernel's table are inverse to each other (`SocketInv`), and the life of
a Context is tied to exactly one entry of `ctx_pool` (`PoolInv`).
`OnlyClosedAreRemovedHolds` assumes `MaxCloses <= 1`, which is necessary (see
above); it rests on `TaskInv`: each waiting task still finds the Context it was
enqueued for. `KeyInv` says under which key a Context is kept. Two theorems show
what the order of evaluation in server.cpp:70 decides: with the number as key a
peer is turned away only because of a Context that has seen its own peer close
and was not removed (`TurnedAwayByClosedHolds`); with 0 as key there is never
more than one Context (`OneContextAtATimeHolds`).

A step of ServerStop is a step of Server, the end of `ctx_pool` or a stutter,
for the task that erases is one of those under way (`EraseInv`,
`StopStepIsServerStep`): so the invariants carry over. The theorems about the
end are for any number of threads and tasks, and their formulas name the cares
they need. TLC was given each of the 16 sets of cares with two connections and
two threads: a property fails for each set that lacks one of these and for no
other.

| Theorem | Cares | Rests on |
|---|---|---|
| `OnlyClosedAreRemovedWhileUpHolds` | none, but `MaxCloses <= 1` | `UpTaskInv`: `TaskInv` until the destructor begins |
| `NothingOutlivesHolds` | "wait" | `AfterInv`: the destructor begins after the loop has left, `ctx_pool` is empty when it has gone, the pool goes only when it is halted and nothing is left in it |
| `NothingDeadIsUsedHolds` | "wait", "idle" | `DeadInv`: no `close_connection` is left for the pool to execute after `ctx_pool` has gone |
| `NoMisuseWithCareHolds` | all four | `RaceInv`: there is at most one task, and while there is one the loop does not run and nobody walks through `ctx_pool` |

`LoggerProofs`, for any threads, limit and number of calls: `LogInv` adds that
the thread inside `log_item` holds the mutex of the object it got (`LockInv`),
that an object is made in first calls only (`FirstInv`), that a list is too long
by one between push and trim (`SizeInv`), and that its holder's item is what the
streams lack (`WriteInv`). `NoCallIsStuckHolds`: while a thread is inside a call
one of them can go on, whichever objects the race on the pointer has made.
`ListsAreBoundedLogs` shows the refinement: `View` leaves the item out until it
is trimmed.

Only model-checked: what depends on fairness, which with ENABLED is out of the
prover's reach. These are the eight liveness properties `AcceptedIsExecuted`,
`EverySendReturns`, `EveryRequestHandled`, `EveryRequestAnswered`,
`SecureHostIsConfirmed`, `ClosedIsRemoved`, `StopEnds` and `EveryCallReturns`.
What is safety in the first five and the last is proved, as
`NoTaskIsStranded`, `NoSendIsStuck`, `HandledWhenRead`, `AnsweredWhenRead`,
`ConfirmationIsComing` with `ReaderIsReady`, and `NoCallIsStuck`: that something
can be done and that nothing is left to do; that it is done in the end is
TLC's. The violated properties have their counterexamples in the runs.

Every invariant, action property and refinement of a passing run is proved. Some
theorems are about statements that no run lists, most of them a consequence or a
sharper form of one that a run has; they were checked on the runs' instances
before they were proved, and adding their names to the configuration checks them
again.

## What is not modelled, and why

- Logger: `set()` once threads log, `top()`, `search_buf`, `pop` on an empty
  list, which nothing in the repository does; the time stamp, the exceptions of
  the streams, the map of error messages.
- The arrays that copies and moves of `CircularBuf` allocate, share and leak
  (an assignment leaks the old array). What a copied `Socket` keeps of its
  buffer is in Descriptors.
- `recv_mux` against `buf_mux`: an application that keeps a Context and reads
  from it while the loop does. Nothing in `src/` can.
- The number of a socket between two statements. `close_fd` is one step in
  every module, and so are a sender's load of `fd` and its `send()`. In Socket
  the receiving thread may close at any moment of another thread's `try_send`,
  between two rounds of the loop as well; that a third connection gets the
  number between `close()` and `fd = 0`, or between the load and the `send()`,
  and then the rest of the message, is not represented.
- The order between tasks of `allocate_work` and of `close_connection`: either
  may be first.
- The branch of `read_sock` for a buffer without a terminator
  (context.cpp:123): what `try_recv` has decrypted ends in one. A garbled block
  may contain none, and would then be one message with the next. A ping's
  answer whose send fails (:139) is not in Context, whose peer stays.
- Two bytes of a leftover hello that happen to be {1, 0}, which
  `handshake_confirm` would take for the confirmation.
- Sockets that block (the tests' client), a failure of
  `evutil_make_socket_nonblocking` or of libevent's `event_add`.
- `set_endpoint` after `run`: the known paths are a constant.
- Message contents. A garbled block is a message that is neither a header nor
  the message of a request; in reality it may parse by accident.
- `Lobby`, which no file includes and which does not compile; error codes, clock
  and random strings.

## Plan

1. Handlers that keep the Context they are given: the send side of Socket and
   the receive side of Context in one module, with a destruction in between.
2. CircularBuf's copies and moves, with the arrays as objects.
3. `set_endpoint` while the loop runs, and `exec_endpoint` from several threads.
4. Logger: `set()` under load.
