# Verification of the RPG server's network and core libraries

TLA+ models of the C++ server under `src/`, TLC configurations that check them on
small instances, and TLAPS proofs of the results that hold for every instance.

## 1. Inventory

The repository holds an IOCP network engine (`src/IOCP`), an older one it is
replacing (`src/Net`), common libraries (`src/Common/Core`) and a gateway server
whose session classes are written and whose managers are declarations.

| Component | State | Operations | What must hold |
|---|---|---|---|
| Buffer pool (`IOCP/BufferPool`) | stack of free buffers, mutex | Acquire, Release | a free buffer is used by nobody, a used one is lent once |
| Session pool (`IOCP/SessionPool.h`) | stack of free sessions, id counter, mutex | Acquire, Release, GetById | a session is in one place, ids are never reused |
| Session (`IOCP/Session`) | socket, owner, `connected_`, `sending_`, id, two `OverlappedEx`, send queue and its mutex | Init, ResetForReuse, Disconnect, PostRecv, Send, PostSend, OnRecvCompleted, OnSendCompleted | one thread takes a session down, one report per connection, messages leave in order, one receive and one send outstanding |
| IOCP server (`IOCP/IocpServerBase`) | `running_`, worker threads, one shared accept `OverlappedEx` | Start, Stop, PostAccept, ConnectTo, WorkerLoop, completion handlers, NotifySessionDisconnect | no socket lost on any path, Stop returns |
| Ring buffer, receive ring (`IOCP/RingBuffer.h`, `RecvRing`) | array, head, tail, size, error flag | write, read, peek, consume, clear; push, try_pop_packet | a queue; packets come out as they were sent, as soon as they are whole |
| Gateway sessions (`IOCP/Gateway...Session`) | plain fields, a byte of flags | OnInit, OnReset, setters | a pooled session shows nothing of its last connection |
| SHA-256 (`IOCP/SHA256`) | state, block buffer, bit count, `finalized_` | Reset, Update, Finalize, CalculateHex | the digest is that of the padded message, whatever the object did before |
| Id generator (`Common/Core/UidGenerator`) | last time, sequence number, mutex | Next, Decode | ids grow, fields do not overflow, Decode inverts |
| Logger (`Common/Core/Logger`) | queue, `running`, two streams and their sizes, two mutexes, a worker | Init, Log, Flush, Shutdown, worker_loop, rotation | no record lost or doubled, fatal records durable, Shutdown returns |
| Older server and workers (`Net/Core`) | `running_`, listening socket, port, accepts in flight, each worker's flag and thread | Start, Stop, destructor, worker loop, PostOneAccept, OnIocpAcceptComplete | no worker outlives the port, one report per life, everything closed after it, Stop returns |
| Older sessions, manager, pool (`Net/Session`) | socket, `closing_`, send queue and flag, receive handle; two maps; free list and set | Start, Send, Close, OnIoCompleted; CreateSession, DestroySession, Find, Broadcast; Allocate, Release | a session is in one place and found under its id; order, one send at a time, no queue waiting for a send that is not under way, no socket left open |
| Older buffers (`Net/Util/BufferPool`, `BufferHandle`) | stack of blocks, counters; a pointer in each handle | Acquire, Allocate, Release; move, assign, reset | a block has one owner |
| Older ring (`Net/Util/RingBuffer`, `Net/Session/RecvRing`) | as above | as above, with segments in place of peek | a queue |
| Socket helpers (`Net/Core/SocketUtils`) | none | CreateTcp, BindAndListen, CloseSocket, options | part of their callers |
| Error tables, constants | none | | not modelled |
| Gateway server and its managers | declared, without bodies | | not modelled |

How they interact. Workers block in `GetQueuedCompletionStatus` and call a
session's completion handlers. These call the derived server (`OnRawPacket`), the
buffer pool, Winsock, and, when a connection ends, the server's
`NotifySessionDisconnect`, which calls the derived server, which gives the session
back to the session pool, which disconnects it and resets it, and its class's
`OnReset` clears the gateway's fields. Application threads
call `Send`, `Disconnect` and `ConnectTo` on sessions they found earlier. All this
happens in the callers' threads, at the same time. In the older engine the manager
owns the sessions: an acceptor creates one, anybody destroys one by id, and workers
handle completions with a bare pointer. Logger and id generator are
called from every thread.

What is hard: any number of threads inside one session; callbacks that re-enter
the object that called them (`PostSend -> Disconnect -> ResetForReuse`, with a lock
held); completions that arrive for a session that has been reset or given to
another connection; one shared `OverlappedEx` for all accepts; socket handles whose
values are used again; one queue for packets of two kinds; resources that run
out in the middle of a protocol step; a clock that is read outside the lock; a
notification sent without the mutex; streams protected by one mutex in one place
and by another in the next; objects that go back to a pool while somebody still
holds them. `PROJECT.json` lists each hazard at its line.

## 2. Modules

| Module | Models | Extends |
|---|---|---|
| `BufferPool` | `BufferPool::Acquire/Release` | |
| `SessionPool` | `SessionPool::Acquire/Release` | |
| `Session` | every method of `Session` | both pools |
| `IocpServer` | the server, its workers, accept and connect, Stop; and the properties of the whole | `Session` |
| `SessionLifecycle` | abstract: the life of a connection | |
| `DataPath` | the history of slots; properties of buffers and messages, fairness, liveness | `IocpServer` |
| `RingBuffer` / `ByteQueue` | `RingBuffer<T>` / abstract: a bounded queue | |
| `NetRingBuffer` | the older engine's ring, which implements the same queue | `RingBuffer` |
| `RecvRing` | `RecvRing` driven as `Session` drives it | `RingBuffer` |
| `UidGenerator` | `UidGenerator`, the system clock, restarts | |
| `Logger` | `Logger`, its worker, its files | |
| `GatewaySession` | the gateway's session classes and the handlers that use them | |
| `Hasher` | the object `SHA256` | |
| `NetServer` | the older server, its workers, the accepts in the kernel | |
| `NetBufferPool` | the older engine's pool of blocks | |
| `BufferHandle` | `BufferHandle` and who owns each block | `NetBufferPool` |
| `NetSession` | the older `Session` and the kernel under it | `NetBufferPool` |
| `SessionManager` | the older manager and session pool; acceptor and application; the properties of the whole | `NetSession` |
| `MC...` | symmetry, scope and small definitions for TLC; `MCParts` checks four components that share no state in one run | the module |
| `...Proofs` | theorems | the module, `TLAPS` |

### The engine (`BufferPool`, `SessionPool`, `Session`, `IocpServer`, `DataPath`)

A thread is a label `pc`, a stack of return labels, the session it works on
(`cur`) and the locals that live across steps (`rbuf`, `csock`, `job`). A method
called from several places is one action at one label and returns to the label on
the stack. This is how re-entrance is modelled: `Disconnect` called by `PostSend`
returns to `"unlock"`, called by `SessionPool::Release` to `"wipe"`, and so on.

A step is the code between two points where another thread's step could change
the outcome: the exchange on `connected_`, the socket closed and reported, the
second look of `Release`, the unlocked and the locked part of `ResetForReuse`, the
push on the free stack; the test of `connected_` in `Send` and its critical section;
the packet loop; the test, `Acquire`, `Setup` and `WSARecv` of `PostRecv`, which holds no lock, so
that the session may be released, or be another connection's, between any two of them.
Merged into one step: the whole of `Send` and `PostSend` under `sendMutex_`; taking a completion with
the first lookups of its handler; the two passes of `ResetForReuse` over the
`OverlappedEx` members; `closesocket` and the assignment of `sock_`; `Session::Init`; `PostAccept`.
What this hides: `Init` and the unlocked part of `ResetForReuse` write
`sending_` without the mutex. While a session is reset that makes no difference, as `owner_` is cleared before
`sending_`: a `PostSend` that sees the owner still holds the mutex the second part waits for, and one that does not
is on a null pointer. When it is used again, an `Init` in the middle of
a late `Send`'s critical section is not reached; nothing is claimed of `sending_` on later uses. As a socket's number
is not used again, a call between `closesocket` and the assignment fails, as one after it does. Two receives
posted with one `OverlappedEx`, buffer and socket are one member of `ops`.

The kernel is a set of outstanding operations (`ops`) and a set of open sockets.
An operation remembers the buffer it was given, while the handler looks at the
session's `OverlappedEx` as it is when the completion is taken, as in the code.
Sockets are numbered and a number is not reused. A call on a closed socket fails
at once; on an open one it may fail if `CallsMayFail`.

Outcomes of undefined behaviour: a null `owner_` ends the process (`NullOwner`,
`CompletionNullOwner`, after which `crashed` disables everything); locking
`sendMutex_` twice in one thread passes or hangs (`ResetSession`, `RelockHangs`).

`wire`, `accepted`, `notified` and `late` are history: what `WSASend` was given, how many
messages were put into a queue, which ids were reported, which sessions' `recvOvl_` was
filled by a `PostRecv` when they had been wiped, and not wiped since. A message is the
connection its caller meant and its number. `DataPath` adds two more in `SlotSpec`, which counts beside every
step of `Next`: `uses`, the connections each slot has served, and `dry`, a step was taken while the
buffer pool was empty. `FirstUse(s)` says that slot `s` is on its first connection or was never used.

The derived server is external and does what its header says: `Acquire...Session`
pops from the session pool, `ReleaseSession` pushes, `OnRawPacket` may call `Send` or
`Disconnect`. An empty piece of data and a piece the ring refuses both end the
connection (`RecvEnds`).

The environment is given by constants: `ClientsArrive`, `Enders` (who ends
connections: peers, the handler, application threads), `CallsMayFail`,
`AssocMayFail` (`CreateIoCompletionPort`), `MayStop`.

`SessionLifecycle` is the promise to the derived server: a slot serves one
connection, a connection that is dropped is reported once, and only after that is
its slot free. `IocpServer!Lifecycle` is that specification under the mapping
`phase` = serving if `connected_`, free if on the stack, closing otherwise; `conn` =
the id while there is a socket; `reported` = the ids notified.

### Ring and framing (`RingBuffer`, `ByteQueue`, `NetRingBuffer`, `RecvRing`)

`RingBuffer` keeps the array and the three indices of the code and splits a copy
at the end of the array as the code does; `Queue` says that it implements
`ByteQueue`. `moved` holds the bytes the last call was given or copied out, so that the
refinement compares them too. `NetRingBuffer` is the older ring: its write is the
newer one's line for line and is shared; its reads go round and never set the
positions back to 0. In `RecvRing` a byte is named by its packet and its place in it; the
header of a packet gives its size field, and a header read from other bytes gives a
size nobody sent. `Sent[k]` is the first `k` packets on the wire. The ring belongs to one thread at a time, as one receive is
outstanding (`OneReceiver` of `DataPath` checks that); clearing it in
`ResetForReuse` during a pop is not modelled.

### Id generator

The widths of the fields are parameters. The clock is read in a step of its own,
before the critical section, and may be set back at any time; `Restart` forgets
the generator's state. `|` is `+`, as the fields do not overlap; the subtraction of
the epoch wraps in the width of the time field, as the shift does. The id 0 is
retried, as in the code. `earlier` is history: how many ids earlier processes drew.

### Logger

A record is its number and level, a file is a sequence of records and its size
their number. The two streams have a buffer (`buf`) that reaches the file by a
flush. The worker's wait may end by time at any moment; `notify` wakes it only when
it waits. The drain after the loop holds `mtx` (no record is queued meanwhile) and
not `io_mtx`: it runs during a `Flush`, and then the line may be lost, which the
history variable `lost` records, as it does a rename that fails. Left out: files that
do not open, and a stream that writes its buffer out early by itself (that would
only help `FatalDurable`).

### Gateway sessions (`GatewaySession`)

One pooled object of either class. A field's value is who wrote it: a connection, or
0 for what the hooks give it; of `connectionFlags_` each set bit is remembered with
its writer, and a setter of the byte reads it in one step and writes it back in
another. A hook assigns its fields one at a time, in the order of the code, the base
class's first. A handler begins with the connection the object serves and may hold
the object for as long as it likes. `late` is history: such a handler wrote after its
connection was over, since the last hook began. `GatewayServerSession`
does not derive from `GatewaySession` and does not call its hooks, although
`GatewaySession.h:20` calls that class the common parent: the model follows the code.

### SHA-256 (`Hasher`)

`state_` is the sequence of bytes `Transform` was given since the last `Reset`:
what the compression makes of them is not modelled, which bytes it is given is. `Update`,
`Finalize` with its padding in one block or two, and `CalculateHex` are
actions; the object may be used again in any state. `Padded` says what the standard
says, with no loop and no buffer. The block and the length field are parameters, so
that a small block reaches every residue.

### The older server (`NetServer`)

`pc` and `turn` of a thread say where it is in `Start` or `Stop`, `at` and `packet`
where a worker is. The Owner is the thread that starts and destroys the server;
`Others` only call `Stop`. The packets in the port have two kinds, `accept` and
`quit`: the worker reads both as an `OverlappedEx` and finds no owner in either, so an
accept's packet is freed and `OnIocpAcceptComplete` does not run. The kernel ends an
accept when a client connects or when the listening socket is closed. A failed
`Start` leaves what the branch it failed in had made (`StartFails`).

### The older sessions (`NetBufferPool`, `NetSession`, `SessionManager`)

A thread's remaining work is a sequence of steps, `todo`; a step is replaced by the
steps it calls for, so `DestroySession` is `destroy`, then `close` and `release`, and
`close` may put `closeSocket` in front of them. What holds a mutex throughout is one
step: the maps' sections of `CreateSession` and `DestroySession`, the pool's
operations, `Send` and `OnSendCompleted` under `sendMtx_`. What has no lock is several:
reading, closing and clearing `sock_`; in `PostRecv` the look at `rx_` with the `Acquire`, the
handle's reset and the move into it, so that two of them may both find it empty; the copy
out of the receive block, clearing the handle, releasing the block. A receive outstanding in the kernel does not
remember its block, as no property is about its contents.

The kernel gives out handle values again once they are closed (`conn` says which
connection is behind a value, `NetSession` numbers connections apart from them). An
operation that ends leaves a packet only if its connection was associated with the
port by then; `unheard` is history: connections one of whose operations ended before
that. The `OverlappedEx` of a packet is freed at the end of the worker's loop and in
the model when the packet is taken, as nobody else has it.

`sendOf` and `sent` are history: the connection a message was meant for, and the messages
in the order they were posted, whatever session posted them. `OnIocpAcceptComplete`
is run by acceptor threads here, as it is written for, although no worker calls it
yet (`NetServer`). `FindAndSend`, `FindAndClose` and `Broadcast` take the session's pointer in
one step and use it in later ones.

### Handles and blocks (`BufferHandle`)

An assignment is three steps: the old block is taken out of the handle (`hand`), given
back, and the new one moved in from another handle or from the unnamed one `Acquire`
returns (`temp`). Threads work on different handles and meet in the pool. `raw` are blocks
lent by `Allocate` without a handle.

## 3. Runs

| Run | Instance | Shows |
|---|---|---|
| `accept` | 1 session, 2 buffers, 2 workers, 2 application threads, 3 sockets, no messages; all calls may fail; anybody ends connections | types, `PoolIntegrity`, `FreeIsClean`, `SocketsKept`, `NotifiedOnce`, `Lifecycle` |
| `send` | 2 connections one after the other on 1 slot, 2 messages in all over both, 4 buffers, 2 workers, 2 application threads, calls may fail, anybody ends the first connection | `Fifo`, `OneSend`, `SendAlive`, `OneReceiver`, `ReceiveAlive`, `NoAliasing` |
| `settle` | 1 connection, 2 messages, fairness | `AllSent`, `Recycled` |
| `stop` | Stop at any time, clients arriving, associations failing, 2 buffers, fairness | `StopReturns` |
| `log` | 2 threads, two lives, 5 records, files of 2 records, 1 kept file, renames fail, Flush at any time, fairness | `Retained`, `FatalDurable`, `ShutdownComplete`, `ShutdownReturns`, `AllWritten`, types |
| `ring_queue` | 4 cells, 2 values, inputs up to 5, the ring of either engine | `Queue` |
| `frames` | 2 connections of 3 packets with sizes 1 to 5 (allowed: 2 to 4), pieces up to 4, ring of 7 | `Reassembled`, `NothingWaits`, `NeverCutOff` |
| `net_stop` | 2 workers, 2 accepts, the Owner and another thread, 2 starts, fairness | `PortKept`, `ReportedOnce`, `StoppedIsClosed`, `StopReturns` |
| `net_sessions` | 1 session, 2 blocks, 2 workers, 2 callers, 1 handle value, 2 connections, 3 messages, 4 operations; calls and associations may fail | `OnePlace`, `ManagerAgrees`, `Fifo`, `OneSend`, `SendAlive`, `FreeIsClosed` |
| `parts` | ids: 3 threads, 2 sequence numbers, 4 ids, clock set back, restarts; blocks: 3 handles, 2 threads, 3 blocks; gateway session: 2 handlers, 2 connections, 2 writes; hasher: blocks of 16 bytes, length of 2, messages to 40 | `Increasing`, `DecodesBack`, `OneOwner`, `Isolation`, `Digest` |
| `accept_buffer` | one worker, two accepts | **violated** `FreeIsAvailable` |
| `double_release` | one association fails | **violated** `NoDuplicateFree` |

Why the bounds are enough. One slot is the hardest case for a pool: every reuse
is a reuse of the same slot, and threads that still hold the last connection's
pointer meet the next one there. Three sockets let one slot serve two connections while an
accept is pending, so a `PostRecv` of the first meets the free session and the second connection, and
two buffers are soon all lent, so the paths of an empty pool are taken too. Four threads are a disconnecting handler, a worker, and two
application threads at the same exchange. Two messages are the first and one that
queues behind it. In `send` the slot is used again once, which is enough for a thread, a queue or a completion of the
first connection to meet the second; `CONSTRAINT Scope` leaves the second one without receives and without
an end, as these add states and meet nothing the properties look at, and while a `PostRecv` of the first connection is
still under way there lets one other thread act at a time. In the ring, 4 cells allow every position of a wrap, and inputs
of 5 overfill it. In `frames` the largest packet is twice a header and pieces cut
headers and packets at every place; the ring is the smallest that `NeverCutOff` allows,
a receive buffer and the largest packet less one byte, where the code has 64 KiB for
packets of 4 KiB. In `log` five records rotate twice, so the oldest file is
dropped, and a second life appends to what the first one left.

In `net_stop` two workers are enough for one to take the other's packet, two
starts for a life that follows another. In `net_sessions` one handle value is
given out again at once, which is the worst case for a copy of it, and three messages are one under
way, one that waits and one that arrives at any moment, before the reuse or after it. Its `CONSTRAINT Scope`
lets messages cross the reuse: the session is given out again with what the first connection left, queue, flag,
outstanding send or packet, and messages are sent on the second one. It leaves out what multiplies the states
without meeting this: with a second connection one worker is busy at a time, and if there are messages too, two
threads in all, and no receive is outstanding; handles are filled and bytes arrive on the first connection
while no message was sent. In `parts` a behaviour
runs one of the four components; a millisecond holds two ids, so three threads overflow
it; three handles are a target, a source and a third that meets them in the pool, and
`CONSTRAINT Bounded` stops after 5 acquisitions; two writes are a read-modify-write of the
flags and a write between its halves; messages of 40 bytes reach every residue of two blocks and a half.

Symmetry is used only in runs of invariants and of `Lifecycle`, an abstract safety specification whose
variables name no thread. No run checks deadlock except `ring_queue`, as the others stop
by their bounds: all sockets used, all messages sent.

A late `Send` or a late completion reaches the next connection of its slot (both are
in the model, and listed as hazards). So `OneSend`, `SendAlive`, `OneReceiver`, `ReceiveAlive` and the exactness in
`Fifo` speak of a slot's first connection, `NoAliasing` of the time until a slot is used again, and `settle`
has one connection; on later ones they are false. That the messages meant for one connection leave
in order and once (the rest of `Fifo`) covers reuse, and so do `accept`, `PoolIntegrity` and `Lifecycle`. `PoolIntegrity` needs associations not to fail (`double_release`). In `net_sessions`,
`OnePlace`, `ManagerAgrees`, `Fifo` and `OneSend` cover reuse; `SendAlive` and `FreeIsClosed` speak of a
session's first use (`FirstUse`) and are false on a later one.

### Fairness

Newer engine: every thread's own next step is weakly fair (the scheduler runs it; the
critical sections end), also Start and the join in Stop. Taking the completion of
a send is strongly fair: on an open socket it completes, and the completion port
is a queue that workers keep coming back to. Nothing is assumed of what peers,
handlers or application threads choose, nor of accepts and receives. Logger: the worker is
strongly fair (a wait of 200 ms ends, and `io_mtx` does not starve it under
repeated Flush), a Flush and a Shutdown that have begun are weakly fair; nobody
is forced to log, flush or shut down. Older server: a thread inside `Start` or `Stop`
and a worker with something to do go on, weakly; nobody is forced to start or to stop it,
and no client to come.

### What the violations show

- `accept_buffer`: `OnAcceptCompleted` posts the next accept into the shared
  `acceptOvl_` and then releases the buffer it finds there, which is the next
  accept's. The kernel writes addresses into a buffer that is on the free stack.
- `double_release`: after a failed association the session is disconnected, which
  releases it, and released again; two connections will share it.

### What the properties except

The models take these branches too; the properties that pass say what holds beside them.

- Newer engine. A `PostRecv` that had its buffer when the session was reset leaves it in `recvOvl_`
  of a free session, where the next receive overwrites it: the buffer is lost. `FreeIsClean` excepts the sessions in `late`,
  and the queue and flag while a `Send` that passed its test is about to lock. Without `late` it is false.
  With an empty buffer pool `PostSend` drops the message and leaves
  `sending_` set, and `PostRecv` leaves the session without a receive: `SendAlive`, `ReceiveAlive` and
  the exactness in `Fifo` speak of the time before the pool is first found empty (`dry`), and the first two
  of a server that was not told to stop, since a worker that leaves takes its completion with it. Without a buffer or a socket in `PostAccept` no
  accept is outstanding any more. `OnRecvCompleted` may find `owner_` null.
- Logger. The last drain uses the streams without `io_mtx` while a `Flush` may hold it;
  a line that meets the flush is in `lost`, which `ShutdownComplete` excepts.
- Older server. A worker that takes the packet meant for another goes back to
  wait, and `Stop` waits for ever (`Stolen` in `StopReturns`). No accept takes the place of
  one that ended. The listener may hear `OnServerStarted` after `OnServerStopped`, if another thread
  stops the server while `Start` posts accepts. A failed `Start` leaves its handles open, and
  a later `Stop` does not look at them.
- Older sessions. A session that comes back from the pool keeps `closing_`, `sending_` and its queue: its next
  connection may stall, get the last one's messages, or not be closed. Two threads
  may close one handle value, the second time for whatever got it meanwhile. A send that is refused drops the
  front of the queue, which need not be the message refused. When `WSASend` fails in `OnSendCompleted` the rest of the
  queue stays with the flag clear until the next `Send`: `SendAlive` speaks of queues whose flag is set. `CreateSession` starts the session and so does
  its caller: two receives share one block. `bySock_` keeps entries of closed
  handles. An operation that ends before the association is never heard of (`unheard`). When a
  client leaves, nobody destroys its session.
- Gateway sessions. A handler of the last connection that writes after `OnInit` changes
  the next one's fields (`late`).

## 4. Proofs

| Theorem | States | For every |
|---|---|---|
| `IocpServerProofs!TypeCorrect` | `Spec => []TypeOK` | number of threads, sessions, buffers, sockets; environment |
| `IocpServerProofs!PoolSafe` | `~AssocMayFail`: `Spec => []PoolIntegrity` | the same |
| `IocpServerProofs!EndReported` | `~AssocMayFail`: `Spec => []NotifiedOnce` | the same |
| `IocpServerProofs!LifecycleHolds` | `~AssocMayFail`: `Spec => Lifecycle`, the refinement | the same |
| `IocpServerProofs!FreeSessionsAreClean` | `~AssocMayFail`: `Spec => []FreeIsClean` | the same |
| `IocpServerProofs!NoSocketLeaks` | `~AssocMayFail`: `Spec => []SocketsKept` | the same |
| `IocpServerProofs!MessagesInOrder` | `~AssocMayFail`: `SlotSpec => []Fifo` | number of threads, sessions, buffers, sockets, messages; environment |
| `IocpServerProofs!OneSendAtATime` | `~AssocMayFail`: `SlotSpec => []OneSend` | the same |
| `IocpServerProofs!SendingEnds` | `~AssocMayFail`: `SlotSpec => []SendAlive` | the same |
| `IocpServerProofs!OneReceiverAtATime` | `~AssocMayFail`: `SlotSpec => []OneReceiver` | the same |
| `IocpServerProofs!ReceivingGoesOn` | `~AssocMayFail`: `SlotSpec => []ReceiveAlive` | the same |
| `IocpServerProofs!BuffersLentOnce` | `~AssocMayFail`, `~ClientsArrive`: `SlotSpec => []NoAliasing` | the same |
| `UidGeneratorProofs!TypeCorrect` | clock past the epoch: `Spec => []TypeOK` | layout, callers, clock movement, restarts |
| `UidGeneratorProofs!IdsIncrease` | clock past the epoch: `Spec => []Increasing` | the same |
| `UidGeneratorProofs!IdsDecode` | clock past the epoch: `Spec => []DecodesBack` | the same |
| `RingBufferProofs!RingTypeCorrect` | `Spec => []TypeOK` | capacity, values, inputs |
| `RingBufferProofs!RingIsQueue` | `Spec => Queue` | the same |
| `RingBufferProofs!NetRingTypeCorrect`, `NetRingIsQueue` | the same of `NetSpec` | the same |
| `RingBufferProofs!PacketsReassembled` | `RecvSpec => []Reassembled` | capacity, header, sizes, pieces, packets, connections |
| `RingBufferProofs!NoPacketWaits` | `RecvSpec => []NothingWaits` | the same |
| `RingBufferProofs!ProtocolIsEnough` | room for a receive buffer and the longest packet less one byte: `RecvSpec => []NeverCutOff` | the same |
| `NetServerProofs!TypesKept` | `Spec => []TypeOK` | workers, accepts, threads that stop, starts |
| `NetServerProofs!PortOutlivesWorkers` | `Spec => []PortKept` | the same |
| `NetServerProofs!EndReportedOnce` | `Spec => []ReportedOnce` | the same |
| `NetServerProofs!ReportMeansClosed` | `Spec => []StoppedIsClosed` | the same |
| `SessionManagerProofs!SessionInOnePlace` | `Spec => []OnePlace` | sessions, threads, handles, connections, messages; environment |
| `SessionManagerProofs!FoundUnderItsId` | `Spec => []ManagerAgrees` | the same |
| `SessionManagerProofs!SendsInOrder` | `Spec => []Fifo` | the same |
| `SessionManagerProofs!OneSendAtATime` | `Spec => []OneSend` | the same |
| `SessionManagerProofs!SendingEnds` | `Spec => []SendAlive` | the same |
| `SessionManagerProofs!ReleasedIsClosed` | `Spec => []FreeIsClosed` | the same |
| `LoggerProofs!TypeCorrect` | `Spec => []TypeOK` | producers, records, files, restarts |
| `LoggerProofs!FatalIsDurable` | `Spec => []FatalDurable` | the same |
| `LoggerProofs!ShutdownIsComplete` | `Spec => []ShutdownComplete` | the same |
| `LoggerProofs!LatestRecordsAreKept` | `Spec => []Retained` | the same |
| `BufferHandleProofs!HandlesTypeCorrect` | `HandlesSpec => []HandlesTypeOK` | handles, threads, blocks |
| `BufferHandleProofs!BlocksHaveOneOwner` | `HandlesSpec => []OneOwner` | the same |
| `PartsProofs!SessionsIsolated` | `GatewaySpec => []Isolation` | connections, handlers, writes |
| `PartsProofs!DigestIsOfTheMessage` | `HasherSpec => []Digest` | block, length field, data and messages |

`PoolSafe`. `PoolIntegrity` alone is not inductive: after the exchange a thread
holds a session at labels that call each other, and nothing in `PoolIntegrity` says
where a `Return` leads. The inductive invariant is
`PoolInv == TypeOK /\ SafeStack /\ OwnerKnown /\ PoolIntegrity`. `SafeStack`: no
return label on a stack is one at which a thread holds the session, as
without failing associations nobody calls `Disconnect` with the intention to
release afterwards, and `Release` finds the flag already false. `OwnerKnown`: a connected
session, or one about to be closed, has its owner, so the thread that won the
exchange goes on to release. Most steps are quiet (they change neither flag, stack of
free sessions nor who holds what) and are discharged by the lemmas `Quiet...`; the
four that are not (exchange, wipe, push, pop) have a lemma each.

`EndReported` and `LifecycleHolds`. Which connection a slot serves is not in `PoolInv`, so
`LifeInv` adds three parts: `SocketInv` (a connected session and one whose socket is about to be closed have a
socket, a pooled one and one past the close have none), `IdInv` (ids are distinct, below the
counter, and that of a session with a socket was not reported) and `AcceptInv` (one accept is
outstanding, on the socket made for it, so that a new connection never comes without a socket). Then
`CloseSocket` reports a new id. `MappedSteps` writes the abstract steps over the concrete state, and
each of the exchange, the close, the push and the pop is `Drop`, `Report`, `Recycle` and `Establish`; every other step
of every thread is a stutter.

`FreeSessionsAreClean`. `CleanInv` follows the holder: at `reset` the flags are wiped, at `push`
the queue and the `OverlappedEx` members too. Of the calls that overtake the holder, a `PostRecv` past its `Acquire` fills
`recvOvl_`, which puts the session in `late`, and a `Send` is excused until it takes the lock, where
it meets the null `owner_`, which ends the process (a hazard of its own). No other call leaves anything in the session.

`NoSocketLeaks`. `KeepersInv` says that sessions, threads before `AcquireSession` and the pending
accept keep distinct open sockets, `KeptInv` that every open one is kept; a new handle is fresh (`SocketTypes`).

The six theorems on `DataPath` start from `GroundInv`: the invariants above, and what they do not say of a thread.
`ControlInv` lists the call stacks there are, four, and at which label each may be; `MutexInv` says that who
holds `sendMutex_` is in `Disconnect` under `PostSend` (or in the second lock), and `UsesInv` that nobody has touched a slot never used.

`OneSendAtATime`, `SendingEnds`, `OneReceiverAtATime`, `ReceivingGoesOn`. The
operations of a session outstanding in the kernel and the threads that act for one are together at most one
(`OneOf`), and `SendsInv` and `RecvsInv` are that with what makes it inductive: while there is one, `sending_` is set or the owner is gone
(so that no `Send` starts a second); the `OverlappedEx` still has the operation's buffer, or was wiped on a session without a
socket; and the mutex is held over a step only on the way to `Disconnect`. On its first connection a session is not
connected again after its release, so a completion that finds the members wiped finds no new user of them.

`BuffersLentOnce`. `BlocksInv` follows a buffer from the stack to the kernel, to the thread that reads it, and
back. The accept's buffer breaks this (the run `accept_buffer`), hence `~ClientsArrive`: a server that only connects out.

`MessagesInOrder`. A message enters one queue in its life, although the session may change under it, because of `HostInv`: one
session at a time has to do with the messages of a connection (it has the socket, or a thread in `Send` that meant
it, or a queued message), and with a socket no session has had, none. `OrderInv` is `Ordered` of queues, wires and counters: what
was posted is before what is queued, and each is in order; pushing, posting and dropping the
first are lemmas about `Ordered` alone, so that reuse of the slot does not enter into them. `ExactInv` adds, on the first
connection, that the queue goes on where the wire ends, unless `sending_` is set for good (`Stuck`: nothing
will be posted again then).

`IdsIncrease`. The strengthening is `Reached`: no id this process issued was made
of a larger pair (time, number) than the generator's state; then the two lemmas on
the layout, `LaterIsLarger` and `LargerNumber`, give the order of the ids.

`RingIsQueue`. The invariant is the type invariant with `tail = (head + size) %
Capacity`; each operation's lemma says what the cells hold after it, as a sequence.
`NetRingIsQueue` uses the lemmas on writes and on fetched bytes and adds the reads that do not start again.

`PacketsReassembled`, `NoPacketWaits`, `ProtocolIsEnough`. `FrameInv`: the ring's contents are the piece of the wire between
the last packet popped and the last byte delivered (`Held`), and a session that waits has less than the next
packet of the peer, or has met a bad header (`Waits`). Pushing a piece makes the one longer at its end, popping shortens it
by a packet (`NextHeader`: the header peeked at is that of the next packet), by the ring's lemmas `WriteRingStep` and `AdvanceStep`.
What the peer sends is a recursive function of its packets; that the function exists and where each packet
lies on the wire goes by `SetInduction`, induction stated of a set of numbers and derived from the well-foundedness of `<`.

`NetServerProofs`. One invariant, `StopInv`, gives the three properties: at most one
thread is inside `Stop`, and only there or in `Start` is anything half done; the
workers before its turn have ended and those after it may run; and what the listener was last told fits
where the server is in its life. That `running_.exchange` returns true once is what keeps the second thread out.

`SessionInOnePlace` and `FoundUnderItsId`. "Exactly one place" is a statement about a set that three
variables make; `ManagerInv` says it as three cases, each a session being `Free`, `InUse` or `InHands`,
built from "once in" and "nowhere in" for the free list, the map and the steps the threads have left. A step
replaces the first of a thread's steps by others (`Follows`), and four
operations only are about a step that holds a session: allocation, registration, erasing and release. `IdsInv` says
that ids given are below the counter and no two sessions have one; `EnoughIds` that the
connections yet to be created do not exhaust the numbers of the map. Of `destroy` nothing is
assumed: any thread may call it, with any id, at any time.

The four theorems on what the older engine sends rest on `SendInv`, beside `ManagerInv`.
`QueueInv` is the order: on one connection everything posted has a smaller number than
everything queued and every queue grows; it is a statement about four functions (`QueuesOK`), and
`Send` and `OnSendCompleted` are compositions of three operations on them (pushing, posting and popping
the first), each with its lemma, so that `Send` to an idle session is a push and a post. `Fifo` and `OneSend`
then hold for every use of a session, `OneSend` because the pool leaves `sending_` as it was: an allocation that cleared
it would break both, as the run shows when it is changed so. A session with `sending_` set has at
most one thing to show for it, a pending call, its packet, or a `sendDone` step
(`TokenInv`, `CallInv`); `AliveInv` says that on the first use it does have one, or a `close` step in
the same thread, or the connection is in `unheard`. For this the steps a
thread has left come in an order (a receive's copy, clearing and release before the next receive, closing before
the release), and on a session's first use nothing is undone: `sid`, `serves` and `closing` only go
forward. `ClosedInv` follows a destroyed session: it has been closed, or the thread that will release it
has `close` before that, or another thread is between reading `sock_` and closing the handle; `FreedInv`
is what remains of it when the calls have returned.

`LoggerProofs`. `LogInv` counts: what was dealt with, what is in the worker's batch and what is in the
queue make up what was queued (`Counted`); a stream's size is what its current file and its buffer hold
(`Sizes`), so rotation never finds a size that is not the file's; `Phases` says where the worker may
be while `main` starts, runs and ends, and with `Done` gives `ShutdownComplete`.

`LatestRecordsAreKept`. `Aligned` says that the worker's batch and the queue are the records after the last one dealt with, so
that what a stream was given is a prefix of the history with some levels left out. `AllKept` says of each stream that its files
and its buffer are the end of that, that a rotated file which holds anything comes after full ones only, and that
nothing was given up unless the oldest place is full: `Retained` alone says nothing of a file that is small and old, and a
rotation may then lose the records before it. A rename that fails sets `lost`, which `Retained` excuses. What joining the files gives
(`FlattenSeq`, a recursive function) goes by the same `SetInduction` as the ring's wire.

`BlocksHaveOneOwner` goes the same way: `Stacked`, `Owned` or `Nowhere` for each block, one
lemma for each way a block changes hands, and the counters by cardinalities.

`SessionsIsolated`. The fields a hook has still to assign are excused and a handler of
an earlier connection is what `late` records: every other field was written by the connection served or by a hook.

`DigestIsOfTheMessage`. `HashInv`: a hasher that is not finalized `Holds` its message, the part it absorbed is whole blocks and
counted in `bitLength_`, and the rest is less than a block. `Collected` says that data keeps this, `Closed` that the padding
of the rest, in one block or two, is the padding of the message: the number of zeros which fills the last block is the only one
below a block's size (`OneMultiple`), and both cases of `Pad` write that number.

The assumptions are the named `ASSUME`s of the modules. They cover counts that are
natural, disjoint threads, cells that hold the bytes the peer sends, a block larger than its length field, and a clock that fits the time field. The theorems of `IocpServerProofs` after `TypeCorrect`
and those of `UidGeneratorProofs` have hypotheses more, given in the table: an association that
fails puts a session on the free stack twice (`double_release`), after which nothing of this is true.

So every safety property of every passing run is also a theorem, under the hypotheses above, and so are both refinements. Model-checked only:
liveness (`AllSent`, `Recycled`, `StopReturns` of either engine, `ShutdownReturns`, `AllWritten`: fairness is out of the prover's reach), and what the
two runs that end in a violation show.

## 5. Not modelled, and why

- Contents of packets, buffers and log lines, and formatting: no property depends on them.
- In the newer engine `closing_`, `role_` and `OnClientConnected`: nothing
  else reads what they change. That `OnClientConnected` runs after the first receive is posted, so the derived server may
  hear of the end first, and that `ResetForReuse` clears the receive ring while a worker may be popping from it, are
  hazards of this code the models do not reach.
- The failing returns of the newer engine's `Start`, and a second `Start` after `Stop`.
- Files of the logger that do not open, or that do not open again after a rotation: every line is then dropped.
- `SHA256::Transform` and the hexadecimal form of a digest: a model would repeat the algorithm.
- The gateway server, its managers and its packet handler: their bodies do not exist.
- Error codes and constants, and the options of sockets: no behaviour.
- The destructors of the older pools, and their getters.

## 6. Plan

Done: both engines, their pools, rings and framing, the id generator, the logger, the
gateway's sessions, the hasher; theorems on the life of a connection, messages and buffers of both engines, the pools, the
rings, the ids, the older server and manager, the logger, handles, gateway sessions and the hasher.

1. Reuse of a slot while calls for its last connection are under
   way, as a property of each message; the receive ring cleared during a pop.
2. `OnIocpAcceptComplete` called by the workers, once the code does, with `NetServer` and
   `SessionManager` composed.
3. The gateway's managers, when they have bodies.
