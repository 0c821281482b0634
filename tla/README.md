# A verification of netsystem's connection machinery

netsystem is a C++ network library: a lobby owns a connection factory, the
factory owns a TCP server, the connections it accepts ("clients"), outgoing
connections ("isolated" connections) and two queues between two threads. These
modules model the parts whose correctness depends on order and interleaving,
check them with TLC on small instances and prove the main safety properties with
TLAPS for every instance. The builds of the repository define `NETSYSTEM_MT=1`,
so the KJ backend (`src/src/tcp/kj`) with its worker thread is the one modelled.

## Inventory

| Part | State | Operations | Hard behaviour |
|---|---|---|---|
| factory (`KjConnFactoryBase`) | queues, `_vClosedServer` | OnInit, OnUpdate, OnDelete | shutdown waits for the worker while it runs the worker's callbacks itself |
| work queue (`KjConnFactoryWorkQueue`) | commands, `_done`, `_finished` | Commit, BlockingCommit, read_pipe_loop, Finish | commands use clients the main thread may delete |
| trunk queue (`ConnFactoryTrunkQueue`, `CamelReaderWriterQueueWL`) | callbacks, `_close` | Add*Cb, RunOnce, Close | callbacks use clients; RunOnce stops at a waterline |
| server (`KjServer`) | stream dictionary, `_closed`, accept task | Open, AcceptLoop, OnAcceptClient, OnDisposeClient, FlushDownStream, Close | close while accepts and confirmations are in flight |
| client (`KjClientConn`) | flags, four counters, stream, tasks | OnConnect ... ConfirmClientIsReady, DisposeConnection, taskFailed | flags and counters written by one thread, read by the other |
| connection manager (`TcpConnManager`) | map, count, recycler, safe list | OnAddClient, OnRemoveClient, ReleaseAllClients, DisposeDownStreams, Recycle | deletes objects another thread used |
| isolated connection (`KjIsolatedConn`, `KjTcpConnection`) | flags, delayed reconnect, stream | Connect, Reconnect, DelayReconnect, Disconnect, taskFailed | reconnect after a delay races with disconnect |
| packet framing (`TcpInnerPacket`, `TcpOuterPacket`) | page state, receive buffer | Post, ConsumeFramePage, ConsumePacket | pages split at any byte |
| stream buffer (`bip_buf`) | region A, reservation, capacity | reserve, force_reserve, commit, decommit, reset | offsets after wrap and expansion |
| accounts (`AccountStateList`, `SimpleAccountManager`, `ObjectPool`) | pool, three lookup caches, online count | Register, Unregister, Online, Offline, Kick* | caches that outlive what they cache |
| zones (`SimpleZoneManager`) | zones, channels, peers | Register, Unregister, ... | three maps that must agree (not modelled, see the end) |
| gate variants, libuv and libevent backends, HTTP, utilities | | | not modelled, see the end |

## `KjFactory`: two threads, one server, its clients

The main thread talks to the worker by commands (`workQ`), the worker to the main
thread by callbacks (`trunkQ`). A client object is created by the main thread when
it runs an accept callback, is confirmed, written to and disposed by commands the
worker executes, and is deleted by the main thread's recycler once four counters
and two flags say nobody uses it.

**State.** Flags of the client objects are sets of connections (`disposed` is
`_bDisposed`), the counters `frontProduce`, `backConsume`, `backProduce`,
`frontConsume` are those of `CKjClientConn`, `clients`, `clientCount`, `recycler`
and `safe` are the manager's containers, `streamDict` and `closed` the server's.
`mpc` and `wpc` say where the two threads are inside the operations that are not
atomic; `later` holds the clients captured by a function `taskFailed` scheduled.

**Actions.** One action per handler or per loop turn:

| Thread | Actions |
|---|---|
| main, application | OpenTcpServer, SendPacket, Disconnect, CloseTcpServer |
| main, `RunOnce` | StartRunOnce, OnAcceptClient, IgnoreAccept, OnDisconnectCb, OnPacketCb, CallbackOnReleased, RunOnceEnd |
| main, recycler | StartRecycle, RecyclerPopFirst, RecyclerPopSecond, SafeRelease |
| main, shutdown | CloseAnswered, ReleaseClient, ReleaseEnd, Finish, Stop |
| worker, events | AcceptStream, AcceptLoopFailed, OnGotPacket, TaskFailed, OnDisposeClient, LaterOnReleased, WorkerQuit, ListenThrows |
| worker, commands | StartDrain, Exec*, DisposeDownStream, CloseEnd, ResultCb, DrainEnd |

The condition of `RecyclerPop` is read in two steps, because the worker may add a
callback between them. A use of a deleted client is undefined: `CallbackOnReleased`
and `LaterOnReleased` either end the process or act on memory that still reads as a
removed client. The worker executes a command and its result callback in two
steps; `read_pipe_loop` drains the queue inside one event of the worker's loop, so
no other event of the worker falls between two commands. A thread's update of a
counter and the enqueue that follows are one step: the other thread can act on the
counter only after the enqueue, or reads an earlier value, which the model also has.

**Assumptions about the environment.** The application uses a client only while the
client is in the manager's map. Connection ids are not reused. The queue and the
notification pipes of the external servercore library lose nothing; a pipe with
work behind it is readable again.

### Runs

| Run | Instance | Shows |
|---|---|---|
| `kj_safety` | two connections, one packet each way per connection, waterline 2 | the invariants below, `MapStableDuringWalk` and the refinement `LifetimeKept` |
| `kj_liveness` | one connection, two received packets | `ShutdownCompletes`, `FailedIsRemoved`, `RecycledIsReleased` |
| `kj_callback` | one connection | **violated**: a deleted client is named by a pending callback |
| `kj_later` | one connection | **violated**: a deleted client is captured by a scheduled function |

`WaitsAreServed` is the safety half of the liveness properties. While the main thread
sleeps in `BlockingCommit`, the promise is answered, its command is queued or the worker
executes it. Of everything `RecyclerPop` tests of a client in the recycler, what is not
yet true is on its way: the disconnect callback, the callbacks and commands that the
counters tell, the `DISPOSE_CONNECTION`. And the worker quits only when the recycler is
empty and the main thread past its last wait.

`ClientLife` is the abstract specification of a client object: offered, serving,
retired, deleted, with one reference count for the commands that use it, read and changed
in one step. `LifetimeKept` says that `KjFactory` implements it: `refs` is
`frontProduce - backConsume`, and a client is deleted when `RecyclerPop` decides so. No
command is made for a client that was given up; it is given up once, and deleted only
with no reference left, disposed and known as disconnected. Callbacks are no references
in `ClientLife`; the finding `kj_callback` says why they could not be.

Two connections are enough for one to close while the other is at any other point
of its life; connections share only the queues, the map's size and the two
threads. A waterline of two makes `RunOnce` stop before, at and after the last
callback. One packet each way gives every order of packet, confirm and dispose.

Fairness: both threads run (`WF` of `MainStep` and `WorkerStep`), and the main
thread's event loop serves both of its sources again and again (`SF` of
`StartRunOnce` and `StartRecycle`, each disabled while the other runs). The
application and the network are not fair: nobody has to connect, send or close.

### The two findings

`kj_callback`: `RecyclerPop` reads `IsBackEndClean()` first. If the worker then adds
a packet callback and executes the pending `DISPOSE_CONNECTION`, the remaining three
reads are true and the client is deleted while the callback waits in the trunk
queue. Reading the back-end counters last would close the gap.

`kj_later`: `taskFailed` schedules a function that captures the client and is
counted nowhere. If the worker serves a queued `DISPOSE_CONNECTION` before that
function, the recycler may delete the client first.

Both need the peer's data or its end of stream to meet a disconnect by the main
thread within a few instructions, so no test is likely to see them. Everything the
theorems below state holds in spite of them.

### Proofs

`KjFactoryTypes` proves `Spec => []TypeOK`. `KjFactoryProofs` proves `Spec => []IInv`
and from it each invariant of `kj_safety`, the action property and the refinement, for
any finite set of connections and any bounds (`ConnsAssumption`, `BoundsAssumption`).

`IInv` is the conjunction of the stated invariants with what makes them inductive:

* an accept callback names a stream without a client, once, whose stream is in the
  dictionary until `Close` (`AcceptIsFresh`, `AcceptHasStream`, `FreshIsClean`);
* a command uses a live client and what the recycler saw stays true
  (`CommandIsLive`, `ReleasedIsClean`);
* a client owns its stream from the confirmation to the disposal, and nothing is
  done to it before the confirmation (`StreamOwnership`, `ConfirmIsFirst`);
* a client being disposed by a command has left the map (`DisposingIsRemoved`);
* the main thread sleeps while a blocking command is the last of the queue or is
  executed (`Blocking`), and after `Close` nobody is accepted (`ClosedIsFinal`);
* the recycler walks connections that are in it (`WalkInRecycler`).

The argument: the counters are exact because a command or callback is counted once
where it is queued and once where it is finished. So a clean front end means no
command is left, and a client that left the map gets no further one; hence what the
recycler releases is out of every command's reach. `ConfirmFindsStream` is the delicate
one: the server's `Close` empties the dictionary, and it can do so under no pending
confirmation because `Close` comes through the same queue and the main thread sends
nothing while it waits.

`WaitsAreServed` needs more than `IInv` (`ServedInv`). The recycler could hold a client
that is disposed by nobody if `Close` forgot one: `CloseVisitsAll` says that the walk of
`DisposeDownStreams` leaves no client of the map undisposed and that nobody is added
after it. `FinishIsLast` says that `OnDelete` leaves its loop with an empty recycler,
which is what lets the worker quit. The rest comes from the counters: because
`CommandAccounting` and `CallbackAccounting` are exact, a counter that is not clean means
a command or a callback that exists. With the fairness of the two threads this is the
reason for `ShutdownCompletes`, which itself stays with TLC.

`LifetimeKept` needs `ConnectedIsOwned`: the application knows of no client as connected
that the recycler has given up, and between the two reads of `RecyclerPop` none becomes
so. Then each step is one step of `ClientLife` or none: a command queued is `Use`,
`Create` or `Retire`, a result callback is `Finish`, and the second read of `RecyclerPop`
is `Delete`. It may be split from the first because the facts read first, except the one
`kj_callback` is about, stay true once they are.

The lemmas are split by what they are about: `KjFactoryQueues` (frames, counters,
owners, accept callbacks, reports), `KjFactoryStreams` (ownership, confirmations,
disposal, the recycler's walk), `KjFactoryProofs` (blocking, closing, waiting, the life of
a client, the theorems).


## `BipBuf`: the stream buffer

`BipBuf` models `bip_buf.c`: the capacity, the memory (twice the capacity), region A
and the reservation. Reserve, ForceReserve, Commit, Decommit and Reset are one action
each; Place (where the reservation goes, and the wrap) and Expand are the parts that
`bip_buf_reserve` and `bip_buf_force_reserve` share or have of their own. A byte is
its position in the stream, so that the order of bytes can be stated. Commit writes
the bytes too, as `AsyncReadLoop` does between reserving and committing.

* `bip_buffer` takes every sequence of calls on a buffer of capacity 3, so that a
  wrap happens after two commits, which may expand to 4 and 8. 12 bytes are enough
  for region A to slide through the memory and wrap in each capacity. `InBounds`:
  a reservation never leaves the memory nor overlaps region A. `WrapIsDisjoint`: the
  `memcpy` of a wrap has disjoint blocks. `ActsAsQueue`: the buffer implements
  `ByteQueue`, the abstract specification of a queue of bytes that gives room within a
  limit, appends what is put and takes from the front; wraps and expansions are not seen
  in it. The queue is read from the memory (`Contents`, what
  `bip_buf_get_contiguous_block` gives).
* Nothing in the repository calls `bip_buf_force_reserve`. The header says that it
  "would expand buffer if not enough free space"; a buffer that is completely full is
  not expanded (`MayForce`). The old memory, which an expansion frees or, of an empty
  buffer, leaves behind, is not in the model.
* `MCBipBuf` also assumes, and TLC evaluates on this run, that the shifts of
  `next_power_of_two` give the least power of two, which is what `BipBuf` uses, for
  all arguments up to 300 and the neighbours of some larger powers.

`BipBufProofs` proves `TypeOK`, `InBounds`, `WrapIsDisjoint` and `ActsAsQueue` for every
capacity and every bound up to 2^30. The inductive invariant is the conjunction of
`TypeOK`, `InBounds` and `Fifo` (the contiguous block is the stream in order): where a
byte lies is known only from the bounds. The refinement rests on `Fifo`: before and after
a step the contents are a stretch of the stream, so a wrap leaves them as they are and a
commit is a concatenation of two stretches. The proofs
keep the arithmetic in lemmas over constants, instantiated by the steps.
## Isolated connections: `KjIsolated`

`KjIsolated` models one outgoing connection (`CKjIsolatedConn` with its
`KjTcpConnection`). Its flags are variables of their own, because both threads write
`_bRunning` and the worker decides from `_bConnected`, which the main thread sets
later, whether to post a callback. `owned` stands for the four worker-side objects
that `Connect` creates and `DisposeConnection` drops together; `task` and `timer` are
the two kinds of task in `_thr_tasks`; `later` is the function that `taskFailed`
schedules.

Main thread: `ConnectCall` (blocks until `Connect` ran), `SendPacket`, `Disconnect`,
`Reopen`, `ReleaseAllIsolateds` (shutdown), the three callbacks, `Recycle`. Worker:
the drain of the four commands, `OnLowLevelConnect`, `OnGotPacket`, `TaskFailed`,
`OnIsolatedError`, `Reconnect` when the delay expires. A drain runs in one turn of
the event loop, so no socket step happens inside it; the main thread interleaves with
every command. `Connect` may refuse its address, and the caller is told success
either way, as in `read_pipe_loop`. A dereference of a dropped object (a reopen of a
refused connection, an error handled after the disposal) is a step to `crashed`.

Two simplifications rest on `KjFactory`: the counters of the connection are clean
exactly when its queues are empty, and the recycler reads its condition in one step.
`KjFactory` models the counters and the separate reads.

Bounds: two application calls, two packets, three failures. Three failures are a
failure during an attempt, one while a delay runs and one after a reconnect. The
history variable `late` records that a reconnect delay expired while a callback still
waited for the main thread. `RECONNECT_DELAY_SECONDS` is 10, so this means a main
thread that is stalled; three properties leave it out.

| run | shows |
|---|---|
| `isolated` | whatever the main thread's pace: `AlwaysTrying` (a running connection always has a socket, an attempt, a failure to handle or a delay), `ConnectedIsTrue` (the application is never left believing in a dead socket), `RecyclerIsServed` (nothing in use is released, and what the recycler waits for is disposed, flushed and idle once the commands are drained); unless it was `late`: `FrontAgrees`, `PacketWhileConnected`, and `EndsConnected` under weak fairness of both event loops |
| `isolated_comment` | violation of `DisconnectKeeps`: `Disconnect` disposes, so `Reopen` of a connected connection never reconnects |
| `isolated_stop` | violation of `StoppedStaysDown`: a delay expiring between `Disconnect` and the disposal sets the connection running and connected again, and the recycler waits for ever |

Without the condition on `late`, `FrontAgrees` fails: when a reconnect succeeds
before the main thread ran the disconnect callback of the previous socket,
`OnLowLevelConnect` still finds `IsConnected()` and posts no connect callback. The model
also reaches `ErrorAfterDispose`, the counterpart of what `kj_later` shows for clients.

Fairness: `MainStep` and `WorkerStep` are weakly fair because both are turns of
event loops that never stop while the connection exists. The application's calls and
the network (`OnGotPacket`, `TaskFailed`) are not fair. Deadlock is not checked: a
released connection, and a crashed process, do nothing more.

`KjIsolatedProofs` proves every invariant of the run and `PacketWhileConnected`, for
all bounds. The inductive invariant `IInv` adds to them: the types;
`Fresh`, the connect command comes first and once and nothing happens before it;
`Tasks`, a stream that is not flushed has a task or its failure pending, and the flag
`_bDelayReconnecting` of a connection that is not disposed implies that a delay runs;
and `Pending`, a connect callback that no disconnect callback follows is the one that
`_bConnectedEventPosted` remembers, and its socket is read or its failure is pending.
Without `Tasks`, `AlwaysTrying` is not inductive: `DelayReconnect` does nothing when
the flag is set, and only a running delay makes that harmless. Without `Pending`,
`OnConnect` could set `_bConnected` for a socket whose failure was handled and not
reported.

`FrontAgrees` and `PacketWhileConnected` rest on `Round`: until the connection is given
up or the main thread is late, `trunkQ` holds the callbacks of one socket only, a
connect, packets and at most one disconnect at the end, and what the application
believes after running them is true. A new socket starts such a round with an empty
queue, because `Reconnect` found it empty. `RecyclerIsServed` rests on
`Released`, what is disposed owns nothing and only what is disposed is released, and on
`Down`, the release of a connection queues a disposal that nothing takes back. What may
still hold the recycler back is the application's own flag `_bConnected`, which is the
finding of `isolated_stop`.

## Accounts

`Accounts` models `SimpleAccountManager`, `AccountStateList` and `ObjectPool`, which
run on the main thread only. What makes them hard is not interleaving but long
sequences of legal calls: three maps remember pointers into a pool whose slots are
reused, a count is kept by increments, and two accounts of one uid name each other.

| variable | code |
|---|---|
| `unused`, `used` | `_unused_ids` up to `_unused_size`, `_used` of every slot |
| `acc` | `_data` of every slot, also after its release: the pool does not clear it |
| `onlineCount` | `_szOnlineCount` |
| `byUid`, `byConn`, `byUuid` | the three maps; 0 where a map has no entry |
| `walk` | the loop over the pool that is running: operation, next slot, connection |

One action per outcome of `Register` (`RegisterNew`, `RegisterConflict`,
`RegisterAgain`, `RegisterRefused`), each with the lookup it begins with and what the
lookup leaves in the uid map. `Unregister`, `Kick` and the walks end in
`ReleaseInternal`: maps, count, pool. A walk is one action per account it changes,
and no other call runs while it is on. Times are left out: which accounts are over a
tolerance is a choice. `SetExtData` is the application, which fills `ext_data`; it is
external, and it is what makes a conflict possible. `Offline` and `SetExtData` are
given accounts that are registered; `Unregister` and `Kick` may be given any. A uid
and its 64-bit hash are identified.

| run | shows |
|---|---|
| `accounts` | the pool is consistent, the uid and connection maps remember only registered accounts, the count is right, `UnregisterByConnId` leaves no account of its connection; only the kick of an account in conflict tears conflicts (`TornByKickOnly`), and while they are sound the manager does what `Registry` does (`ActsAsRegistry`) |
| `accounts_kick` | violation of `ConflictMutual`: a kick releases an account in conflict and leaves its partner naming it, against "clear conflict keyid before release" in `Unregister` |
| `accounts_uuid` | violation of `UuidCacheReady`: a duplicate registration with another inner uuid leaves an entry in the uuid map that no release erases, against `assert(it->second->is_ready)` |

`Registry` is what the manager promises to the lobby: a set of logins (a uid and the
connection that registered it) and which of them are online. A uid may be joined from a
second connection, never from a third; a login leaves or drops alone. Slots, ids, maps
and walks are not in it: the mapping reads the logins from the slots that are used.

`Unregister` clears both sides of a conflict before it releases an account. `Kick`,
`KickByUid` and `KickOfflineMoreThan` do not, so that `ConflictMutual` is not an invariant:
after the kick of an account in conflict its partner names a free slot, or one that is
somebody else's by then. The partner refuses every registration of its uid, and when it is
unregistered it clears the conflict of whoever holds the slot; TLC also reaches, in nine
states, a uid registered twice without a conflict (`OneConflictPerUid` fails). `Sound`
says that neither has happened, `Tears` is the kick of an account in conflict.
`TornByKickOnly` says that conflicts start sound and that every step from a sound state
is such a kick or leads to a sound state. `ActsAsRegistry` is a refinement under the same
condition: from a sound state every step, the kicks included, is a step of `Registry`.

Bounds: two uids, two connections and three slots, so that a conflict can stand beside
a third account and the pool can be full. Uids and connections are interchangeable
(symmetry), and a view leaves out what a released slot still holds, except `is_ready`:
every operation looks at used slots or at `is_ready`, and `Alloc` clears the slot; the one
write to a released slot, through a torn conflict, is not read either. The passing run and
`accounts_kick` have one uuid, `accounts_uuid` two. Deadlock is not checked: these are
calls of an application that may stop.

`AccountsProofs` proves, for every set of uids, connections and uuids, every pool size
and base id, and without a condition on what is kicked: `TypeOK`, `PoolConsistent`,
`CachesSound`, `OnlineCountMatches`, `ConnectionEmptied`, `TornByKickOnly` and
`ActsAsRegistry`. The inductive invariant `IInv` adds types, `Bound` (a registered account
has a uid, a connection and a uuid) and `Walked`: what `UnregisterByConnId` has passed
has another connection. `ConnectionEmptied` needs `Walked`, because the end of the walk
only knows what lies ahead. `CachesSound` needs `PoolConsistent`, because `Unregister`
is guarded by `is_ready` and not by the pool. The two parts of `Sound` are preserved only
together: a release may clear the partner it names because that partner names it back,
and a new conflict may be marked because nobody else has the uid.

The refinement rests on `OneConflictPerUid` and the guard of `Register`: two slots never
hold the same login (`LoginsDiffer`), so what is done to one slot is done to one login,
and `GetByUid`, which finds only one of the accounts of a uid, tells enough to refuse a
third.


## The way of a packet: `Framing`, `TrunkQueue`, `PacketPath`

`Framing` models one direction of a connection: the peer's `Post`, the stream,
`AsyncReadLoop`, `ConsumeFramePage` and `ConsumePacket`, and the error path through
`taskFailed` and `Clear`. The outer packets have the same code with a header of 2
instead of 16 bytes: `Header` is a constant. A byte is its position in the stream and a
packet is the lengths of its name and its body, so the model can tell which bytes
a receive buffer really holds.

| variable | code |
|---|---|
| `posted`, `pages`, `total`, `pageMax` | what the peer has posted on this socket, the pages it made of it, its page size |
| `read`, `pos` | bytes committed to the stream buffer, bytes passed by the parser; what lies between is in the buffer |
| `step` | in a read, inside `DecodeStream`, thrown, lost, between sockets |
| `state`, `leading` | `_eRecvPageState`, `_recv_page_leading` with its 14-bit `data_size`, which a skip counts down |
| `recvBuf` | `_ref_recv_buf`: whose bytes, how many, and whether they are the first ones in order (`good`) |
| `last`, `got` | what `OnGotPacket` was given |

`Post` sends all pages of a packet; `Read` takes any number of bytes the buffer has
room for, so pages are split at every byte; one action for each branch of
`ConsumeFramePage` (`Hungry`, `GotLeading`, `Skip`) and for each outcome of
`ConsumePacket` (`Keep`, `GotPacket`, `Throw`). `Lose` is a failing network; after
either failure `HandleError` resets what the code resets, and `Connect` starts the
next socket. A peer built with larger pages (`PageSizes`) makes the parser skip.

`TrunkQueue` models how the main thread learns of callbacks: `Add` enqueues and then
writes a byte to a pipe; the read loop takes up to 1024 bytes and calls `RunOnce`,
which stops at a waterline; `OnDelete` runs the queue by hand. Nothing else wakes the
main thread. The pipe belongs to servercore (external): a byte is read once. `Add` also
calls `PipeNotify`; the model counts one byte per `Add`, so that `Signalled` never rests
on the second notification.

`PacketPath` composes both: a completed packet, and the connect and disconnect events,
go through `Add`, and while the worker is in `Add` it parses nothing.

`Channel` is the abstract specification of the framing: packets arrive whole, at most
once and in order; a lossy channel may pass packets over; a channel may break and
starts again empty. `Implements` says that `Framing` implements it, lossy exactly when
the peer's pages do not fit the stream buffer, where the receiver sees of a packet what
its leading says (`Seen`): `inner_name_len` has 8 bits, so a name of 256 bytes or more
is cut at its length modulo 256 and its rest opens the body.

| run | shows |
|---|---|
| `packet_path` | `Aligned`: the parser never loses the page boundaries; `WaitsForMore`: a read has room, and it is never needed to get at a packet that was read already; `PendingIsPrefix`: a receive buffer holds the first bytes of the packet being sent, and none is replaced; `ThrowsForCause`: which packets end a connection; `Signalled`: no callback is left that nothing will run; `Implements`; `EndToEnd`: what is posted reaches the application |

Bounds: pages of 6 bytes (4 of data) and of 8 bytes with a stream buffer of 6, so that a
page is skipped over two or more reads; a packet of three pages; a name longer than its
length field, one whose length becomes 0, a packet larger than the receive buffer of 9;
two packets per socket, so that the second follows a whole, a passed or a failed one;
any number of reconnects. The queue holds three callbacks and the pipe two bytes, with
a waterline and a read of 2, so that a run stops at its waterline while callbacks wait.

Fairness: the worker's event loop, the pipe's read loop when it has bytes, and a
`RunOnce` that has begun. A read of bytes that were sent is part of the worker: TCP
delivers or the connection fails. The peer, the network's failures and the shutdown are
not fair. Deadlock is not checked: a peer that has posted all it may, and a closed
queue, do nothing more.

`EndToEnd` assumes that every byte handed to `Write` is sent or the connection fails.
`Write` drops the promise of `_stream->write` (`KjTcpConnection.hpp`), so that this is an
assumption on the KJ library and not something the code sees to.

`EndToEnd` is about peers whose pages fit. After a skipped page `ConsumeFramePage` halts,
so what was read behind it waits for the next read, although the comment there says "go
on to process next message"; `WaitsForMore` is restricted in the same way. `WaterlineAssumption` says that a
read takes no more bytes than `RunOnce` runs callbacks. Release builds satisfy it (1024
and 2048). Debug builds do not (128): there one read of more than 128 bytes leaves
callbacks that wait for the next `Add`.

`PacketPathProofs` proves all six invariants and `Implements`, for all sets of packets,
all header, buffer and page sizes, and all bounds, from `SizesAssumption`, `NamesFit`
(what `Post` takes for granted: the name fits the first page) and
`WaterlineAssumption`. There is an inductive invariant for each component, because a
step of `PacketPath` is a step or a stutter of `Framing` and one of `TrunkQueue`:

* `TrunkInv`: `Signalled` needs `Due`, the callbacks that a running `RunOnce` still owes
  to the bytes it was called for. `WaterlineAssumption` makes the debt 0 when it stops.
* `FramingInv`: `PagesInv` says that the pages are the packets' pieces in order, one
  behind the other. `ExpectInv` says that the parser's target, which is where the next
  leading begins, is the start of a page or the end of what was sent, and that the buffer is what
  the pages before it leave: nothing at a first page, else the packet's bytes up to
  that page, unless the pages do not fit. `Aligned` alone is not inductive, because it
  does not tell which page comes next; `PendingIsPrefix` is not, because nothing in it
  says that the next page continues the buffer. `SkipInv` says that pages are skipped
  only if the peer's pages do not fit, and that a page is skipped no longer than it lasts.
* `WaitsForMore` adds `HeldInv`, what the parser leaves in the buffer when it goes back to
  a read is less than a leading or less than the page that the leading announced, and
  `GotInv`, the packets given so far are those whose last page was passed. With all bytes
  read, a page that is not complete cannot be there, so nothing is held back.

The refinement follows: a post is a post, a completed page a delivery, an error a break,
everything else a stutter. `EndToEnd` is liveness and only model-checked.

## What is proved and what is only model-checked

Every invariant and every action property of a passing run is a theorem for all values
of the constants, and so are the refinements (`LifetimeKept`, `ActsAsQueue`,
`Implements`, and `ActsAsRegistry` while conflicts are sound). `WaitsAreServed`, `AlwaysTrying`, `RecyclerIsServed`,
`WaitsForMore` and `Signalled` are the safety halves of the liveness properties: whoever
waits, what is waited for is on its way. Only model-checked are the liveness
properties (`kj_liveness`, `EndsConnected`, `EndToEnd`): liveness under fairness is
outside what the prover handles. So are what `next_power_of_two` computes and the
violations, which are counterexamples.

## Not modelled

The repository holds some 628000 lines, nearly all of them vendored libraries
(protobuf, libcurl, libevent, libevhtp); netsystem itself is the code under `src/src`.
Of it:

* The gate classes repeat the KJ classes with another packet header. The libuv and
  libevent backends are compiled but never used: the builds define `NETSYSTEM_MT=1`, so
  `NetSystem.cpp` creates only KJ lobbies. The null lobby is `KjLobby` without a server.
* The zone manager is a white list and three maps (zones, channels, peers). Each
  operation is one call on the main thread and nothing interleaves with it. Nothing in the
  repository calls it: the order of its calls is the application's. It could be
  modelled; PROJECT.json lists a hazard of it, without a property.
* HTTP is a wrapper around libevent and libcurl. The event manager, the facade and the
  utilities have no state whose order matters.
* The KJ event loop, the lock-free queue and servercore are external: the modules state
  what they assume of them.

What could still be added: the zone manager, and an abstract specification of what the
application sees of an isolated connection across its reconnects.
