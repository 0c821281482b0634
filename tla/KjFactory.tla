----------------------------- MODULE KjFactory -----------------------------
(***************************************************************************)
(* The multi-threaded connection factory: the main thread ("front end")    *)
(* and the worker thread ("back end") that share a server, its clients,    *)
(* the connection manager and two queues.                                  *)
(*                                                                         *)
(*   src/src/tcp/kj/KjConnFactoryBase.*      the factory, its shutdown     *)
(*   src/src/tcp/kj/KjConnFactoryWorkQueue.* commands, main -> worker      *)
(*   src/src/tcp/kj/ConnFactoryTrunkQueue.*  callbacks, worker -> main     *)
(*   src/src/tcp/kj/KjServer.*               accept, close                 *)
(*   src/src/tcp/kj/KjClientConn.*           one accepted connection       *)
(*   src/src/tcp/TcpConnManager.*            map of clients, recycler      *)
(*   src/src/lobby/KjLobby.cpp               start and shutdown            *)
(*                                                                         *)
(* An accepted stream and the client object made for it share one identity *)
(* of Conns (connection ids are not reused while fewer than 10^12 - 10^9   *)
(* of them are handed out).  Flags of the objects are sets of connections: *)
(* "c \in disposed" is _bDisposed of client c.                             *)
(***************************************************************************)
EXTENDS Integers, Sequences, FiniteSets

CONSTANTS
    Conns,             \* connections that peers may open
    NoConn,            \* the operand of a command that names no connection
    MaxPosts,          \* bound: packets the application sends per connection
    MaxRecvs,          \* bound: packets received per connection
    ConsumeWaterline   \* RWQUEUE_CONSUME_WATERLINE, callbacks per RunOnce

ASSUME ConnsAssumption == IsFiniteSet(Conns) /\ NoConn \notin Conns
ASSUME BoundsAssumption == /\ MaxPosts \in Nat
                           /\ MaxRecvs \in Nat
                           /\ ConsumeWaterline \in Nat \ {0}

VARIABLES
    \* objects
    life,         \* [Conns -> Life]: the client object and its memory
    running, connected, disposed, flushed,   \* flags of the client objects
    owned,        \* clients with _thr_tcpStream, _thr_tasks and _thr_packet
    reading,      \* clients whose read loop is a live task of _thr_tasks
    frontProduce, backConsume,               \* commands of a client
    backProduce, frontConsume,               \* callbacks of a client
    \* connection manager, touched by the main thread
    clients,      \* _mapClients of the server
    clientCount,  \* _szClientCount
    recycler,     \* _vRecycler
    safe,         \* _vSafeToRelease
    \* server, touched by the worker thread
    streamDict,   \* _thr_tcpStreamDict: accepted, not yet given to a client
    listening,    \* the accept loop runs
    closed,       \* _closed
    \* queues
    workQ,        \* CKjConnFactoryWorkQueue::_callbacks
    trunkQ,       \* CConnFactoryTrunkQueue::_callbacks
    answered,     \* the promise of the command the main thread blocks on
    quit,         \* _done of the work queue
    \* control of the two threads
    mpc,          \* where the main thread is
    mret,         \* where it goes after RunOnce or Recycle
    ncount,       \* callbacks run by this RunOnce
    walk, cur,    \* RecyclerPop: not yet examined, under examination
    wpc,          \* where the worker thread is
    wcmd,         \* the command it executes
    todo,         \* DisposeDownStreams: clients not yet visited
    later         \* clients captured by a function scheduled with evalLater

objVars    == <<life, running, connected, disposed, flushed, owned, reading>>
countVars  == <<frontProduce, backConsume, backProduce, frontConsume>>
mgrVars    == <<clients, clientCount, recycler, safe>>
serverVars == <<streamDict, listening, closed>>
queueVars  == <<workQ, trunkQ, answered, quit>>
mainVars   == <<mpc, mret, ncount, walk, cur>>
workVars   == <<wpc, wcmd, todo, later>>
vars == <<objVars, countVars, mgrVars, serverVars, queueVars, mainVars,
          workVars>>

-----------------------------------------------------------------------------
(* Values.                                                                 *)

Life == {"none",      \* no peer yet
         "offered",   \* the worker accepted a stream, no client object
         "live",      \* the client object exists
         "released"}  \* SafeRelease deleted it

\* The commands that count in _frontEndProduceNum name a client they use.
ClientCmd == {"CONFIRM_CLIENT_IS_READY", "POST_PACKET", "DISPOSE_CONNECTION"}
BlockingCmd == {"OPEN_TCP_SERVER", "CLOSE_TCP_SERVER"}

Cmd == [type: ClientCmd \cup {"FLUSH_TCP_SERVER_DOWNSTREAM"}, conn: Conns]
         \cup [type: BlockingCmd, conn: {NoConn}]

\* The callbacks that count in _thr_backEndProduceNum name a client they use.
ClientCb == {"disconnect", "packet"}

Callback == [type: ClientCb \cup {"accept"}, conn: Conns]

MainPc == {"init", "opening", "run", "runonce", "recycle", "recycle2",
           "closing", "releasing", "finish", "stopped", "crashed"}
MainRet == {"run", "down", "cond", "body"}
WorkPc == {"poll", "drain", "result", "closing", "finished", "crashed"}

NoCmd == [type |-> "none", conn |-> NoConn]

Init ==
    /\ life = [c \in Conns |-> "none"]
    /\ running = {} /\ connected = {} /\ disposed = {} /\ flushed = {}
    /\ owned = {} /\ reading = {}
    /\ frontProduce = [c \in Conns |-> 0]
    /\ backConsume  = [c \in Conns |-> 0]
    /\ backProduce  = [c \in Conns |-> 0]
    /\ frontConsume = [c \in Conns |-> 0]
    /\ clients = {} /\ clientCount = 0 /\ recycler = {} /\ safe = {}
    /\ streamDict = {} /\ listening = FALSE /\ closed = FALSE
    /\ workQ = <<>> /\ trunkQ = <<>> /\ answered = FALSE /\ quit = FALSE
    /\ mpc = "init" /\ mret = "run" /\ ncount = 0 /\ walk = {} /\ cur = NoConn
    /\ wpc = "poll" /\ wcmd = NoCmd /\ todo = {} /\ later = {}

Incr(f, c) == [f EXCEPT ![c] = @ + 1]

IsFrontEndClean(c) == frontProduce[c] = backConsume[c]
IsBackEndClean(c)  == backProduce[c] = frontConsume[c]

-----------------------------------------------------------------------------
(* Effects shared by several actions.                                      *)

\* CKjConnFactoryWorkQueue::Add: enqueue, notify the worker's pipe.
Commit(type, c) == workQ' = Append(workQ, [type |-> type, conn |-> c])

\* A command about client c (ConfirmClientIsReady, PostPacket,
\* DisposeConnection of the work queue): count it, commit it.
CommitFor(c, type) ==
    /\ frontProduce' = Incr(frontProduce, c)
    /\ Commit(type, c)

\* Commit a command and wait for the promise its result callback sets.
BlockingCommit(type) ==
    /\ Commit(type, NoConn)
    /\ answered' = FALSE

\* The main thread's flag of a client and the event it goes with.
OnConnect(c)    == connected' = connected \cup {c}
OnDisconnect(c) == connected' = connected \ {c}

OnAddClient(c) ==
    /\ clients' = clients \cup {c}
    /\ clientCount' = clientCount + 1

\* Mutant: the client is not erased from the map.
OnRemoveClientNoErase(c) ==
    IF c \in clients
    THEN /\ CommitFor(c, "DISPOSE_CONNECTION")
         /\ recycler' = recycler \cup {c}
         /\ clientCount' = clientCount - 1
         /\ UNCHANGED clients
    ELSE UNCHANGED <<frontProduce, workQ, clients, recycler, clientCount>>

\* OnRemoveClient: dispose the connection on the worker, forget the client,
\* leave the object to the recycler; nothing when it is already removed.
OnRemoveClient(c) ==
    IF c \in clients
    THEN /\ CommitFor(c, "DISPOSE_CONNECTION")
         /\ clients' = clients \ {c}
         /\ recycler' = recycler \cup {c}
         /\ clientCount' = clientCount - 1
    ELSE UNCHANGED <<frontProduce, workQ, clients, recycler, clientCount>>

\* Mutant: the stream is dropped before it is flushed.
DisposeConnectionDropsFirst(c) ==
    IF c \in disposed
    THEN UNCHANGED <<disposed, flushed, owned, reading>>
    ELSE /\ disposed' = disposed \cup {c}
         /\ owned' = owned \ {c}
         /\ reading' = reading \ {c}
         /\ UNCHANGED flushed

\* CKjClientConn::FlushStream: only a client that has a stream flushes it.
FlushStream(c) == flushed' = IF c \in owned THEN flushed \cup {c} ELSE flushed

\* CKjClientConn::DisposeConnection, once.
DisposeConnection(c) ==
    IF c \in disposed
    THEN UNCHANGED <<disposed, flushed, owned, reading>>
    ELSE /\ disposed' = disposed \cup {c}
         /\ FlushStream(c)
         /\ owned' = owned \ {c}
         /\ reading' = reading \ {c}

\* AddClientDisconnectCb and AddClientInnerPacketCb: count, enqueue, notify.
AddClientCb(c, type) ==
    /\ backProduce' = Incr(backProduce, c)
    /\ trunkQ' = Append(trunkQ, [type |-> type, conn |-> c])

\* The process dies: a thread dereferenced a deleted client, or an exception
\* left the worker's event loop.
Crash == mpc' = "crashed" /\ wpc' = "crashed"

-----------------------------------------------------------------------------
(* Main thread: start, application calls.                                  *)

\* CKjLobby::OnInit: BlockingCommit of OPEN_TCP_SERVER.
OpenTcpServer ==
    /\ mpc = "init"
    /\ BlockingCommit("OPEN_TCP_SERVER")
    /\ mpc' = "opening"
    /\ UNCHANGED <<objVars, countVars, mgrVars, serverVars, trunkQ, quit,
                   mret, ncount, walk, cur, workVars>>

OpenAnswered ==
    /\ mpc = "opening" /\ answered
    /\ mpc' = "run"
    /\ UNCHANGED <<objVars, countVars, mgrVars, serverVars, queueVars,
                   mret, ncount, walk, cur, workVars>>

\* The application calls from its event handlers and between them, while the
\* event loop runs; OnDelete has cleared the handlers.
AppMayCall == mpc \in {"run", "runonce"} /\ mret = "run"

\* CKjClientConn::SendPacket -> CKjConnFactoryWorkQueue::PostPacket.
SendPacket(c) ==
    /\ AppMayCall /\ c \in clients
    /\ frontProduce[c] <= MaxPosts
    /\ CommitFor(c, "POST_PACKET")
    /\ UNCHANGED <<objVars, backConsume, backProduce, frontConsume, mgrVars,
                   serverVars, trunkQ, answered, quit, mainVars, workVars>>

\* CKjClientConn::Disconnect with OnDisconnect and OnRemoveClient; a no-op
\* on a client the worker has disposed or that stopped running.
Disconnect(c) ==
    /\ AppMayCall /\ c \in clients
    /\ c \notin disposed /\ c \in running
    /\ running' = running \ {c}
    /\ OnDisconnect(c)
    /\ OnRemoveClient(c)
    /\ UNCHANGED <<life, disposed, flushed, owned, reading, backConsume,
                   backProduce, frontConsume, safe, serverVars, trunkQ,
                   answered, quit, mainVars, workVars>>

-----------------------------------------------------------------------------
(* Main thread: RunOnce of the trunk queue.                                *)

\* The trunk pipe is readable: CKjConnFactoryBase::StartPipeWorker's lambda.
StartRunOnce ==
    /\ mpc = "run" /\ trunkQ # <<>>
    /\ mpc' = "runonce" /\ mret' = "run" /\ ncount' = 0
    /\ UNCHANGED <<objVars, countVars, mgrVars, serverVars, queueVars,
                   walk, cur, workVars>>

\* Mutant: one callback too many.
NextCallbackOffByOne(cb) ==
    /\ mpc = "runonce" /\ ncount <= ConsumeWaterline
    /\ trunkQ # <<>> /\ cb = Head(trunkQ)
    /\ trunkQ' = Tail(trunkQ)
    /\ ncount' = ncount + 1
    /\ UNCHANGED <<mret, walk, cur, wcmd, todo, later, serverVars, answered,
                   quit, safe, disposed, flushed, owned, reading, backConsume,
                   backProduce>>

\* One turn of the loop of CCamelReaderWriterQueueWL::RunOnce.
NextCallback(cb) ==
    /\ mpc = "runonce" /\ ncount < ConsumeWaterline
    /\ trunkQ # <<>> /\ cb = Head(trunkQ)
    /\ trunkQ' = Tail(trunkQ)
    /\ ncount' = ncount + 1
    /\ UNCHANGED <<mret, walk, cur, wcmd, todo, later, serverVars, answered,
                   quit, safe, disposed, flushed, owned, reading, backConsume,
                   backProduce>>

\* The callback of AddAcceptClientCb on an open server: OnAcceptClient makes
\* the client, adds it to the map, queues its confirmation, and OnConnect.
OnAcceptClient(c) ==
    /\ NextCallback([type |-> "accept", conn |-> c])
    /\ ~closed
    /\ life' = [life EXCEPT ![c] = "live"]
    /\ OnAddClient(c)
    /\ running' = running \cup {c}
    /\ CommitFor(c, "CONFIRM_CLIENT_IS_READY")
    /\ OnConnect(c)
    /\ UNCHANGED <<frontConsume, recycler, mpc, wpc>>

\* The same callback on a closed server: flush the stream on the worker.
IgnoreAccept(c) ==
    /\ NextCallback([type |-> "accept", conn |-> c])
    /\ closed
    /\ Commit("FLUSH_TCP_SERVER_DOWNSTREAM", c)
    /\ UNCHANGED <<life, running, connected, frontProduce, frontConsume,
                   clients, clientCount, recycler, mpc, wpc>>

\* The callback of AddClientDisconnectCb: OnDisconnect, then OnRemoveClient.
OnDisconnectCb(c) ==
    /\ NextCallback([type |-> "disconnect", conn |-> c])
    /\ life[c] # "released"
    /\ frontConsume' = Incr(frontConsume, c)
    /\ OnDisconnect(c)
    /\ OnRemoveClient(c)
    /\ UNCHANGED <<life, running, mpc, wpc>>

\* Mutant: the packet callback does not count itself consumed.
OnPacketCbNoCount(c) ==
    /\ NextCallback([type |-> "packet", conn |-> c])
    /\ life[c] # "released"
    /\ UNCHANGED <<life, running, connected, frontProduce, frontConsume, workQ,
                   clients, clientCount, recycler, mpc, wpc>>

\* The callback of AddClientInnerPacketCb: the packet event.
OnPacketCb(c) ==
    /\ NextCallback([type |-> "packet", conn |-> c])
    /\ life[c] # "released"
    /\ frontConsume' = Incr(frontConsume, c)
    /\ UNCHANGED <<life, running, connected, frontProduce, workQ, clients,
                   clientCount, recycler, mpc, wpc>>

\* A callback that dereferences a released client is undefined: the process
\* dies, or the freed memory still reads as a removed client.
CallbackOnReleased(c) ==
    /\ \E type \in ClientCb : NextCallback([type |-> type, conn |-> c])
    /\ life[c] = "released"
    /\ Crash \/ UNCHANGED <<mpc, wpc>>
    /\ UNCHANGED <<life, running, connected, frontProduce, frontConsume,
                   workQ, clients, clientCount, recycler>>

RunOnceEnd ==
    /\ mpc = "runonce"
    /\ trunkQ = <<>> \/ ncount = ConsumeWaterline
    /\ IF mret = "run"
       THEN mpc' = "run" /\ UNCHANGED <<mret, walk>>
       ELSE mpc' = "recycle" /\ mret' = "body" /\ walk' = recycler
    /\ ncount' = 0
    /\ UNCHANGED <<objVars, countVars, mgrVars, serverVars, queueVars, cur,
                   workVars>>

-----------------------------------------------------------------------------
(* Main thread: CTcpConnManager::Recycle.  The worker changes the counters *)
(* and flags while RecyclerPop reads them, and the condition reads them in *)
(* the order it is written: two steps per connection (IsConnected is the   *)
(* main thread's own flag).                                                *)

\* OnUpdate -> OnCheckConnection -> Recycle.
StartRecycle ==
    /\ mpc = "run" /\ recycler # {}
    /\ mpc' = "recycle" /\ mret' = "run" /\ walk' = recycler
    /\ UNCHANGED <<objVars, countVars, mgrVars, serverVars, queueVars,
                   ncount, cur, workVars>>

\* RecyclerPop reads !IsConnected() && IsBackEndClean() of one connection.
RecyclerPopFirst(c) ==
    /\ mpc = "recycle" /\ c \in walk
    /\ walk' = walk \ {c}
    /\ IF c \notin connected /\ IsBackEndClean(c)
       THEN mpc' = "recycle2" /\ cur' = c
       ELSE UNCHANGED <<mpc, cur>>
    /\ UNCHANGED <<objVars, countVars, mgrVars, serverVars, queueVars, mret,
                   ncount, workVars>>

\* Mutant: commands in flight are not waited for.
RecyclerPopSecondNoFrontEnd ==
    /\ mpc = "recycle2"
    /\ IF cur \in disposed /\ cur \in flushed
       THEN safe' = safe \cup {cur} /\ recycler' = recycler \ {cur}
       ELSE UNCHANGED <<safe, recycler>>
    /\ mpc' = "recycle" /\ cur' = NoConn
    /\ UNCHANGED <<objVars, countVars, clients, clientCount, serverVars,
                   queueVars, mret, ncount, walk, workVars>>

\* ... && IsFrontEndClean() && IsDisposed() && IsFlushed(): one step, since
\* each of the three, once true of a recycled client, stays true.
RecyclerPopSecond ==
    /\ mpc = "recycle2"
    /\ IF IsFrontEndClean(cur) /\ cur \in disposed /\ cur \in flushed
       THEN safe' = safe \cup {cur} /\ recycler' = recycler \ {cur}
       ELSE UNCHANGED <<safe, recycler>>
    /\ mpc' = "recycle" /\ cur' = NoConn
    /\ UNCHANGED <<objVars, countVars, clients, clientCount, serverVars,
                   queueVars, mret, ncount, walk, workVars>>

\* SafeRelease deletes the objects; Recycle returns to the event loop, to
\* the condition of OnDelete's loop or to its body.
SafeRelease ==
    /\ mpc = "recycle" /\ walk = {}
    /\ life' = [c \in Conns |-> IF c \in safe THEN "released" ELSE life[c]]
    /\ safe' = {}
    /\ \/ /\ mret = "run"
          /\ mpc' = "run" /\ UNCHANGED <<mret, walk>>
       \/ /\ mret = "body"
          /\ mret' = "cond" /\ walk' = recycler /\ UNCHANGED mpc
       \/ /\ mret = "cond" /\ recycler # {}
          /\ mpc' = "runonce" /\ mret' = "down" /\ UNCHANGED walk
       \/ /\ mret = "cond" /\ recycler = {}
          /\ mpc' = "finish" /\ UNCHANGED <<mret, walk>>
    /\ UNCHANGED <<running, connected, disposed, flushed, owned, reading,
                   countVars, clients, clientCount, recycler, serverVars,
                   queueVars, ncount, cur, workVars>>

-----------------------------------------------------------------------------
(* Main thread: shutdown, CKjLobby::OnDelete.                              *)

\* BlockingCommit of CLOSE_TCP_SERVER.
CloseTcpServer ==
    /\ mpc = "run"
    /\ BlockingCommit("CLOSE_TCP_SERVER")
    /\ mpc' = "closing"
    /\ UNCHANGED <<objVars, countVars, mgrVars, serverVars, trunkQ, quit,
                   mret, ncount, walk, cur, workVars>>

\* Mutant: CLOSE_TCP_SERVER is not waited for.
CloseAnsweredAtOnce ==
    /\ mpc = "closing"
    /\ mpc' = "releasing"
    /\ UNCHANGED <<objVars, countVars, mgrVars, serverVars, queueVars,
                   mret, ncount, walk, cur, workVars>>

\* The promise is set: the server joins _vClosedServer, OnDelete begins.
CloseAnswered ==
    /\ mpc = "closing" /\ answered
    /\ mpc' = "releasing"
    /\ UNCHANGED <<objVars, countVars, mgrVars, serverVars, queueVars,
                   mret, ncount, walk, cur, workVars>>

\* One turn of the loop of ReleaseAllClients.
ReleaseClient(c) ==
    /\ mpc = "releasing" /\ c \in clients
    /\ OnRemoveClient(c)
    /\ UNCHANGED <<objVars, backConsume, backProduce, frontConsume, safe,
                   serverVars, trunkQ, answered, quit, mainVars, workVars>>

\* OnDelete reaches "wait and recycle".
ReleaseEnd ==
    /\ mpc = "releasing" /\ clients = {}
    /\ mpc' = "recycle" /\ mret' = "cond" /\ walk' = recycler
    /\ UNCHANGED <<objVars, countVars, mgrVars, serverVars, queueVars,
                   ncount, cur, workVars>>

\* CKjConnFactoryWorkQueue::Finish sets _done ...
Finish ==
    /\ mpc = "finish" /\ ~quit
    /\ quit' = TRUE
    /\ UNCHANGED <<objVars, countVars, mgrVars, serverVars, workQ, trunkQ,
                   answered, mainVars, workVars>>

\* ... and waits for _finished; then the queues and the server are deleted.
Stop ==
    /\ mpc = "finish" /\ wpc = "finished"
    /\ mpc' = "stopped"
    /\ UNCHANGED <<objVars, countVars, mgrVars, serverVars, queueVars,
                   mret, ncount, walk, cur, workVars>>

-----------------------------------------------------------------------------
(* Worker thread: events of its KJ event loop.  read_pipe_loop drains the  *)
(* work queue inside one event, so no other event runs between commands.   *)

\* AcceptLoop on a ready server: AddStream, AddAcceptClientCb.  A stream
\* accepted while the application is not ready is dropped: no state changes.
AcceptStream(c) ==
    /\ wpc = "poll" /\ listening /\ life[c] = "none"
    /\ life' = [life EXCEPT ![c] = "offered"]
    /\ streamDict' = streamDict \cup {c}
    /\ trunkQ' = Append(trunkQ, [type |-> "accept", conn |-> c])
    /\ UNCHANGED <<running, connected, disposed, flushed, owned, reading,
                   countVars, mgrVars, listening, closed, workQ, answered,
                   quit, mainVars, workVars>>

\* CKjServer::taskFailed: InitListener again, which may fail.
AcceptLoopFailed ==
    /\ wpc = "poll" /\ listening
    /\ listening' \in BOOLEAN
    /\ UNCHANGED <<objVars, countVars, mgrVars, streamDict, closed, queueVars,
                   mainVars, workVars>>

\* AsyncReadLoop reads a complete packet: OnRawData, OnGotPacket.
OnGotPacket(c) ==
    /\ wpc = "poll" /\ c \in reading
    /\ backProduce[c] < MaxRecvs
    /\ AddClientCb(c, "packet")
    /\ UNCHANGED <<objVars, frontProduce, backConsume, frontConsume, mgrVars,
                   serverVars, workQ, answered, quit, mainVars, workVars>>

\* The read loop throws (end of stream, error, bad packet):
\* CKjClientConn::taskFailed schedules a function that captures the client.
TaskFailed(c) ==
    /\ wpc = "poll" /\ c \in reading
    /\ reading' = reading \ {c}
    /\ later' = later \cup {c}
    /\ UNCHANGED <<life, running, connected, disposed, flushed, owned,
                   countVars, mgrVars, serverVars, queueVars, mainVars, wpc,
                   wcmd, todo>>

\* Mutant: the client is disposed and the main thread is not told.
OnDisposeClientNoCb(c) ==
    /\ wpc = "poll" /\ c \in later /\ life[c] # "released"
    /\ later' = later \ {c}
    /\ DisposeConnection(c)
    /\ UNCHANGED <<life, running, connected, countVars, mgrVars, serverVars,
                   queueVars, mainVars, wpc, wcmd, todo>>

\* The scheduled function: FlushStream, then CKjServer::OnDisposeClient.
OnDisposeClient(c) ==
    /\ wpc = "poll" /\ c \in later /\ life[c] # "released"
    /\ later' = later \ {c}
    /\ DisposeConnection(c)
    /\ AddClientCb(c, "disconnect")
    /\ UNCHANGED <<life, running, connected, frontProduce, backConsume,
                   frontConsume, mgrVars, serverVars, workQ, answered, quit,
                   mainVars, wpc, wcmd, todo>>

\* The scheduled function on a released client is undefined too: the process
\* dies (the destructor cleared _refServer), or the freed memory still reads
\* as a disposed client and only the disconnect callback is added.
LaterOnReleased(c) ==
    /\ wpc = "poll" /\ c \in later /\ life[c] = "released"
    /\ \/ Crash /\ UNCHANGED <<later, trunkQ>>
       \/ /\ later' = later \ {c}
          /\ trunkQ' = Append(trunkQ, [type |-> "disconnect", conn |-> c])
          /\ UNCHANGED <<mpc, wpc>>
    /\ UNCHANGED <<objVars, countVars, mgrVars, serverVars, workQ, answered,
                   quit, mret, ncount, walk, cur, wcmd, todo>>

\* check_quit_loop finds _done: Run returns.
WorkerQuit ==
    /\ wpc = "poll" /\ quit
    /\ wpc' = "finished"
    /\ UNCHANGED <<objVars, countVars, mgrVars, serverVars, queueVars,
                   mainVars, wcmd, todo, later>>

-----------------------------------------------------------------------------
(* Worker thread: commands.                                                *)

\* read_pipe_loop: the pipe is readable.
StartDrain ==
    /\ wpc = "poll" /\ workQ # <<>>
    /\ wpc' = "drain"
    /\ UNCHANGED <<objVars, countVars, mgrVars, serverVars, queueVars,
                   mainVars, wcmd, todo, later>>

DrainEnd ==
    /\ wpc = "drain" /\ workQ = <<>>
    /\ wpc' = "poll"
    /\ UNCHANGED <<objVars, countVars, mgrVars, serverVars, queueVars,
                   mainVars, wcmd, todo, later>>

\* try_dequeue(q._opCmd) of a command of this type.
Dequeue(type) ==
    /\ wpc = "drain" /\ workQ # <<>>
    /\ Head(workQ).type = type
    /\ wcmd' = Head(workQ)
    /\ workQ' = Tail(workQ)
    /\ UNCHANGED <<life, running, connected, countVars, mgrVars, closed,
                   trunkQ, answered, quit, mainVars, later>>

\* CKjServer::Open: InitListener may fail.
ExecOpen ==
    /\ Dequeue("OPEN_TCP_SERVER")
    /\ listening' \in BOOLEAN
    /\ wpc' = "result"
    /\ UNCHANGED <<disposed, flushed, owned, reading, streamDict, todo>>

\* listen() throws, in Open or in CKjServer::taskFailed: the work queue's
\* taskFailed, or the event loop itself, makes the exception fatal.
ListenThrows ==
    /\ \/ /\ wpc = "drain" /\ workQ # <<>>
          /\ Head(workQ).type = "OPEN_TCP_SERVER"
       \/ wpc = "poll" /\ listening
    /\ Crash
    /\ UNCHANGED <<objVars, countVars, mgrVars, serverVars, queueVars, mret,
                   ncount, walk, cur, wcmd, todo, later>>

\* CKjServer::Close up to DisposeDownStreams: the streams no client owns are
\* flushed, the accept loop is destroyed with its task set.
ExecClose ==
    /\ Dequeue("CLOSE_TCP_SERVER")
    /\ streamDict' = {}
    /\ listening' = FALSE
    /\ todo' = clients
    /\ wpc' = "closing"
    /\ UNCHANGED <<disposed, flushed, owned, reading>>

ExecDispose ==
    /\ Dequeue("DISPOSE_CONNECTION")
    /\ DisposeConnection(Head(workQ).conn)
    /\ wpc' = "result"
    /\ UNCHANGED <<streamDict, listening, todo>>

\* PostPacket writes to the stream, or drops the packet: no tracked state.
ExecPost ==
    /\ Dequeue("POST_PACKET")
    /\ wpc' = "result"
    /\ UNCHANGED <<disposed, flushed, owned, reading, streamDict, listening,
                   todo>>

\* CKjServer::FlushDownStream.
ExecFlush ==
    /\ Dequeue("FLUSH_TCP_SERVER_DOWNSTREAM")
    /\ streamDict' = streamDict \ {Head(workQ).conn}
    /\ wpc' = "result"
    /\ UNCHANGED <<disposed, flushed, owned, reading, listening, todo>>

\* CKjClientConn::ConfirmClientIsReady of a ready client: RemoveStream, and
\* if it found the stream, start to read.
ExecConfirm ==
    /\ Dequeue("CONFIRM_CLIENT_IS_READY")
    /\ LET c == Head(workQ).conn IN
       IF c \notin disposed /\ c \notin flushed /\ c \in streamDict
       THEN /\ owned' = owned \cup {c}
            /\ reading' = reading \cup {c}
            /\ streamDict' = streamDict \ {c}
       ELSE UNCHANGED <<owned, reading, streamDict>>
    /\ wpc' = "result"
    /\ UNCHANGED <<disposed, flushed, listening, todo>>

\* Mutant: the walk of Close disposes and does not report.
DisposeDownStreamNoCb(c) ==
    /\ wpc = "closing" /\ c \in todo
    /\ todo' = todo \ {c}
    /\ DisposeConnection(c)
    /\ UNCHANGED <<life, running, connected, countVars, mgrVars, serverVars,
                   queueVars, mainVars, wpc, wcmd, later>>

\* One turn of the loop of DisposeDownStreams.
DisposeDownStream(c) ==
    /\ wpc = "closing" /\ c \in todo
    /\ todo' = todo \ {c}
    /\ DisposeConnection(c)
    /\ AddClientCb(c, "disconnect")
    /\ UNCHANGED <<life, running, connected, frontProduce, backConsume,
                   frontConsume, mgrVars, serverVars, workQ, answered, quit,
                   mainVars, wpc, wcmd, later>>

\* Close ends with _closed = true.
CloseEnd ==
    /\ wpc = "closing" /\ todo = {}
    /\ closed' = TRUE
    /\ wpc' = "result"
    /\ UNCHANGED <<objVars, countVars, mgrVars, streamDict, listening,
                   queueVars, mainVars, wcmd, todo, later>>

\* Mutant: DISPOSE_CONNECTION has no counting result callback.
ResultCbNotForDispose ==
    /\ wpc = "result"
    /\ backConsume' = IF wcmd.type \in ClientCmd \ {"DISPOSE_CONNECTION"}
                      THEN Incr(backConsume, wcmd.conn) ELSE backConsume
    /\ answered' = (answered \/ wcmd.type \in BlockingCmd)
    /\ wcmd' = NoCmd
    /\ wpc' = "drain"
    /\ UNCHANGED <<objVars, frontProduce, backProduce, frontConsume, mgrVars,
                   serverVars, workQ, trunkQ, quit, mainVars, todo, later>>

\* cmd._resultCb: IncrBackEndConsumeNum of the client, or the promise.
ResultCb ==
    /\ wpc = "result"
    /\ backConsume' = IF wcmd.type \in ClientCmd
                      THEN Incr(backConsume, wcmd.conn) ELSE backConsume
    /\ answered' = (answered \/ wcmd.type \in BlockingCmd)
    /\ wcmd' = NoCmd
    /\ wpc' = "drain"
    /\ UNCHANGED <<objVars, frontProduce, backProduce, frontConsume, mgrVars,
                   serverVars, workQ, trunkQ, quit, mainVars, todo, later>>

-----------------------------------------------------------------------------
(* Specification.                                                          *)

\* What the main thread does next without being asked to.
MainStep ==
    \/ OpenAnswered
    \/ \E c \in Conns : OnAcceptClient(c) \/ IgnoreAccept(c)
                          \/ OnDisconnectCb(c) \/ OnPacketCb(c)
                          \/ CallbackOnReleased(c)
    \/ RunOnceEnd
    \/ \E c \in Conns : RecyclerPopFirst(c)
    \/ RecyclerPopSecond \/ SafeRelease
    \/ CloseAnswered \/ (\E c \in Conns : ReleaseClient(c)) \/ ReleaseEnd
    \/ Finish \/ Stop

\* What the application decides, and the polling of the event loop.
MainChoice ==
    \/ OpenTcpServer \/ CloseTcpServer
    \/ \E c \in Conns : SendPacket(c) \/ Disconnect(c)
    \/ StartRunOnce \/ StartRecycle

\* What the worker thread does next without the network.
WorkerStep ==
    \/ \E c \in Conns : OnDisposeClient(c) \/ LaterOnReleased(c)
    \/ WorkerQuit \/ StartDrain \/ DrainEnd
    \/ ExecOpen \/ ExecClose \/ ExecDispose \/ ExecPost \/ ExecFlush
    \/ ExecConfirm
    \/ \E c \in Conns : DisposeDownStream(c)
    \/ CloseEnd \/ ResultCb

\* What the peers and the network do.
NetworkStep ==
    \/ \E c \in Conns : AcceptStream(c) \/ OnGotPacket(c) \/ TaskFailed(c)
    \/ AcceptLoopFailed \/ ListenThrows

\* The process has ended.
Ended == mpc \in {"stopped", "crashed"} /\ UNCHANGED vars

Next == MainStep \/ MainChoice \/ WorkerStep \/ NetworkStep \/ Ended

\* Both threads run on their own and their event loops serve every source:
\* the trunk pipe and OnUpdate are polled again and again (strong fairness,
\* since each keeps the other waiting while it runs); nothing forces the
\* application or the network to act.
Fairness ==
    /\ WF_vars(MainStep) /\ WF_vars(WorkerStep)
    /\ SF_vars(StartRunOnce) /\ SF_vars(StartRecycle)

Spec == Init /\ [][Next]_vars

FairSpec == Spec /\ Fairness

-----------------------------------------------------------------------------
(* Invariants.                                                             *)

\* Every variable keeps its type; a RunOnce runs at most ConsumeWaterline
\* callbacks.
TypeOK ==
    /\ life \in [Conns -> Life]
    /\ running \in SUBSET Conns /\ connected \in SUBSET Conns
    /\ disposed \in SUBSET Conns /\ flushed \in SUBSET Conns
    /\ owned \in SUBSET Conns /\ reading \in SUBSET Conns
    /\ frontProduce \in [Conns -> Nat] /\ backConsume \in [Conns -> Nat]
    /\ backProduce \in [Conns -> Nat] /\ frontConsume \in [Conns -> Nat]
    /\ clients \in SUBSET Conns /\ clientCount \in Int
    /\ recycler \in SUBSET Conns /\ safe \in SUBSET Conns
    /\ streamDict \in SUBSET Conns
    /\ listening \in BOOLEAN /\ closed \in BOOLEAN
    /\ workQ \in Seq(Cmd) /\ trunkQ \in Seq(Callback)
    /\ answered \in BOOLEAN /\ quit \in BOOLEAN
    /\ mpc \in MainPc /\ mret \in MainRet /\ ncount \in 0..ConsumeWaterline
    /\ walk \in SUBSET Conns /\ cur \in Conns \cup {NoConn}
    /\ wpc \in WorkPc /\ wcmd \in Cmd \cup {NoCmd}
    /\ todo \in SUBSET Conns /\ later \in SUBSET Conns

\* The positions, in a queue, of the entries of some types that name c.
Matching(q, c, types) ==
    {i \in 1..Len(q) : q[i].conn = c /\ q[i].type \in types}

\* The commands in the queue, and the callbacks, that use client c.
CmdsOf(c) == Matching(workQ, c, ClientCmd)
CbsOf(c)  == Matching(trunkQ, c, ClientCb)

\* 1 while the worker executes a command that uses client c.
Executing(c) == IF wcmd.conn = c /\ wcmd.type \in ClientCmd THEN 1 ELSE 0

\* The counters tell exactly the commands in flight: RecyclerPop's
\* "(0 == reference count) means thread payload queue is cleaned".
CommandAccounting ==
    \A c \in Conns :
        frontProduce[c] = backConsume[c] + Cardinality(CmdsOf(c))
                            + Executing(c)

\* The same for callbacks, as long as the client exists.
CallbackAccounting ==
    \A c \in Conns : life[c] # "released" =>
        backProduce[c] = frontConsume[c] + Cardinality(CbsOf(c))

\* A client the recycler gave up, or deleted, is used by no command, is in
\* no container of the connection manager and has given up its stream: the
\* worker can reach it only through a callback or a scheduled function.
ReleasedIsUnreachable ==
    \A c \in Conns : c \in safe \/ life[c] = "released" =>
        /\ CmdsOf(c) = {} /\ Executing(c) = 0
        /\ c \notin clients /\ c \notin recycler
        /\ c \notin owned /\ c \notin reading /\ c \notin streamDict

\* A client object is in exactly one container of the manager, so it is
\* pushed to the recycler once and deleted once.
OneOwner ==
    \A c \in Conns :
        /\ life[c] = "live" <=> c \in clients \/ c \in recycler \/ c \in safe
        /\ ~(c \in clients /\ c \in recycler)
        /\ ~(c \in clients /\ c \in safe)
        /\ ~(c \in recycler /\ c \in safe)

\* OnAddClient's and OnRemoveClient's assert(_szClientCount == nSum).
ClientCountMatches == clientCount = Cardinality(clients)

\* When a confirmation reaches the worker, the stream it names is still in
\* the server's dictionary: the server cannot be closed in between, because
\* Close is a command of the same queue and the main thread waits for it.
ConfirmFindsStream ==
    \A i \in 1..Len(workQ) :
        workQ[i].type = "CONFIRM_CLIENT_IS_READY" =>
            /\ workQ[i].conn \in streamDict
            /\ workQ[i].conn \notin disposed /\ workQ[i].conn \notin flushed

\* A disposed client that the main thread still has in its map gets a
\* disconnect callback: "we always need main thread to [ RemoveClient() ]"
\* (CKjServer::OnDisposeClient).
DisposedIsReported ==
    \A c \in clients \cap disposed :
        \E i \in 1..Len(trunkQ) :
            trunkQ[i] = [type |-> "disconnect", conn |-> c]

\* A disposed client is flushed, or RecyclerPop would keep it forever.
DisposedIsFlushed == disposed \subseteq flushed

-----------------------------------------------------------------------------
(* What makes the invariants inductive.                                    *)

Confirming(c) ==
    \E i \in 1..Len(workQ) : workQ[i].type = "CONFIRM_CLIENT_IS_READY"
                               /\ workQ[i].conn = c

\* An accept callback names a stream without a client, each at most once.
AcceptIsFresh ==
    /\ \A i \in 1..Len(trunkQ) : trunkQ[i].type = "accept" =>
           life[trunkQ[i].conn] = "offered"
    /\ \A i, j \in 1..Len(trunkQ) :
           trunkQ[i].type = "accept" /\ trunkQ[j] = trunkQ[i] => i = j

\* Its stream is in the server's dictionary, until Close empties it.
AcceptHasStream ==
    closed \/ wpc = "closing" \/
        \A i \in 1..Len(trunkQ) : trunkQ[i].type = "accept" =>
            trunkQ[i].conn \in streamDict

\* A stream without a client has none of the flags of a client.
FreshIsClean ==
    \A c \in Conns : life[c] \in {"none", "offered"} =>
        c \notin owned /\ c \notin reading /\ c \notin later
          /\ c \notin disposed

\* Commands that use a client use a live one.
CommandIsLive ==
    /\ \A i \in 1..Len(workQ) : workQ[i].type \in ClientCmd =>
           life[workQ[i].conn] = "live"
    /\ wcmd.type \in ClientCmd => life[wcmd.conn] = "live"

\* What RecyclerPop saw stays true.
ReleasedIsClean ==
    \A c \in Conns : c \in safe \/ life[c] = "released" =>
        frontProduce[c] = backConsume[c] /\ c \in disposed

\* A client has its stream until it is disposed, and disposing flushes it.
StreamOwnership ==
    /\ disposed \cap owned = {} /\ reading \subseteq owned
    /\ flushed = disposed
    /\ \A c \in Conns : life[c] = "live" /\ c \notin disposed =>
           c \in owned \/ Confirming(c)
    /\ \A c \in streamDict : life[c] = "offered" \/ Confirming(c)

\* A confirmation comes once, before anything else touches the client.
ConfirmIsFirst ==
    /\ \A i, j \in 1..Len(workQ) :
           workQ[i].type = "CONFIRM_CLIENT_IS_READY" /\ j # i
             /\ workQ[j].conn = workQ[i].conn =>
                /\ workQ[j].type # "CONFIRM_CLIENT_IS_READY"
                /\ j < i => workQ[j].type # "DISPOSE_CONNECTION"
    /\ \A c \in owned \cup later : ~Confirming(c)

\* A removed client is not in the map any more.
DisposingIsRemoved ==
    \A i \in 1..Len(workQ) : workQ[i].type = "DISPOSE_CONNECTION" =>
        workQ[i].conn \notin clients

\* The main thread sleeps while a blocking command is in the work queue, as
\* its last element, or executed.
BlockedIn(type) == IF type = "OPEN_TCP_SERVER" THEN "opening" ELSE "closing"

Blocking ==
    /\ mpc = "crashed" <=> wpc = "crashed"
    /\ \A i \in 1..Len(workQ) : workQ[i].type \in BlockingCmd =>
           /\ i = Len(workQ) /\ ~answered
           /\ mpc \in {BlockedIn(workQ[i].type), "crashed"}
    /\ wcmd.type \in BlockingCmd =>
           /\ workQ = <<>> /\ ~answered /\ mpc = BlockedIn(wcmd.type)
           /\ wpc \in {"closing", "result"}
    /\ wpc \in {"poll", "drain", "finished"} => wcmd = NoCmd
    /\ wpc = "closing" =>
           wcmd.type = "CLOSE_TCP_SERVER" /\ todo \subseteq clients

\* After Close the server accepts nobody: no confirmation any more.
ClosedIsFinal ==
    /\ mpc = "closing" /\ answered => closed
    /\ mpc \in {"releasing", "finish", "stopped"} \/ mret # "run" => closed
    /\ wpc = "result" /\ wcmd.type = "CLOSE_TCP_SERVER" => closed
    /\ closed => \A c \in Conns : ~Confirming(c)
    /\ \A i \in 1..Len(workQ) :
           workQ[i].type = "FLUSH_TCP_SERVER_DOWNSTREAM" => closed

\* RecyclerPop walks connections that are still in the recycler.
WalkInRecycler ==
    /\ mpc \in {"recycle", "recycle2"} => walk \subseteq recycler
    /\ mpc = "recycle2" => cur \in recycler \ walk

\* The inductive invariant.
IInv ==
    /\ TypeOK /\ CommandAccounting /\ CallbackAccounting /\ OneOwner
    /\ ClientCountMatches /\ ConfirmFindsStream /\ DisposedIsReported
    /\ AcceptIsFresh /\ AcceptHasStream /\ FreshIsClean /\ CommandIsLive
    /\ ReleasedIsClean /\ StreamOwnership /\ ConfirmIsFirst
    /\ DisposingIsRemoved /\ Blocking /\ ClosedIsFinal /\ WalkInRecycler

-----------------------------------------------------------------------------
(* Nobody waits in vain: the safety part of the liveness below.            *)

\* The disconnect callback of c is in the trunk queue.
Reporting(c) ==
    \E i \in 1..Len(trunkQ) : trunkQ[i] = [type |-> "disconnect", conn |-> c]

\* A command in the work queue.
Queued(type, c) ==
    \E i \in 1..Len(workQ) : workQ[i] = [type |-> type, conn |-> c]

\* The promise that BlockingCommit waits for.
Promised(type) ==
    answered \/ Queued(type, NoConn) \/ wcmd = [type |-> type, conn |-> NoConn]

\* Everything that RecyclerPop waits for is on its way: the disconnect event,
\* the callbacks and the commands that the counters tell, the disposal.
Releasable(c) ==
    /\ c \in connected => Reporting(c)
    /\ ~IsBackEndClean(c) => CbsOf(c) # {}
    /\ ~IsFrontEndClean(c) => CmdsOf(c) # {} \/ Executing(c) = 1
    /\ ~(c \in disposed /\ c \in flushed) => Queued("DISPOSE_CONNECTION", c)

\* The main thread never waits for something that nobody will do: not in
\* BlockingCommit, and not in the wait and recycle loop of OnDelete; the
\* worker has not quit before.
WaitsAreServed ==
    /\ mpc = "opening" => Promised("OPEN_TCP_SERVER")
    /\ mpc = "closing" => Promised("CLOSE_TCP_SERVER")
    /\ \A c \in recycler : Releasable(c)
    /\ quit \/ wpc = "finished" =>
           mpc \in {"finish", "stopped", "crashed"} /\ recycler = {}

\* What makes it inductive: DisposeDownStreams visits every client of the map,
\* and nobody is added to it afterwards ...
CloseVisitsAll ==
    /\ wpc = "closing" => clients \ todo \subseteq disposed
    /\ closed => clients \subseteq disposed

\* ... and OnDelete ends with an empty recycler.
FinishIsLast == mpc \in {"finish", "stopped"} => recycler = {}

-----------------------------------------------------------------------------
(* The life of a client, with one reference count instead of two counters. *)

StageOf(c) ==
    CASE life[c] = "none" -> "absent"
      [] life[c] = "offered" -> "offered"
      [] life[c] = "live" /\ c \in clients -> "serving"
      [] life[c] = "live" /\ c \in recycler -> "retired"
      [] OTHER -> "deleted"

\* Two counters that two threads change, and a condition that is read in
\* pieces, do what one reference count would.
Lifetime == INSTANCE ClientLife WITH
                stage <- [c \in Conns |-> StageOf(c)],
                refs <- [c \in Conns |-> frontProduce[c] - backConsume[c]],
                up <- connected, gone <- disposed

LifetimeKept == Lifetime!Spec

\* What makes it inductive: the application knows of no client as connected
\* that the recycler has given up, or is about to give up.
ConnectedIsOwned ==
    /\ connected \subseteq clients \cup recycler
    /\ mpc = "recycle2" => cur \notin connected

-----------------------------------------------------------------------------
(* Action and temporal properties.                                         *)

\* The worker walks the main thread's map in DisposeDownStreams: the main
\* thread never changes the map meanwhile, because it waits for Close.
MapStableDuringWalk == [][wpc = "closing" => UNCHANGED clients]_vars

\* Once asked for, the shutdown comes to its end: OnDelete's "wait and
\* recycle" loop terminates.
ShutdownCompletes == (mpc = "closing") ~> (mpc \in {"stopped", "crashed"})

\* A client whose read loop failed leaves the map.
FailedIsRemoved ==
    \A c \in Conns : (c \in later) ~> (c \notin clients \/ mpc = "crashed")

\* A removed client is deleted.
RecycledIsReleased ==
    \A c \in Conns : (c \in recycler) ~> (life[c] = "released" \/ mpc = "crashed")

-----------------------------------------------------------------------------
(* What the comments of RecyclerPop claim, and the code does not keep.     *)

\* "all back end requests are processed by front end now": no callback uses
\* a deleted client.
NoCallbackOnReleased ==
    \A c \in Conns : life[c] = "released" => CbsOf(c) = {}

\* "disposed means thread is released ok": the worker has no function
\* scheduled that uses a deleted client.
ThreadReleased == \A c \in Conns : life[c] = "released" => c \notin later

=============================================================================
