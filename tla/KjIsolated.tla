----------------------------- MODULE KjIsolated -----------------------------
(***************************************************************************)
(* One outgoing ("isolated") connection: the application on the main       *)
(* thread connects, sends, reopens and disconnects it; the worker thread   *)
(* connects the socket, reads it, and reconnects after a delay when it     *)
(* fails.                                                                  *)
(*                                                                         *)
(*   src/src/tcp/kj/KjIsolatedConn.*   flags, callbacks, reconnect         *)
(*   src/src/tcp/kj/KjTcpConnection.*  the socket's tasks                  *)
(*   src/src/tcp/TcpConnManager.*      map, recycler                       *)
(*                                                                         *)
(* Both queues carry only this connection's entries, and a counter pair of *)
(* the connection is clean when its queue is empty: KjFactory models the   *)
(* queues and the counters in full.                                        *)
(***************************************************************************)
EXTENDS Naturals, Sequences

CONSTANTS
    MaxCalls,     \* bound: SendPacket and Reopen calls of the application
    MaxRecvs,     \* bound: packets received
    MaxFailures   \* bound: failures of the network

ASSUME BoundsAssumption ==
    MaxCalls \in Nat /\ MaxRecvs \in Nat /\ MaxFailures \in Nat

VARIABLES
    running,    \* _bRunning, written by both threads
    connected,  \* _bConnected, written by the main thread
    disposed,   \* _bDisposed
    flushed,    \* _bFlushed
    posted,     \* _bConnectedEventPosted
    delaying,   \* _bDelayReconnecting
    owned,      \* _thr_endpointContext, _thr_tasks, _thr_tcpStream, _thr_packet
    task,       \* the socket's task in _thr_tasks
    timer,      \* the task of _thr_tasks that waits for the delay
    later,      \* a failed task scheduled the error handling
    workQ,      \* commands, main -> worker
    trunkQ,     \* callbacks, worker -> main
    mpc,        \* where the main thread is
    wpc,        \* where the worker thread is
    calls, recvs, failures,  \* what the bounds count
    late        \* has a delay expired while a callback waited for the main
                \* thread?  (RECONNECT_DELAY_SECONDS is 10)

flags == <<running, connected, disposed, flushed, posted, delaying>>
bounds == <<calls, recvs, failures, late>>
vars == <<flags, owned, task, timer, later, workQ, trunkQ, mpc, wpc, bounds>>

Cmd == {"ISOLATED_CONN_CONNECT", "ISOLATED_DELAY_RECONNECT", "POST_PACKET",
        "DISPOSE_CONNECTION"}
Callback == {"connect", "disconnect", "packet"}
Task == {"none", "connecting", "reading"}
MainPc == {"new", "opening", "run", "down", "released", "crashed"}
WorkPc == {"poll", "drain", "crashed"}

Init ==
    /\ running = FALSE /\ connected = FALSE /\ disposed = FALSE
    /\ flushed = TRUE /\ posted = FALSE /\ delaying = FALSE
    /\ owned = FALSE /\ task = "none" /\ timer = FALSE /\ later = FALSE
    /\ workQ = <<>> /\ trunkQ = <<>>
    /\ mpc = "new" /\ wpc = "poll"
    /\ calls = 0 /\ recvs = 0 /\ failures = 0 /\ late = FALSE

\* The process dies: the worker used what it does not have.
Crash == mpc' = "crashed" /\ wpc' = "crashed"

-----------------------------------------------------------------------------
(* Main thread.                                                            *)

Commit(q, cmd) == Append(q, cmd)

\* CreateTcpIsolated, then IsolatedConnConnect, which blocks.
ConnectCall ==
    /\ mpc = "new"
    /\ workQ' = Commit(workQ, "ISOLATED_CONN_CONNECT")
    /\ mpc' = "opening"
    /\ UNCHANGED <<flags, owned, task, timer, later, trunkQ, wpc, bounds>>

\* SendPacket -> PostPacket.
SendPacket ==
    /\ mpc = "run" /\ calls < MaxCalls
    /\ calls' = calls + 1
    /\ workQ' = Commit(workQ, "POST_PACKET")
    /\ UNCHANGED <<flags, owned, task, timer, later, trunkQ, mpc, wpc, recvs,
                   failures, late>>

\* The queue after Disconnect, whose body runs when MayDisconnect.
MayDisconnect == ~disposed /\ running
Disconnected(q) == Commit(q, "DISPOSE_CONNECTION")

\* Disconnect: stop, OnDisconnect, ReleaseConnection.
Disconnect ==
    /\ mpc = "run" /\ MayDisconnect
    /\ running' = FALSE /\ connected' = FALSE
    /\ workQ' = Disconnected(workQ)
    /\ UNCHANGED <<disposed, flushed, posted, delaying, owned, task, timer, later,
                   trunkQ, mpc, wpc, bounds>>

\* Reopen: disconnect when connected, then ask for a delayed reconnect.
Reopen ==
    /\ mpc = "run" /\ calls < MaxCalls
    /\ ~disposed
    /\ calls' = calls + 1
    /\ IF connected /\ MayDisconnect
       THEN /\ running' = FALSE /\ connected' = FALSE
            /\ workQ' = Commit(Disconnected(workQ), "ISOLATED_DELAY_RECONNECT")
       ELSE /\ workQ' = Commit(workQ, "ISOLATED_DELAY_RECONNECT")
            /\ UNCHANGED <<running, connected>>
    /\ UNCHANGED <<disposed, flushed, posted, delaying, owned, task, timer, later,
                   trunkQ, mpc, wpc, recvs, failures, late>>

\* OnDelete of the factory -> ReleaseAllIsolateds: Disconnect, then release
\* the connection once more and leave it to the recycler.
ReleaseAllIsolateds ==
    /\ mpc = "run"
    /\ IF MayDisconnect
       THEN /\ running' = FALSE /\ connected' = FALSE
            /\ workQ' = Commit(Disconnected(workQ), "DISPOSE_CONNECTION")
       ELSE /\ workQ' = Commit(workQ, "DISPOSE_CONNECTION")
            /\ UNCHANGED <<running, connected>>
    /\ mpc' = "down"
    /\ UNCHANGED <<disposed, flushed, posted, delaying, owned, task, timer, later,
                   trunkQ, wpc, bounds>>

\* A callback of RunOnce: in the event loop, or from OnDelete's loop.
NextCallback(cb) ==
    /\ mpc \in {"run", "down"}
    /\ trunkQ # <<>> /\ Head(trunkQ) = cb
    /\ trunkQ' = Tail(trunkQ)
    /\ UNCHANGED <<running, disposed, flushed, posted, delaying, owned, task, timer,
                   later, workQ, mpc, wpc, bounds>>

\* OnConnect: ignored when not running.
OnConnect ==
    /\ NextCallback("connect")
    /\ connected' = (connected \/ running)

OnDisconnect ==
    /\ NextCallback("disconnect")
    /\ connected' = FALSE

OnInnerPacket ==
    /\ NextCallback("packet")
    /\ UNCHANGED connected

\* Mutant: the commands in flight are not looked at.
RecycleIgnoresCommands ==
    /\ mpc = "down"
    /\ ~connected /\ trunkQ = <<>> /\ disposed /\ flushed
    /\ mpc' = "released"
    /\ UNCHANGED <<flags, owned, task, timer, later, workQ, trunkQ, wpc, bounds>>

\* RecyclerPop finds the connection clean and SafeRelease deletes it.
Recycle ==
    /\ mpc = "down"
    /\ ~connected /\ trunkQ = <<>> /\ workQ = <<>> /\ disposed /\ flushed
    /\ mpc' = "released"
    /\ UNCHANGED <<flags, owned, task, timer, later, workQ, trunkQ, wpc, bounds>>

MainStep == OnConnect \/ OnDisconnect \/ OnInnerPacket \/ Recycle

MainChoice == ConnectCall \/ SendPacket \/ Disconnect \/ Reopen
                \/ ReleaseAllIsolateds

-----------------------------------------------------------------------------
(* Worker thread: commands, drained in one turn of its event loop.         *)

StartDrain ==
    /\ wpc = "poll" /\ workQ # <<>>
    /\ wpc' = "drain"
    /\ UNCHANGED <<flags, owned, task, timer, later, workQ, trunkQ, mpc, bounds>>

EndDrain ==
    /\ wpc = "drain" /\ workQ = <<>>
    /\ wpc' = "poll"
    /\ UNCHANGED <<flags, owned, task, timer, later, workQ, trunkQ, mpc, bounds>>

NextCmd(cmd) ==
    /\ wpc = "drain" /\ workQ # <<>> /\ Head(workQ) = cmd
    /\ workQ' = Tail(workQ)
    /\ UNCHANGED <<posted, connected, trunkQ, later, bounds>>

\* Connect; a name that is no IP address is refused, and the caller is told
\* success either way.
Connect ==
    /\ NextCmd("ISOLATED_CONN_CONNECT")
    /\ \/ /\ owned' = TRUE /\ task' = "connecting"
          /\ running' = TRUE /\ flushed' = FALSE
       \/ UNCHANGED <<owned, task, running, flushed>>
    /\ mpc' = "run"
    /\ UNCHANGED <<disposed, delaying, timer, wpc>>

\* PostPacket writes to the socket when there is one.
PostPacket ==
    /\ NextCmd("POST_PACKET")
    /\ UNCHANGED <<running, disposed, flushed, delaying, owned, task, timer,
                   mpc, wpc>>

\* DelayReconnect: wait once, not when disposed.
DelayReconnect ==
    IF ~delaying /\ ~disposed
    THEN delaying' = TRUE /\ timer' = TRUE
    ELSE UNCHANGED <<delaying, timer>>

\* DelayReconnect as a command; without an endpoint context it crashes.
DelayReconnectCmd ==
    /\ NextCmd("ISOLATED_DELAY_RECONNECT")
    /\ IF ~delaying /\ ~disposed /\ ~owned
       THEN Crash /\ UNCHANGED <<delaying, timer>>
       ELSE DelayReconnect /\ UNCHANGED <<mpc, wpc>>
    /\ UNCHANGED <<running, disposed, flushed, owned, task>>

\* Mutant: the delay outlives the tasks.
DisposeKeepsTimer ==
    /\ NextCmd("DISPOSE_CONNECTION")
    /\ disposed' = TRUE
    /\ flushed' = (flushed \/ owned)
    /\ owned' = FALSE /\ task' = "none"
    /\ UNCHANGED <<running, delaying, timer, mpc, wpc>>

\* DisposeConnection, once: flush, drop the stream and every task.
DisposeConnection ==
    /\ NextCmd("DISPOSE_CONNECTION")
    /\ disposed' = TRUE
    /\ flushed' = (flushed \/ owned)
    /\ owned' = FALSE /\ task' = "none" /\ timer' = FALSE
    /\ UNCHANGED <<running, delaying, mpc, wpc>>

-----------------------------------------------------------------------------
(* Worker thread: the socket.                                              *)

AddCb(cb) == trunkQ' = Append(trunkQ, cb)

\* Mutant: the read loop is started before the callback is posted.
ReadBeforeConnectCb ==
    /\ wpc = "poll" /\ task = "connecting" /\ recvs < MaxRecvs
    /\ IF ~connected
       THEN trunkQ' = trunkQ \o <<"packet", "connect">> /\ posted' = TRUE
       ELSE UNCHANGED <<trunkQ, posted>>
    /\ task' = "reading"
    /\ UNCHANGED <<running, connected, disposed, flushed, delaying, owned,
                   timer, later, workQ, mpc, wpc, bounds>>

\* StartConnect's continuation -> OnLowLevelConnect: tell the front end when
\* it is not connected, and read.
OnLowLevelConnect ==
    /\ wpc = "poll" /\ task = "connecting"
    /\ IF ~connected
       THEN AddCb("connect") /\ posted' = TRUE
       ELSE UNCHANGED <<trunkQ, posted>>
    /\ task' = "reading"
    /\ UNCHANGED <<running, connected, disposed, flushed, delaying, owned,
                   timer, later, workQ, mpc, wpc, bounds>>

\* AsyncReadLoop got bytes that complete a packet -> OnGotPacket.
OnGotPacket ==
    /\ wpc = "poll" /\ task = "reading" /\ recvs < MaxRecvs
    /\ AddCb("packet")
    /\ recvs' = recvs + 1
    /\ UNCHANGED <<flags, owned, task, timer, later, workQ, mpc, wpc, calls,
                   failures, late>>

\* The attempt or the read loop fails: taskFailed schedules the handling.
TaskFailed ==
    /\ wpc = "poll" /\ task # "none" /\ failures < MaxFailures
    /\ failures' = failures + 1
    /\ task' = "none" /\ later' = TRUE
    /\ UNCHANGED <<flags, owned, timer, workQ, trunkQ, mpc, wpc, calls, recvs,
                   late>>

\* Mutant: a connect callback that still waits is forgotten.
OnLowLevelDisconnectConnectedOnly ==
    IF connected
    THEN AddCb("disconnect") /\ posted' = FALSE
    ELSE UNCHANGED <<trunkQ, posted>>

\* Tell the front end that was, or is being, told of the connect.
OnLowLevelDisconnect ==
    IF connected \/ posted
    THEN AddCb("disconnect") /\ posted' = FALSE
    ELSE UNCHANGED <<trunkQ, posted>>

\* Mutant: reconnects only what the front end knows as connected.
AfterErrorConnectedOnly ==
    /\ flushed' = TRUE
    /\ IF connected THEN DelayReconnect ELSE UNCHANGED <<delaying, timer>>
    /\ UNCHANGED task

\* Mutant: reconnects at once.
AfterErrorAtOnce ==
    /\ flushed' = ~running
    /\ task' = IF running THEN "connecting" ELSE "none"
    /\ UNCHANGED <<delaying, timer>>

\* The end of OnIsolatedError: DelayReconnect when running.
AfterError ==
    /\ flushed' = TRUE
    /\ IF running THEN DelayReconnect ELSE UNCHANGED <<delaying, timer>>
    /\ UNCHANGED task

\* The scheduled function: FlushStream, then OnIsolatedError.
OnIsolatedError ==
    /\ wpc = "poll" /\ later /\ owned
    /\ later' = FALSE
    /\ OnLowLevelDisconnect
    /\ AfterError
    /\ UNCHANGED <<running, connected, disposed, owned, workQ, mpc, wpc,
                   bounds>>

\* The same after DisposeConnection deleted _thr_packet, which it uses.
ErrorAfterDispose ==
    /\ wpc = "poll" /\ later /\ ~owned
    /\ later' = FALSE
    /\ Crash
    /\ UNCHANGED <<flags, owned, task, timer, workQ, trunkQ, bounds>>

\* Mutant: the flag of the expired delay stays set.
ExpireKeepsFlag ==
    /\ wpc = "poll" /\ timer
    /\ late' = (late \/ trunkQ # <<>>)
    /\ timer' = FALSE
    /\ running' = TRUE /\ flushed' = FALSE
    /\ task' = IF flushed THEN "connecting" ELSE task
    /\ UNCHANGED <<connected, disposed, posted, delaying, owned, later, workQ,
                   trunkQ, mpc, wpc, calls, recvs, failures>>

\* The delay expired: Reconnect, which starts nothing before the flush.
Reconnect ==
    /\ wpc = "poll" /\ timer
    /\ late' = (late \/ trunkQ # <<>>)
    /\ timer' = FALSE /\ delaying' = FALSE
    /\ running' = TRUE /\ flushed' = FALSE
    /\ task' = IF flushed THEN "connecting" ELSE task
    /\ UNCHANGED <<connected, disposed, posted, owned, later, workQ, trunkQ,
                   mpc, wpc, calls, recvs, failures>>

WorkerStep ==
    \/ StartDrain \/ EndDrain \/ Connect \/ PostPacket \/ DelayReconnectCmd
    \/ DisposeConnection \/ OnLowLevelConnect \/ OnIsolatedError
    \/ ErrorAfterDispose \/ Reconnect

NetworkStep == OnGotPacket \/ TaskFailed

Next == MainStep \/ MainChoice \/ WorkerStep \/ NetworkStep

\* The event loops of both threads keep running.
Spec == Init /\ [][Next]_vars

FairSpec == Spec /\ WF_vars(MainStep) /\ WF_vars(WorkerStep)

-----------------------------------------------------------------------------
(* Properties.                                                             *)

\* Every variable keeps its type; tasks live only as long as _thr_tasks.
TypeOK ==
    /\ running \in BOOLEAN /\ connected \in BOOLEAN /\ disposed \in BOOLEAN
    /\ flushed \in BOOLEAN /\ posted \in BOOLEAN /\ delaying \in BOOLEAN
    /\ owned \in BOOLEAN /\ task \in Task /\ timer \in BOOLEAN
    /\ later \in BOOLEAN /\ workQ \in Seq(Cmd) /\ trunkQ \in Seq(Callback)
    /\ mpc \in MainPc /\ wpc \in WorkPc
    /\ calls \in 0..MaxCalls /\ recvs \in 0..MaxRecvs
    /\ failures \in 0..MaxFailures /\ late \in BOOLEAN
    /\ task # "none" \/ timer => owned

Waiting(cb) == \E i \in 1..Len(trunkQ) : trunkQ[i] = cb

\* The application runs it and has not asked for its disposal.
Wanted ==
    /\ running /\ ~disposed
    /\ \A i \in 1..Len(workQ) : workQ[i] # "DISPOSE_CONNECTION"

\* A running connection always has something that will bring it back: a
\* socket, an attempt, a failure to handle or a delay.  OnIsolatedError and
\* the delay's expiry must not both leave the reconnect to the other.
AlwaysTrying ==
    running /\ ~disposed => task # "none" \/ later \/ timer

\* Whenever the application believes to be connected, it is, or the failure
\* is being handled, or a disconnect callback is on its way: OnDisconnect is
\* never lost, however late the connect callback runs.
ConnectedIsTrue ==
    connected /\ ~disposed =>
        task = "reading" \/ later \/ Waiting("disconnect")

\* When no callback waits, a connection in use whose socket is up is
\* connected for the application too, unless the main thread was so late that
\* OnLowLevelConnect still found the last connection up.
FrontAgrees ==
    Wanted /\ task = "reading" /\ trunkQ = <<>> /\ ~late => connected

\* RecyclerPop lets go of no connection that a command, a task or a delay
\* still uses, and does not wait for the worker in vain: once the commands are
\* drained, the connection it waits for is disposed, flushed and idle.
RecyclerIsServed ==
    /\ mpc = "released" => workQ = <<>>
    /\ mpc \in {"down", "released"} /\ workQ = <<>> =>
          disposed /\ flushed /\ task = "none" /\ ~timer

\* A packet of a connection in use is delivered between its connect and its
\* disconnect event, unless the main thread was late.
PacketWhileConnected ==
    [][Wanted /\ ~late /\ Len(trunkQ') < Len(trunkQ) /\ Head(trunkQ) = "packet"
         => connected]_vars

\* When the network stops failing, a running connection ends up connected,
\* unless the main thread was late.
EndsConnected ==
    <>[](running /\ ~disposed /\ mpc = "run" /\ ~late => connected)

\* "disconnect means stop running and flush stream, but not disposed"
\* (Disconnect): only what the factory gave up is disposed.
DisconnectKeeps == disposed => mpc \in {"down", "released"}

\* "connect event will be ignored if not running" (OnConnect): a connection
\* that the shutdown has stopped does not become connected again.
StoppedStaysDown ==
    [][mpc = "down" /\ connected' => connected]_vars

=============================================================================
