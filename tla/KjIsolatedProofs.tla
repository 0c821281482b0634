-------------------------- MODULE KjIsolatedProofs --------------------------
(***************************************************************************)
(* Proofs about KjIsolated: whatever the timing of the two threads and the *)
(* network, a running connection never stops trying to reconnect, and the  *)
(* application never keeps believing in a connection that is gone.         *)
(***************************************************************************)
EXTENDS KjIsolated, TLAPS

\* What the worker's tasks and flags have to do with each other.
Tasks ==
    /\ task # "none" \/ timer => owned
    /\ ~flushed => owned /\ (task # "none" \/ later)
    /\ task # "none" \/ (later /\ owned) => ~flushed
    /\ later => task = "none" /\ (owned \/ disposed)
    /\ delaying /\ ~disposed => timer

\* The command that connects comes first and once.
Fresh ==
    /\ mpc = "new" => workQ = <<>>
    /\ mpc = "opening" => workQ = <<"ISOLATED_CONN_CONNECT">>
    /\ mpc \in {"new", "opening"} =>
          task = "none" /\ ~timer /\ ~later /\ ~connected /\ trunkQ = <<>>
    /\ mpc \notin {"new", "opening"} =>
          \A i \in 1..Len(workQ) : workQ[i] # "ISOLATED_CONN_CONNECT"

\* A disconnect callback follows the i-th callback.
Followed(q, i) == \E j \in i..Len(q) : q[j] = "disconnect"

\* Every connect callback is followed by a disconnect callback, or ok.
NoStray(q, ok) ==
    \A i \in 1..Len(q) : q[i] = "connect" => Followed(q, i) \/ ok

\* The socket is up, or its failure will be handled.
Minded == task = "reading" \/ later

\* A connect callback that no disconnect callback follows is the one that
\* _bConnectedEventPosted remembers, and its socket is minded.
Pending == NoStray(trunkQ, posted /\ (disposed \/ Minded))

\* The types the proofs need.
Types == /\ workQ \in Seq(Cmd) /\ trunkQ \in Seq(Callback)
         /\ disposed \in BOOLEAN /\ flushed \in BOOLEAN
         /\ delaying \in BOOLEAN /\ owned \in BOOLEAN /\ timer \in BOOLEAN
         /\ later \in BOOLEAN /\ running \in BOOLEAN
         /\ connected \in BOOLEAN /\ posted \in BOOLEAN

\* The types of the other variables.
Rest == /\ task \in Task /\ mpc \in MainPc /\ wpc \in WorkPc
        /\ calls \in 0..MaxCalls /\ recvs \in 0..MaxRecvs
        /\ failures \in 0..MaxFailures /\ late \in BOOLEAN

\* What is disposed owns nothing, and only what is disposed is released.
Released ==
    /\ disposed => ~owned
    /\ mpc \in {"new", "opening"} => ~disposed
    /\ mpc = "released" => workQ = <<>> /\ disposed

\* The connection is given up, or will be.
Stopped == disposed \/ \E i \in 1..Len(workQ) : workQ[i] = "DISPOSE_CONNECTION"

\* The release of a connection that shuts down disposes it.
Down == mpc = "down" => Stopped

Has(q, cb) == \E i \in 1..Len(q) : q[i] = cb

\* The callbacks of one socket: connect, packets, disconnect.
Ordered(q, conn) ==
    /\ \A i \in 1..Len(q) : q[i] = "disconnect" => i = Len(q)
    /\ \A i \in 1..Len(q) :
           q[i] = "packet" => conn \/ \E j \in 1..(i - 1) : q[j] = "connect"

\* What the application knows, or is about to learn, of the task t.
Told(t, l, q, conn) ==
    /\ t = "connecting" => q = <<>> /\ ~conn
    /\ t = "reading" => ~Has(q, "disconnect") /\ (conn \/ Has(q, "connect"))
    /\ l => ~Has(q, "disconnect")
    /\ t = "none" /\ ~l /\ (conn \/ Has(q, "connect"))
          => Has(q, "disconnect")

\* Until the connection is given up or the main thread is late, trunkQ holds
\* the callbacks of one socket only.
Round ==
    ~Stopped /\ ~late =>
        /\ task # "none" \/ later \/ trunkQ # <<>> => running
        /\ Ordered(trunkQ, connected)
        /\ Told(task, later, trunkQ, connected)

\* The inductive invariant.
IInv == /\ Types /\ Fresh /\ Tasks /\ AlwaysTrying
        /\ Pending /\ ConnectedIsTrue /\ Rest /\ Released /\ Down /\ Round

-----------------------------------------------------------------------------
(* Queues.                                                                 *)

LEMMA Appended ==
    ASSUME NEW S, NEW q \in Seq(S), NEW x \in S
    PROVE  /\ Append(q, x) \in Seq(S) /\ Len(Append(q, x)) = Len(q) + 1
           /\ Append(q, x)[Len(q) + 1] = x
           /\ \A i \in 1..Len(q) : Append(q, x)[i] = q[i]
  OBVIOUS

LEMMA Popped ==
    ASSUME NEW S, NEW q \in Seq(S), q # <<>>
    PROVE  /\ Tail(q) \in Seq(S) /\ Len(Tail(q)) = Len(q) - 1
           /\ Len(q) \in Nat /\ Len(q) > 0 /\ Head(q) = q[1]
           /\ \A i \in 1..Len(Tail(q)) : Tail(q)[i] = q[i + 1]
  OBVIOUS

LEMMA EmptyQueue ==
    ASSUME NEW S, NEW q \in Seq(S), Len(q) = 0
    PROVE  q = <<>> /\ \A i \in 1..Len(q) : FALSE
  OBVIOUS

LEMMA CmdTypes == /\ "ISOLATED_CONN_CONNECT" \in Cmd
                  /\ "ISOLATED_DELAY_RECONNECT" \in Cmd
                  /\ "POST_PACKET" \in Cmd /\ "DISPOSE_CONNECTION" \in Cmd
  BY DEF Cmd

LEMMA CallbackTypes == /\ "connect" \in Callback /\ "disconnect" \in Callback
                       /\ "packet" \in Callback
  BY DEF Callback

\* Nothing strays after a disconnect callback was added.
LEMMA StrayDisconnect ==
    ASSUME NEW q \in Seq(Callback), NEW ok
    PROVE  /\ NoStray(Append(q, "disconnect"), ok)
           /\ Followed(Append(q, "disconnect"), 1)
  <1> DEFINE p == Append(q, "disconnect")
  <1>1. /\ Len(p) = Len(q) + 1 /\ p[Len(p)] = "disconnect" /\ Len(q) \in Nat
    BY Appended, CallbackTypes
  <1>2. \A i \in 1..Len(p) : Followed(p, i)
    BY <1>1 DEF Followed
  <1>3. QED
    BY <1>1, <1>2 DEF NoStray

\* A packet callback changes nothing for the others.
LEMMA StrayPacket ==
    ASSUME NEW q \in Seq(Callback), NEW ok, NoStray(q, ok)
    PROVE  /\ NoStray(Append(q, "packet"), ok)
           /\ Followed(q, 1) => Followed(Append(q, "packet"), 1)
  <1> DEFINE p == Append(q, "packet")
  <1>1. /\ Len(p) = Len(q) + 1 /\ p[Len(p)] = "packet" /\ Len(q) \in Nat
        /\ \A i \in 1..Len(q) : p[i] = q[i]
    BY Appended, CallbackTypes
  <1>2. ASSUME NEW i \in 1..Len(p), Followed(q, i) PROVE Followed(p, i)
    <2>1. PICK j \in i..Len(q) : q[j] = "disconnect"
      BY <1>2 DEF Followed
    <2>2. j \in 1..Len(q) /\ j \in i..Len(p)
      BY <1>1
    <2>3. QED
      BY <1>1, <2>1, <2>2 DEF Followed
  <1>3. ASSUME NEW i \in 1..Len(p), p[i] = "connect"
        PROVE  Followed(p, i) \/ ok
    <2>1. i \in 1..Len(q) /\ q[i] = "connect"
      BY <1>1, <1>3
    <2>2. QED
      BY <1>2, <2>1 DEF NoStray
  <1>4. 1 \in 1..Len(p)
    BY <1>1
  <1>5. QED
    BY <1>2, <1>3, <1>4 DEF NoStray

\* A callback leaves the queue.
LEMMA StrayTail ==
    ASSUME NEW q \in Seq(Callback), q # <<>>, NEW ok, NoStray(q, ok)
    PROVE  /\ NoStray(Tail(q), ok)
           /\ Head(q) # "disconnect" /\ Followed(q, 1)
                => Followed(Tail(q), 1)
           /\ Head(q) = "connect" => Followed(Tail(q), 1) \/ ok
  <1> DEFINE p == Tail(q)
  <1>1. /\ Len(q) \in Nat /\ Len(q) > 0 /\ Len(p) = Len(q) - 1
        /\ Head(q) = q[1] /\ \A i \in 1..Len(p) : p[i] = q[i + 1]
    BY Popped
  <1>2. ASSUME NEW i \in 1..Len(q), NEW j \in (i + 1)..Len(q),
               q[j] = "disconnect"
        PROVE  Followed(p, i)
    <2>1. j - 1 \in 1..Len(p) /\ j - 1 \in i..Len(p) /\ (j - 1) + 1 = j
      BY <1>1
    <2>2. QED
      BY <1>1, <1>2, <2>1 DEF Followed
  <1>3. ASSUME NEW i \in 1..Len(p), p[i] = "connect"
        PROVE  Followed(p, i) \/ ok
    <2>1. i + 1 \in 1..Len(q) /\ i \in 1..Len(q) /\ q[i + 1] = "connect"
      BY <1>1, <1>3
    <2>2. CASE Followed(q, i + 1)
      BY <1>2, <2>1, <2>2 DEF Followed
    <2>3. QED
      BY <2>1, <2>2 DEF NoStray
  <1>4. ASSUME Head(q) # "disconnect", Followed(q, 1) PROVE Followed(p, 1)
    <2>1. PICK j \in 1..Len(q) : q[j] = "disconnect"
      BY <1>4 DEF Followed
    <2>2. j # 1 /\ 1 \in 1..Len(q)
      BY <1>1, <1>4, <2>1
    <2>3. j \in (1 + 1)..Len(q)
      BY <1>1, <2>2
    <2>4. QED
      BY <1>2, <2>1, <2>2, <2>3
  <1>5. ASSUME Head(q) = "connect" PROVE Followed(p, 1) \/ ok
    <2>1. 1 \in 1..Len(q) /\ q[1] = "connect" /\ Head(q) # "disconnect"
      BY <1>1, <1>5
    <2>2. QED
      BY <1>4, <2>1 DEF NoStray
  <1>6. QED
    BY <1>3, <1>4, <1>5 DEF NoStray

-----------------------------------------------------------------------------
(* Types.                                                                  *)

LEMMA TypesInit == ASSUME Init PROVE Types
  <1>1. <<>> \in Seq(Cmd) /\ <<>> \in Seq(Callback)
    OBVIOUS
  <1>2. QED
    BY <1>1 DEF Init, Types

\* The queue of commands.
LEMMA WorkTypes ==
    ASSUME workQ \in Seq(Cmd), [Next]_vars PROVE workQ' \in Seq(Cmd)
  <1>1. ASSUME NEW cmd \in Cmd PROVE Commit(workQ, cmd) \in Seq(Cmd)
    BY Appended DEF Commit
  <1>2. ASSUME NEW cmd \in Cmd
        PROVE  Commit(Disconnected(workQ), cmd) \in Seq(Cmd)
    BY Appended, CmdTypes DEF Commit, Disconnected
  <1>3. Disconnected(workQ) \in Seq(Cmd)
    BY Appended, CmdTypes DEF Commit, Disconnected
  <1>4. CASE MainChoice
    BY <1>1, <1>2, <1>3, <1>4, CmdTypes
    DEF MainChoice, ConnectCall, SendPacket, Disconnect, Reopen,
        ReleaseAllIsolateds
  <1>5. ASSUME NEW cmd, NextCmd(cmd) PROVE workQ' \in Seq(Cmd)
    BY <1>5, Popped DEF NextCmd
  <1>6. CASE Connect \/ PostPacket \/ DelayReconnectCmd \/ DisposeConnection
    BY <1>5, <1>6 DEF Connect, PostPacket, DelayReconnectCmd,
                      DisposeConnection
  <1>7. CASE UNCHANGED workQ
    BY <1>7
  <1>8. QED
    BY <1>4, <1>6, <1>7
    DEF Next, MainStep, OnConnect, OnDisconnect, OnInnerPacket, NextCallback,
        Recycle, WorkerStep, StartDrain, EndDrain, OnLowLevelConnect,
        OnIsolatedError, ErrorAfterDispose, Reconnect, NetworkStep,
        OnGotPacket, TaskFailed, vars

\* The queue of callbacks.
LEMMA TrunkTypes ==
    ASSUME trunkQ \in Seq(Callback), [Next]_vars
    PROVE  trunkQ' \in Seq(Callback)
  <1>1. ASSUME NEW cb \in Callback, AddCb(cb) PROVE trunkQ' \in Seq(Callback)
    BY <1>1, Appended DEF AddCb
  <1>2. ASSUME NEW cb, NextCallback(cb) PROVE trunkQ' \in Seq(Callback)
    BY <1>2, Popped DEF NextCallback
  <1>3. CASE OnConnect \/ OnDisconnect \/ OnInnerPacket
    BY <1>2, <1>3 DEF OnConnect, OnDisconnect, OnInnerPacket
  <1>4. CASE OnLowLevelConnect \/ OnGotPacket \/ OnIsolatedError
    BY <1>1, <1>4, CallbackTypes
    DEF OnLowLevelConnect, OnGotPacket, OnIsolatedError, OnLowLevelDisconnect
  <1>5. CASE UNCHANGED trunkQ
    BY <1>5
  <1>6. QED
    BY <1>3, <1>4, <1>5
    DEF Next, MainChoice, ConnectCall, SendPacket, Disconnect, Reopen,
        ReleaseAllIsolateds, MainStep, Recycle, WorkerStep, StartDrain,
        EndDrain, NextCmd, Connect, PostPacket, DelayReconnectCmd,
        DisposeConnection, ErrorAfterDispose, Reconnect, NetworkStep,
        TaskFailed, vars

LEMMA TypesStep == ASSUME Types, [Next]_vars PROVE Types'
  <1> DEFINE Flags == /\ disposed \in BOOLEAN /\ flushed \in BOOLEAN
                      /\ delaying \in BOOLEAN /\ owned \in BOOLEAN
                      /\ timer \in BOOLEAN /\ later \in BOOLEAN
                      /\ running \in BOOLEAN /\ connected \in BOOLEAN
                      /\ posted \in BOOLEAN
  <1>0. Flags
    BY DEF Types
  <1>8. Flags'
    <2> USE DEF flags
    <2>1. CASE MainChoice
      <3>1. CASE ConnectCall \/ SendPacket \/ Disconnect
        BY <1>0, <3>1 DEF ConnectCall, SendPacket, Disconnect
      <3>2. CASE Reopen \/ ReleaseAllIsolateds
        BY <1>0, <3>2 DEF Reopen, ReleaseAllIsolateds
      <3>3. QED
        BY <2>1, <3>1, <3>2 DEF MainChoice
    <2>2. CASE MainStep
      BY <1>0, <2>2 DEF MainStep, OnConnect, OnDisconnect, OnInnerPacket,
                        NextCallback, Recycle
    <2>3. CASE StartDrain \/ EndDrain \/ Connect \/ PostPacket
              \/ DelayReconnectCmd \/ DisposeConnection
      <3>1. CASE StartDrain \/ EndDrain \/ Connect \/ PostPacket
        BY <1>0, <3>1 DEF StartDrain, EndDrain, NextCmd, Connect, PostPacket
      <3>2. CASE DelayReconnectCmd
        BY <1>0, <3>2 DEF NextCmd, DelayReconnectCmd, DelayReconnect
      <3>3. CASE DisposeConnection
        BY <1>0, <3>3 DEF NextCmd, DisposeConnection
      <3>4. QED
        BY <2>3, <3>1, <3>2, <3>3
    <2>4. CASE OnLowLevelConnect \/ OnGotPacket
      BY <1>0, <2>4 DEF OnLowLevelConnect, OnGotPacket
    <2>5. CASE OnIsolatedError
      BY <1>0, <2>5 DEF OnIsolatedError, OnLowLevelDisconnect, AfterError,
                        DelayReconnect
    <2>6. CASE ErrorAfterDispose \/ Reconnect \/ TaskFailed
      BY <1>0, <2>6 DEF ErrorAfterDispose, Reconnect, TaskFailed
    <2>7. CASE UNCHANGED vars
      BY <1>0, <2>7 DEF vars
    <2>8. QED
      BY <2>1, <2>2, <2>3, <2>4, <2>5, <2>6, <2>7
      DEF Next, WorkerStep, NetworkStep
  <1>9. QED
    BY <1>8, WorkTypes, TrunkTypes DEF Types

-----------------------------------------------------------------------------
(* The worker's tasks.                                                     *)

LEMMA FreshInit == ASSUME Init PROVE Fresh
  BY DEF Init, Fresh

\* The socket has no task yet when Connect runs.
LEMMA ConnectIsFirst ==
    ASSUME Types, Fresh, Connect PROVE task = "none" /\ ~later
  <1>1. workQ # <<>> /\ Head(workQ) = "ISOLATED_CONN_CONNECT"
    BY DEF Connect, NextCmd
  <1>2. mpc \in {"new", "opening"}
    BY <1>1, Popped DEF Fresh, Types
  <1>3. QED
    BY <1>2 DEF Fresh

LEMMA FreshStep == ASSUME Types, Fresh, [Next]_vars PROVE Fresh'
  <1>1. CASE ConnectCall
    BY <1>1 DEF ConnectCall, Fresh, Commit, flags
  <1>2. ASSUME NEW cmd \in Cmd, cmd # "ISOLATED_CONN_CONNECT",
               NEW q \in Seq(Cmd),
               \A i \in 1..Len(q) : q[i] # "ISOLATED_CONN_CONNECT"
        PROVE  /\ Commit(q, cmd) \in Seq(Cmd)
               /\ \A i \in 1..Len(Commit(q, cmd)) :
                      Commit(q, cmd)[i] # "ISOLATED_CONN_CONNECT"
    BY <1>2, Appended DEF Commit
  <1>3. CASE SendPacket \/ Disconnect \/ Reopen \/ ReleaseAllIsolateds
    <2>1. /\ mpc = "run" /\ mpc' \in {"run", "down"} /\ workQ \in Seq(Cmd)
          /\ \A i \in 1..Len(workQ) : workQ[i] # "ISOLATED_CONN_CONNECT"
      BY <1>3 DEF SendPacket, Disconnect, Reopen, ReleaseAllIsolateds, Fresh,
                  Types
    <2>2. \/ \E cmd \in Cmd \ {"ISOLATED_CONN_CONNECT"} :
                 workQ' = Commit(workQ, cmd)
          \/ \E cmd \in Cmd \ {"ISOLATED_CONN_CONNECT"} :
                 workQ' = Commit(Disconnected(workQ), cmd)
      BY <1>3, CmdTypes DEF SendPacket, Disconnect, Disconnected, Reopen,
                            ReleaseAllIsolateds
    <2>3. \A i \in 1..Len(workQ') : workQ'[i] # "ISOLATED_CONN_CONNECT"
      BY <1>2, <2>1, <2>2, CmdTypes DEF Disconnected
    <2>4. QED
      BY <2>1, <2>3 DEF Fresh
  <1>4. CASE MainStep
    BY <1>4 DEF MainStep, OnConnect, OnDisconnect, OnInnerPacket,
                NextCallback, Recycle, Fresh
  <1>5. CASE Connect
    <2>1. /\ workQ # <<>> /\ Head(workQ) = "ISOLATED_CONN_CONNECT"
          /\ workQ' = Tail(workQ) /\ mpc' = "run"
      BY <1>5 DEF Connect, NextCmd
    <2>2. mpc = "opening"
      BY <2>1, Popped DEF Fresh, Types
    <2>3. Len(workQ) = 1
      BY <2>2 DEF Fresh
    <2>4. Len(workQ') = 0
      BY <2>1, <2>3, Popped DEF Types
    <2>5. QED
      BY <2>1, <2>4 DEF Fresh
  <1>6. CASE PostPacket \/ DelayReconnectCmd \/ DisposeConnection
    <2>1. /\ workQ # <<>> /\ Head(workQ) # "ISOLATED_CONN_CONNECT"
          /\ workQ' = Tail(workQ) /\ mpc' \in {mpc, "crashed"}
      BY <1>6 DEF PostPacket, DelayReconnectCmd, DisposeConnection, NextCmd,
                  Crash
    <2>2. mpc \notin {"new", "opening"}
      BY <2>1 DEF Fresh
    <2>3. \A i \in 1..Len(workQ') : workQ'[i] # "ISOLATED_CONN_CONNECT"
      BY <2>1, <2>2, Popped DEF Fresh, Types
    <2>4. QED
      BY <2>1, <2>2, <2>3 DEF Fresh
  <1>7. CASE StartDrain \/ EndDrain \/ OnLowLevelConnect \/ OnIsolatedError
              \/ ErrorAfterDispose \/ Reconnect \/ NetworkStep
    BY <1>7 DEF StartDrain, EndDrain, OnLowLevelConnect, OnIsolatedError,
                ErrorAfterDispose, Crash, Reconnect, NetworkStep, OnGotPacket,
                TaskFailed, AfterError, Fresh, flags
  <1>8. CASE UNCHANGED vars
    BY <1>8 DEF vars, flags, Fresh
  <1>9. QED
    BY <1>1, <1>3, <1>4, <1>5, <1>6, <1>7, <1>8
    DEF Next, MainChoice, WorkerStep

LEMMA TasksInit == ASSUME Init PROVE Tasks /\ AlwaysTrying
  BY DEF Init, Tasks, AlwaysTrying

LEMMA TasksStep ==
    ASSUME Types, Fresh, Tasks, AlwaysTrying, [Next]_vars
    PROVE  Tasks' /\ AlwaysTrying'
  <1> USE DEF Tasks, AlwaysTrying, flags, bounds
  <1>1. CASE MainChoice
    BY <1>1 DEF MainChoice, ConnectCall, SendPacket, Disconnect, Reopen,
                ReleaseAllIsolateds
  <1>2. CASE MainStep
    BY <1>2 DEF MainStep, OnConnect, OnDisconnect, OnInnerPacket,
                NextCallback, Recycle
  <1>3. CASE StartDrain \/ EndDrain \/ PostPacket
    BY <1>3 DEF StartDrain, EndDrain, NextCmd, PostPacket
  <1>4. CASE Connect
    <2>1. task = "none" /\ ~later
      BY <1>4, ConnectIsFirst
    <2>2. QED
      BY <1>4, <2>1 DEF NextCmd, Connect
  <1>5. CASE DelayReconnectCmd
    BY <1>5 DEF NextCmd, DelayReconnectCmd, DelayReconnect, Types
  <1>6. CASE DisposeConnection
    BY <1>6 DEF NextCmd, DisposeConnection, Types
  <1>7. CASE OnLowLevelConnect \/ OnGotPacket
    BY <1>7 DEF OnLowLevelConnect, OnGotPacket
  <1>8. CASE TaskFailed
    BY <1>8 DEF TaskFailed
  <1>9. CASE OnIsolatedError
    BY <1>9 DEF OnIsolatedError, AfterError, DelayReconnect, Types
  <1>10. CASE ErrorAfterDispose
    BY <1>10 DEF ErrorAfterDispose, Types
  <1>11. CASE Reconnect
    BY <1>11 DEF Reconnect, Types
  <1>12. CASE UNCHANGED vars
    BY <1>12 DEF vars
  <1>13. QED
    BY <1>1, <1>2, <1>3, <1>4, <1>5, <1>6, <1>7, <1>8, <1>9, <1>10, <1>11,
       <1>12 DEF Next, WorkerStep, NetworkStep

-----------------------------------------------------------------------------
(* The callbacks.                                                          *)

LEMMA PendingInit == ASSUME Init PROVE Pending /\ ConnectedIsTrue
  BY DEF Init, Pending, NoStray, ConnectedIsTrue

\* Waiting("disconnect") is what the queue lemmas are about.
LEMMA WaitingIsFollowed == Waiting("disconnect") <=> Followed(trunkQ, 1)
  BY DEF Waiting, Followed

LEMMA PendingStep ==
    ASSUME Types, Fresh, Tasks, Pending, ConnectedIsTrue, [Next]_vars
    PROVE  Pending' /\ ConnectedIsTrue'
  <1> DEFINE ok == posted /\ (disposed \/ Minded)
             agree == connected /\ ~disposed => Minded \/ Followed(trunkQ, 1)
  <1>1. trunkQ \in Seq(Callback) /\ NoStray(trunkQ, ok) /\ agree
    BY WaitingIsFollowed DEF Types, Pending, ConnectedIsTrue, Minded
  <1>2. SUFFICES NoStray(trunkQ', ok') /\ agree'
    <2>1. Waiting("disconnect")' <=> Followed(trunkQ', 1)
      BY DEF Waiting, Followed
    <2>2. QED
      BY <2>1 DEF Pending, ConnectedIsTrue, Minded
  \* steps that keep the callbacks and do not lose the socket
  <1>3. ASSUME UNCHANGED <<trunkQ, posted>>, connected' => connected,
               disposed => disposed', Minded => Minded' \/ disposed'
        PROVE  NoStray(trunkQ', ok') /\ agree'
    <2>1. ok => ok'
      BY <1>3
    <2>2. NoStray(trunkQ', ok')
      BY <1>1, <1>3, <2>1 DEF NoStray
    <2>3. agree'
      BY <1>1, <1>3
    <2>4. QED
      BY <2>2, <2>3
  <1>4. CASE MainChoice
    BY <1>3, <1>4 DEF MainChoice, ConnectCall, SendPacket, Disconnect, Reopen,
                      ReleaseAllIsolateds, Minded, flags
  <1>5. CASE Recycle \/ StartDrain \/ EndDrain \/ PostPacket
              \/ DelayReconnectCmd \/ DisposeConnection \/ TaskFailed
    BY <1>3, <1>5 DEF Recycle, StartDrain, EndDrain, NextCmd, PostPacket,
                      DelayReconnectCmd, DisposeConnection, TaskFailed,
                      Minded, flags
  <1>6. CASE Connect
    <2>1. ~Minded
      BY <1>6, ConnectIsFirst DEF Minded
    <2>2. QED
      BY <1>3, <1>6, <2>1 DEF Connect, NextCmd
  <1>7. CASE ErrorAfterDispose
    BY <1>3, <1>7 DEF ErrorAfterDispose, Tasks, flags
  <1>8. CASE Reconnect
    <2>1. Minded => Minded'
      BY <1>8 DEF Reconnect, Tasks, Minded
    <2>2. QED
      BY <1>3, <1>8, <2>1 DEF Reconnect
  <1>9. CASE OnLowLevelConnect
    <2>1. Minded' /\ UNCHANGED <<connected, disposed>>
      BY <1>9 DEF OnLowLevelConnect, Minded
    <2>2. CASE connected
      BY <1>3, <1>9, <2>1, <2>2 DEF OnLowLevelConnect
    <2>3. CASE ~connected
      <3>1. ok'
        BY <1>9, <2>1, <2>3 DEF OnLowLevelConnect
      <3>2. QED
        BY <2>1, <3>1 DEF NoStray
    <2>4. QED
      BY <2>2, <2>3
  <1>10. CASE OnGotPacket
    <2>1. trunkQ' = Append(trunkQ, "packet") /\ ok' = ok
          /\ UNCHANGED <<connected, disposed>> /\ Minded' = Minded
      BY <1>10 DEF OnGotPacket, AddCb, flags, Minded
    <2>2. NoStray(trunkQ', ok')
      BY <1>1, <2>1, StrayPacket
    <2>3. agree'
      BY <1>1, <2>1, StrayPacket
    <2>4. QED
      BY <2>2, <2>3
  <1>11. CASE OnIsolatedError
    <2>1. UNCHANGED <<connected, disposed>>
      BY <1>11 DEF OnIsolatedError
    <2>2. CASE connected \/ posted
      <3>1. trunkQ' = Append(trunkQ, "disconnect")
        BY <1>11, <2>2 DEF OnIsolatedError, OnLowLevelDisconnect, AddCb
      <3>2. QED
        BY <1>1, <3>1, StrayDisconnect
    <2>3. CASE ~connected /\ ~posted
      <3>1. UNCHANGED trunkQ
        BY <1>11, <2>3 DEF OnIsolatedError, OnLowLevelDisconnect
      <3>2. NoStray(trunkQ', ok')
        BY <1>1, <2>3, <3>1 DEF NoStray
      <3>3. QED
        BY <2>1, <2>3, <3>2
    <2>4. QED
      BY <2>2, <2>3
  <1>12. CASE OnConnect \/ OnDisconnect \/ OnInnerPacket
    <2>1. /\ trunkQ # <<>> /\ trunkQ' = Tail(trunkQ)
          /\ UNCHANGED <<posted, disposed, task, later>>
      BY <1>12 DEF OnConnect, OnDisconnect, OnInnerPacket, NextCallback
    <2>2. /\ NoStray(trunkQ', ok)
          /\ Head(trunkQ) # "disconnect" /\ Followed(trunkQ, 1)
               => Followed(trunkQ', 1)
          /\ Head(trunkQ) = "connect" => Followed(trunkQ', 1) \/ ok
      BY <1>1, <2>1, StrayTail
    <2>3. NoStray(trunkQ', ok')
      BY <2>1, <2>2 DEF NoStray, Minded
    <2>4. agree'
      <3>1. CASE OnConnect
        <4>1. Head(trunkQ) = "connect"
          BY <3>1 DEF OnConnect, NextCallback
        <4>2. QED
          BY <1>1, <2>1, <2>2, <4>1 DEF Minded
      <3>2. CASE OnDisconnect
        BY <3>2 DEF OnDisconnect
      <3>3. CASE OnInnerPacket
        <4>1. Head(trunkQ) = "packet" /\ UNCHANGED connected
          BY <3>3 DEF OnInnerPacket, NextCallback
        <4>2. QED
          BY <1>1, <2>1, <2>2, <4>1 DEF Minded
      <3>4. QED
        BY <1>12, <3>1, <3>2, <3>3
    <2>5. QED
      BY <2>3, <2>4
  <1>13. CASE UNCHANGED vars
    BY <1>3, <1>13 DEF vars, flags, Minded
  <1>14. QED
    BY <1>4, <1>5, <1>6, <1>7, <1>8, <1>9, <1>10, <1>11, <1>12, <1>13
    DEF Next, MainStep, WorkerStep, NetworkStep

-----------------------------------------------------------------------------
(* The other types, and what is released.                                  *)

LEMMA RestStep == ASSUME Rest, [Next]_vars PROVE Rest'
  <1> USE BoundsAssumption DEF Rest, bounds, Task, MainPc, WorkPc
  <1>1. CASE MainChoice
    BY <1>1 DEF MainChoice, ConnectCall, SendPacket, Disconnect, Reopen,
                ReleaseAllIsolateds
  <1>2. CASE MainStep
    BY <1>2 DEF MainStep, OnConnect, OnDisconnect, OnInnerPacket,
                NextCallback, Recycle
  <1>3. CASE StartDrain \/ EndDrain \/ Connect \/ PostPacket
              \/ DelayReconnectCmd \/ DisposeConnection
    BY <1>3 DEF StartDrain, EndDrain, NextCmd, Connect, PostPacket,
                DelayReconnectCmd, DisposeConnection, Crash
  <1>4. CASE OnLowLevelConnect \/ OnIsolatedError \/ ErrorAfterDispose
    BY <1>4 DEF OnLowLevelConnect, OnIsolatedError, AfterError,
                ErrorAfterDispose, Crash
  <1>5. CASE Reconnect
    <2>1. late' \in BOOLEAN
      BY <1>5, Zenon DEF Reconnect
    <2>2. QED
      BY <1>5, <2>1 DEF Reconnect
  <1>6. CASE NetworkStep
    BY <1>6 DEF NetworkStep, OnGotPacket, TaskFailed
  <1>7. CASE UNCHANGED vars
    BY <1>7 DEF vars
  <1>8. QED
    BY <1>1, <1>2, <1>3, <1>4, <1>5, <1>6, <1>7 DEF Next, WorkerStep

LEMMA ReleasedStep ==
    ASSUME Types, Fresh, Tasks, Released, [Next]_vars PROVE Released'
  <1> USE DEF Released, flags
  <1>1. CASE MainChoice
    BY <1>1 DEF MainChoice, ConnectCall, SendPacket, Disconnect, Reopen,
                ReleaseAllIsolateds
  <1>2. CASE MainStep
    BY <1>2 DEF MainStep, OnConnect, OnDisconnect, OnInnerPacket,
                NextCallback, Recycle
  <1>3. CASE StartDrain \/ EndDrain
    BY <1>3 DEF StartDrain, EndDrain
  <1>4. CASE Connect
    <2>1. workQ # <<>> /\ Head(workQ) = "ISOLATED_CONN_CONNECT"
          /\ mpc' = "run" /\ disposed' = disposed
      BY <1>4 DEF Connect, NextCmd
    <2>2. mpc \in {"new", "opening"}
      BY <2>1, Popped DEF Fresh, Types
    <2>3. QED
      BY <2>1, <2>2
  <1>5. CASE PostPacket \/ DelayReconnectCmd \/ DisposeConnection
    <2>1. workQ # <<>> /\ Head(workQ) # "ISOLATED_CONN_CONNECT"
      BY <1>5 DEF PostPacket, DelayReconnectCmd, DisposeConnection, NextCmd
    <2>2. mpc \notin {"new", "opening", "released"}
      BY <2>1 DEF Fresh
    <2>3. mpc' \in {mpc, "crashed"} /\ (disposed' => ~owned')
      BY <1>5 DEF PostPacket, DelayReconnectCmd, DisposeConnection, NextCmd,
                  Crash
    <2>4. QED
      BY <2>2, <2>3
  <1>6. CASE OnLowLevelConnect \/ OnIsolatedError \/ ErrorAfterDispose
              \/ Reconnect
    BY <1>6 DEF OnLowLevelConnect, OnIsolatedError, AfterError,
                ErrorAfterDispose, Crash, Reconnect
  <1>7. CASE NetworkStep
    BY <1>7 DEF NetworkStep, OnGotPacket, TaskFailed
  <1>8. CASE UNCHANGED vars
    BY <1>8 DEF vars
  <1>9. QED
    BY <1>1, <1>2, <1>3, <1>4, <1>5, <1>6, <1>7, <1>8 DEF Next, WorkerStep

-----------------------------------------------------------------------------
(* What the application is told.                                           *)

\* A disposal is never taken back.
LEMMA StoppedStays == ASSUME Types, Stopped, [Next]_vars PROVE Stopped'
  <1>1. workQ \in Seq(Cmd)
    BY DEF Types
  <1>2. ASSUME disposed' PROVE Stopped'
    BY <1>2 DEF Stopped
  <1>3. ASSUME NEW q \in Seq(Cmd), NEW cmd \in Cmd,
               Has(q, "DISPOSE_CONNECTION")
        PROVE  /\ Commit(q, cmd) \in Seq(Cmd)
               /\ Has(Commit(q, cmd), "DISPOSE_CONNECTION")
    BY <1>3, Appended DEF Commit, Has
  <1>4. ASSUME UNCHANGED <<disposed, workQ>> PROVE Stopped'
    BY <1>4 DEF Stopped
  <1>5. CASE MainChoice
    <2>1. CASE UNCHANGED disposed /\ Has(workQ, "DISPOSE_CONNECTION")
      <3>1. \/ \E cmd \in Cmd : workQ' = Commit(workQ, cmd)
            \/ \E cmd \in Cmd : workQ' = Commit(Disconnected(workQ), cmd)
        <4>1. CASE ConnectCall \/ SendPacket \/ Disconnect
          BY <4>1, CmdTypes DEF ConnectCall, SendPacket, Disconnect,
                                Disconnected
        <4>2. CASE Reopen \/ ReleaseAllIsolateds
          BY <4>2, CmdTypes DEF Reopen, ReleaseAllIsolateds
        <4>3. QED
          BY <1>5, <4>1, <4>2 DEF MainChoice
      <3>2. Has(workQ', "DISPOSE_CONNECTION")
        <4>1. /\ Disconnected(workQ) \in Seq(Cmd)
              /\ Has(Disconnected(workQ), "DISPOSE_CONNECTION")
          BY <1>1, <1>3, <2>1, CmdTypes DEF Disconnected
        <4>2. QED
          BY <1>1, <1>3, <2>1, <3>1, <4>1
      <3>3. QED
        BY <3>2 DEF Has, Stopped
    <2>2. UNCHANGED disposed
      BY <1>5 DEF MainChoice, ConnectCall, SendPacket, Disconnect, Reopen,
                  ReleaseAllIsolateds, flags
    <2>3. QED
      BY <1>2, <2>1, <2>2 DEF Stopped, Has
  <1>6. CASE Connect \/ PostPacket \/ DelayReconnectCmd
    <2>1. /\ workQ # <<>> /\ Head(workQ) # "DISPOSE_CONNECTION"
          /\ workQ' = Tail(workQ) /\ UNCHANGED disposed
      BY <1>6 DEF Connect, PostPacket, DelayReconnectCmd, NextCmd
    <2>2. CASE Has(workQ, "DISPOSE_CONNECTION")
      <3>1. PICK i \in 1..Len(workQ) : workQ[i] = "DISPOSE_CONNECTION"
        BY <2>2 DEF Has
      <3>2. i - 1 \in 1..Len(workQ') /\ workQ'[i - 1] = workQ[i]
        BY <1>1, <2>1, <3>1, Popped
      <3>3. QED
        BY <3>1, <3>2 DEF Stopped
    <2>3. QED
      BY <1>2, <2>1, <2>2 DEF Stopped, Has
  <1>7. CASE DisposeConnection
    BY <1>2, <1>7 DEF DisposeConnection
  <1>8. QED
    BY <1>4, <1>5, <1>6, <1>7
    DEF Next, MainStep, OnConnect, OnDisconnect, OnInnerPacket, NextCallback,
        Recycle, WorkerStep, StartDrain, EndDrain, OnLowLevelConnect,
        OnIsolatedError, ErrorAfterDispose, Reconnect, NetworkStep,
        OnGotPacket, TaskFailed, vars, flags

LEMMA DownStep == ASSUME Types, Down, [Next]_vars PROVE Down'
  <1>1. CASE Stopped
    BY <1>1, StoppedStays DEF Down
  <1>2. CASE ReleaseAllIsolateds
    <2>1. PICK q \in Seq(Cmd) : workQ' = Append(q, "DISPOSE_CONNECTION")
      BY <1>2, Appended, CmdTypes
      DEF ReleaseAllIsolateds, Disconnected, Commit, Types
    <2>2. /\ Len(q) + 1 \in 1..Len(workQ')
          /\ workQ'[Len(q) + 1] = "DISPOSE_CONNECTION"
      BY <2>1, CmdTypes, Appended
    <2>3. QED
      BY <2>2 DEF Stopped, Down
  <1>3. CASE ~Stopped /\ ~ReleaseAllIsolateds
    <2>1. mpc # "down"
      BY <1>3 DEF Down
    <2>2. mpc' # "down"
      BY <1>3, <2>1
      DEF Next, MainChoice, ConnectCall, SendPacket, Disconnect, Reopen,
          MainStep, OnConnect, OnDisconnect, OnInnerPacket, NextCallback,
          Recycle, WorkerStep, StartDrain, EndDrain, Connect, PostPacket,
          DelayReconnectCmd, DisposeConnection, NextCmd, OnLowLevelConnect,
          OnIsolatedError, AfterError, ErrorAfterDispose, Crash, Reconnect,
          NetworkStep, OnGotPacket, TaskFailed, vars
    <2>3. QED
      BY <2>2 DEF Down
  <1>4. QED
    BY <1>1, <1>2, <1>3

\* Disconnect and the release queue a disposal.
LEMMA DisconnectStops ==
    ASSUME Types, MainChoice, ~Stopped' PROVE UNCHANGED <<running, connected>>
  <1>1. ASSUME NEW q \in Seq(Cmd)
        PROVE  /\ Disconnected(q) \in Seq(Cmd)
               /\ Has(Disconnected(q), "DISPOSE_CONNECTION")
    BY Appended, CmdTypes DEF Disconnected, Commit, Has
  <1>2. ASSUME NEW q \in Seq(Cmd), NEW cmd \in Cmd
        PROVE  Has(Commit(Disconnected(q), cmd), "DISPOSE_CONNECTION")
    BY <1>1, <1>2, Appended DEF Commit, Has
  <1>3. ~Has(workQ', "DISPOSE_CONNECTION") /\ workQ \in Seq(Cmd)
    BY DEF Stopped, Has, Types
  <1>4. QED
    BY <1>1, <1>2, <1>3, CmdTypes
    DEF MainChoice, ConnectCall, SendPacket, Disconnect, Reopen,
        ReleaseAllIsolateds, flags

\* A packet of the socket is added.
LEMMA RoundPacket ==
    ASSUME NEW q \in Seq(Callback), NEW conn \in BOOLEAN,
           Ordered(q, conn), Told("reading", FALSE, q, conn)
    PROVE  /\ Ordered(Append(q, "packet"), conn)
           /\ Told("reading", FALSE, Append(q, "packet"), conn)
  <1> DEFINE p == Append(q, "packet")
  <1>1. /\ Len(p) = Len(q) + 1 /\ p[Len(q) + 1] = "packet" /\ Len(q) \in Nat
        /\ \A i \in 1..Len(q) : p[i] = q[i]
    BY Appended, CallbackTypes
  <1>2. ~Has(q, "disconnect") /\ (conn \/ Has(q, "connect"))
    BY DEF Told
  <1>3. ~Has(p, "disconnect") /\ (conn \/ Has(p, "connect"))
    BY <1>1, <1>2 DEF Has
  <1>4. ASSUME NEW i \in 1..Len(p), p[i] = "packet"
        PROVE  conn \/ \E j \in 1..(i - 1) : p[j] = "connect"
    <2>1. CASE i = Len(q) + 1
      BY <1>1, <1>2, <2>1 DEF Has
    <2>2. CASE i \in 1..Len(q)
      <3>1. conn \/ \E j \in 1..(i - 1) : q[j] = "connect"
        BY <1>1, <1>4, <2>2 DEF Ordered
      <3>2. \A j \in 1..(i - 1) : j \in 1..Len(q)
        BY <1>1, <2>2
      <3>3. QED
        BY <1>1, <3>1, <3>2
    <2>3. QED
      BY <1>1, <2>1, <2>2
  <1>5. Ordered(p, conn)
    BY <1>3, <1>4 DEF Ordered, Has
  <1>6. QED
    BY <1>3, <1>5 DEF Told

\* The socket failed and the application is told.
LEMMA RoundDisconnect ==
    ASSUME NEW q \in Seq(Callback), NEW conn \in BOOLEAN,
           Ordered(q, conn), ~Has(q, "disconnect")
    PROVE  /\ Ordered(Append(q, "disconnect"), conn)
           /\ Told("none", FALSE, Append(q, "disconnect"), conn)
  <1> DEFINE p == Append(q, "disconnect")
  <1>1. /\ Len(p) = Len(q) + 1 /\ p[Len(q) + 1] = "disconnect"
        /\ Len(q) \in Nat /\ \A i \in 1..Len(q) : p[i] = q[i]
    BY Appended, CallbackTypes
  <1>2. ASSUME NEW i \in 1..Len(p), p[i] = "disconnect" PROVE i = Len(p)
    BY <1>1, <1>2 DEF Has
  <1>3. ASSUME NEW i \in 1..Len(p), p[i] = "packet"
        PROVE  conn \/ \E j \in 1..(i - 1) : p[j] = "connect"
    <2>1. i \in 1..Len(q) /\ q[i] = "packet"
      BY <1>1, <1>3
    <2>2. conn \/ \E j \in 1..(i - 1) : q[j] = "connect"
      BY <2>1 DEF Ordered
    <2>3. \A j \in 1..(i - 1) : j \in 1..Len(q)
      BY <1>1, <2>1
    <2>4. QED
      BY <1>1, <2>2, <2>3
  <1>4. Has(p, "disconnect")
    BY <1>1 DEF Has
  <1>5. QED
    BY <1>2, <1>3, <1>4 DEF Ordered, Told

\* A callback runs: conn becomes what it says.
LEMMA RoundTail ==
    ASSUME NEW q \in Seq(Callback), q # <<>>, NEW conn \in BOOLEAN,
           NEW t, NEW l \in BOOLEAN, NEW new \in BOOLEAN,
           Ordered(q, conn), Told(t, l, q, conn),
           Head(q) = "connect" => new, Head(q) = "disconnect" => ~new,
           Head(q) = "packet" => (new <=> conn)
    PROVE  /\ Ordered(Tail(q), new) /\ Told(t, l, Tail(q), new)
           /\ Head(q) = "packet" => conn
  <1> DEFINE p == Tail(q)
  <1>1. /\ Len(q) \in Nat /\ Len(q) > 0 /\ Len(p) = Len(q) - 1
        /\ Head(q) = q[1] /\ \A i \in 1..Len(p) : p[i] = q[i + 1]
    BY Popped
  <1>2. 1 \in 1..Len(q) /\ Head(q) \in Callback
    BY <1>1
  <1>3. Head(q) = "packet" => conn
    <2>1. q[1] = "packet" => conn \/ \E j \in 1..(1 - 1) : q[j] = "connect"
      BY <1>2, Zenon DEF Ordered
    <2>2. ~ \E j \in 1..(1 - 1) : TRUE
      OBVIOUS
    <2>3. QED
      BY <1>1, <2>1, <2>2
  <1>4. CASE Head(q) = "disconnect"
    <2>1. Len(q) = 1
      BY <1>1, <1>2, <1>4 DEF Ordered
    <2>2. ~new
      BY <1>4
    <2>3. p \in Seq(Callback) /\ Len(p) = 0
      BY <1>1, <2>1, Popped
    <2>4. p = <<>> /\ \A i \in 1..Len(p) : FALSE
      BY <2>3, EmptyQueue
    <2>5. ~Has(p, "connect") /\ ~Has(p, "disconnect") /\ Ordered(p, new)
      BY <2>4, Zenon DEF Has, Ordered
    <2>6. Has(q, "disconnect")
      BY <1>1, <1>2, <1>4 DEF Has
    <2>7. QED
      BY <1>3, <1>4, <2>2, <2>4, <2>5, <2>6, Zenon DEF Told
  <1>5. CASE Head(q) # "disconnect"
    <2>1. new <=> conn \/ Head(q) = "connect"
      BY <1>2, <1>5, Zenon DEF Callback
    <2>2. ASSUME NEW cb, Has(p, cb) PROVE Has(q, cb)
      <3>1. PICK i \in 1..Len(p) : p[i] = cb
        BY <2>2 DEF Has
      <3>2. i + 1 \in 1..Len(q) /\ q[i + 1] = cb
        BY <1>1, <3>1
      <3>3. QED
        BY <3>2 DEF Has
    <2>3. ASSUME NEW cb, Has(q, cb), Head(q) # cb PROVE Has(p, cb)
      <3>1. PICK i \in 1..Len(q) : q[i] = cb
        BY <2>3 DEF Has
      <3>2. i - 1 \in 1..Len(p) /\ (i - 1) + 1 = i
        BY <1>1, <2>3, <3>1
      <3>3. p[i - 1] = cb
        BY <1>1, <3>1, <3>2
      <3>4. QED
        BY <3>2, <3>3 DEF Has
    <2>4. Has(p, "disconnect") <=> Has(q, "disconnect")
      BY <1>5, <2>2, <2>3
    <2>5. conn \/ Has(q, "connect") => new \/ Has(p, "connect")
      BY <2>1, <2>3
    <2>6. new \/ Has(p, "connect") => conn \/ Has(q, "connect")
      BY <1>1, <1>2, <2>1, <2>2 DEF Has
    <2>7. Told(t, l, p, new)
      BY <2>4, <2>5, <2>6 DEF Told
    <2>8. ASSUME NEW i \in 1..Len(p), p[i] = "disconnect" PROVE i = Len(p)
      <3>1. i + 1 \in 1..Len(q) /\ q[i + 1] = "disconnect"
        BY <1>1, <2>8
      <3>2. i + 1 = Len(q)
        BY <3>1, Zenon DEF Ordered
      <3>3. i \in Nat /\ Len(p) \in Nat /\ Len(p) + 1 = Len(q)
        BY <1>1
      <3>4. QED
        BY ONLY <3>2, <3>3
    <2>9. ASSUME NEW i \in 1..Len(p), p[i] = "packet", ~new
          PROVE  \E j \in 1..(i - 1) : p[j] = "connect"
      <3>1. i + 1 \in 1..Len(q) /\ q[i + 1] = "packet" /\ (i + 1) - 1 = i
        BY <1>1, <2>9
      <3>2. PICK j \in 1..i : q[j] = "connect"
        BY <2>1, <2>9, <3>1 DEF Ordered
      <3>3. j # 1
        BY <1>1, <2>1, <2>9, <3>2
      <3>4. j - 1 \in 1..(i - 1) /\ j - 1 \in 1..Len(p) /\ (j - 1) + 1 = j
        BY <1>1, <3>2, <3>3
      <3>5. p[j - 1] = "connect"
        BY <1>1, <3>2, <3>4
      <3>6. QED
        BY <3>4, <3>5
    <2>10. QED
      BY <1>3, <2>7, <2>8, <2>9 DEF Ordered
  <1>6. QED
    BY <1>4, <1>5

LEMMA RoundStep ==
    ASSUME Types, Fresh, Tasks, Pending, Rest, Round, [Next]_vars
    PROVE  Round'
  <1> SUFFICES ASSUME ~Stopped', ~late'
               PROVE  /\ task' # "none" \/ later' \/ trunkQ' # <<>> => running'
                      /\ Ordered(trunkQ', connected')
                      /\ Told(task', later', trunkQ', connected')
    BY DEF Round, Stopped, Ordered, Told, Has
  <1>1. ~late
    BY DEF Next, MainChoice, ConnectCall, SendPacket, Disconnect, Reopen,
           ReleaseAllIsolateds, MainStep, OnConnect, OnDisconnect,
           OnInnerPacket, NextCallback, Recycle, WorkerStep, StartDrain,
           EndDrain, NextCmd, Connect, PostPacket, DelayReconnectCmd,
           DisposeConnection, OnLowLevelConnect, OnIsolatedError,
           ErrorAfterDispose, Reconnect, NetworkStep, OnGotPacket,
           TaskFailed, vars, bounds
  <1>2. ~Stopped
    BY StoppedStays
  <1>3. /\ task # "none" \/ later \/ trunkQ # <<>> => running
        /\ Ordered(trunkQ, connected)
        /\ Told(task, later, trunkQ, connected)
    BY <1>1, <1>2 DEF Round
  <1>4. trunkQ \in Seq(Callback) /\ connected \in BOOLEAN /\ later \in BOOLEAN
    BY DEF Types
  <1>5. ~disposed'
    BY DEF Stopped
  \* steps that leave the socket and the callbacks alone
  <1>6. ASSUME UNCHANGED <<task, later, trunkQ, connected>>,
               running => running'
        PROVE  /\ task' # "none" \/ later' \/ trunkQ' # <<>> => running'
               /\ Ordered(trunkQ', connected')
               /\ Told(task', later', trunkQ', connected')
    BY <1>3, <1>6
  <1>7. CASE MainChoice
    <2>1. UNCHANGED <<running, connected>>
      BY <1>7, DisconnectStops
    <2>2. UNCHANGED <<task, later, trunkQ>>
      BY <1>7 DEF MainChoice, ConnectCall, SendPacket, Disconnect, Reopen,
                  ReleaseAllIsolateds
    <2>3. QED
      BY <1>6, <2>1, <2>2
  <1>8. CASE Recycle \/ StartDrain \/ EndDrain \/ PostPacket
              \/ DelayReconnectCmd
    BY <1>6, <1>8 DEF Recycle, StartDrain, EndDrain, NextCmd, PostPacket,
                      DelayReconnectCmd, flags
  <1>9. CASE DisposeConnection
    BY <1>5, <1>9 DEF DisposeConnection
  <1>10. CASE Connect
    <2>1. /\ workQ # <<>> /\ Head(workQ) = "ISOLATED_CONN_CONNECT"
          /\ UNCHANGED <<connected, trunkQ, later>>
      BY <1>10 DEF Connect, NextCmd
    <2>2. mpc \in {"new", "opening"}
      BY <2>1, Popped DEF Fresh, Types
    <2>3. task = "none" /\ ~later /\ ~connected /\ trunkQ = <<>>
      BY <2>2 DEF Fresh
    <2>4. CASE task' = "connecting" /\ running'
      BY <1>3, <2>1, <2>3, <2>4 DEF Told
    <2>5. CASE UNCHANGED <<task, running>>
      BY <1>6, <2>1, <2>5
    <2>6. QED
      BY <1>10, <2>4, <2>5 DEF Connect
  <1>11. CASE OnLowLevelConnect
    <2>1. trunkQ = <<>> /\ ~connected /\ running
      BY <1>3, <1>11 DEF OnLowLevelConnect, Told
    <2>2. /\ trunkQ' = Append(trunkQ, "connect") /\ connected' = connected
          /\ task' = "reading" /\ later' = later /\ running' = running
      BY <1>11, <2>1 DEF OnLowLevelConnect, AddCb
    <2>3. Len(trunkQ') = 1 /\ trunkQ'[1] = "connect"
      BY <2>1, <2>2
    <2>4. ~Has(trunkQ', "disconnect") /\ Has(trunkQ', "connect")
      BY <2>3 DEF Has
    <2>5. Ordered(trunkQ', connected')
      BY <2>3 DEF Ordered
    <2>6. QED
      BY <2>1, <2>2, <2>4, <2>5 DEF Told
  <1>12. CASE OnGotPacket
    <2>1. /\ trunkQ' = Append(trunkQ, "packet") /\ connected' = connected
          /\ task = "reading" /\ task' = task /\ later' = later
          /\ running' = running
      BY <1>12 DEF OnGotPacket, AddCb, flags
    <2>2. ~later
      BY <2>1 DEF Tasks
    <2>3. Told("reading", FALSE, trunkQ, connected)
      BY <1>3, <2>1, <2>2 DEF Told
    <2>4. /\ Ordered(trunkQ', connected')
          /\ Told("reading", FALSE, trunkQ', connected')
      BY <1>3, <1>4, <2>1, <2>3, RoundPacket
    <2>5. Told(task', later', trunkQ', connected')
      BY <2>1, <2>2, <2>4 DEF Told
    <2>6. QED
      BY <1>3, <2>1, <2>4, <2>5
  <1>13. CASE TaskFailed
    <2>1. /\ UNCHANGED <<trunkQ, connected, running>> /\ task # "none"
          /\ task \in {"connecting", "reading"} /\ task' = "none" /\ later'
      BY <1>13 DEF TaskFailed, flags, Rest, Task
    <2>2. ~Has(trunkQ, "disconnect")
      BY <1>3, <2>1 DEF Told, Has
    <2>3. QED
      BY <1>3, <2>1, <2>2 DEF Told
  <1>14. CASE OnIsolatedError
    <2>1. /\ later /\ ~later' /\ UNCHANGED <<connected, running, task>>
          /\ task = "none"
      BY <1>14 DEF OnIsolatedError, AfterError, Tasks
    <2>2. ~Has(trunkQ, "disconnect") /\ running
      BY <1>3, <2>1 DEF Told
    <2>3. CASE connected \/ posted
      <3>1. trunkQ' = Append(trunkQ, "disconnect")
        BY <1>14, <2>3 DEF OnIsolatedError, OnLowLevelDisconnect, AddCb
      <3>2. /\ Ordered(trunkQ', connected)
            /\ Told("none", FALSE, trunkQ', connected)
        BY <1>3, <1>4, <2>2, <3>1, RoundDisconnect
      <3>3. QED
        BY <2>1, <2>2, <3>2 DEF Told
    <2>4. CASE ~connected /\ ~posted
      <3>1. UNCHANGED trunkQ
        BY <1>14, <2>4 DEF OnIsolatedError, OnLowLevelDisconnect
      <3>2. ~Has(trunkQ, "connect")
        <4>1. ASSUME NEW i \in 1..Len(trunkQ), trunkQ[i] = "connect"
              PROVE  FALSE
          <5>1. PICK j \in i..Len(trunkQ) : trunkQ[j] = "disconnect"
            BY <2>4, <4>1 DEF Pending, NoStray, Followed
          <5>2. j \in 1..Len(trunkQ)
            BY <1>4
          <5>3. QED
            BY <2>2, <5>1, <5>2 DEF Has
        <4>2. QED
          BY <4>1 DEF Has
      <3>3. QED
        BY <1>3, <2>1, <2>2, <2>4, <3>1, <3>2 DEF Told
    <2>5. QED
      BY <2>3, <2>4
  <1>15. CASE ErrorAfterDispose
    BY <1>2, <1>15 DEF ErrorAfterDispose, Tasks, Stopped
  <1>16. CASE Reconnect
    <2>1. /\ trunkQ = <<>> /\ UNCHANGED <<trunkQ, connected, later>>
          /\ running' /\ task' = IF flushed THEN "connecting" ELSE task
      BY <1>16 DEF Reconnect
    <2>2. CASE ~flushed
      BY <1>6, <2>1, <2>2
    <2>3. CASE flushed
      <3>1. task = "none" /\ ~later
        BY <1>2, <2>3 DEF Tasks, Stopped
      <3>2. ~Has(trunkQ, "disconnect")
        BY <2>1 DEF Has
      <3>3. ~connected
        BY <1>3, <3>1, <3>2 DEF Told
      <3>4. QED
        BY <1>3, <2>1, <2>3, <3>1, <3>3 DEF Told
    <2>4. QED
      BY <2>2, <2>3 DEF Types
  <1>17. CASE OnConnect \/ OnDisconnect \/ OnInnerPacket
    <2>1. /\ trunkQ # <<>> /\ trunkQ' = Tail(trunkQ)
          /\ UNCHANGED <<running, task, later>>
      BY <1>17 DEF OnConnect, OnDisconnect, OnInnerPacket, NextCallback
    <2>2. running
      BY <1>3, <2>1
    <2>3. /\ Head(trunkQ) = "connect" => connected'
          /\ Head(trunkQ) = "disconnect" => ~connected'
          /\ Head(trunkQ) = "packet" => (connected' <=> connected)
      <3>1. CASE OnConnect
        BY <2>2, <3>1, Zenon DEF OnConnect, NextCallback
      <3>2. CASE OnDisconnect
        BY <3>2, Zenon DEF OnDisconnect, NextCallback
      <3>3. CASE OnInnerPacket
        BY <3>3, Zenon DEF OnInnerPacket, NextCallback
      <3>4. QED
        BY <1>17, <3>1, <3>2, <3>3
    <2>4. connected' \in BOOLEAN
      BY TypesStep DEF Types
    <2>5. /\ Ordered(trunkQ', connected')
          /\ Told(task, later, trunkQ', connected')
      BY <1>3, <1>4, <2>1, <2>3, <2>4, RoundTail
    <2>6. QED
      BY <2>1, <2>2, <2>5
  <1>18. CASE UNCHANGED vars
    BY <1>6, <1>18 DEF vars, flags
  <1>19. QED
    BY <1>7, <1>8, <1>9, <1>10, <1>11, <1>12, <1>13, <1>14, <1>15, <1>16,
       <1>17, <1>18
    DEF Next, MainStep, WorkerStep, NetworkStep

LEMMA RoundInit == ASSUME Init PROVE Rest /\ Released /\ Down /\ Round
  <1>1. Rest
    <2>1. 0 \in 0..MaxCalls /\ 0 \in 0..MaxRecvs /\ 0 \in 0..MaxFailures
      BY BoundsAssumption
    <2>2. QED
      BY <2>1 DEF Init, Rest, Task, MainPc, WorkPc
  <1>2. Released
    BY DEF Init, Released
  <1>6. Down
    BY DEF Init, Down
  <1>3. ~Has(trunkQ, "connect") /\ Ordered(trunkQ, connected)
    BY DEF Init, Has, Ordered
  <1>4. Round
    BY <1>3 DEF Init, Round, Told
  <1>5. QED
    BY <1>1, <1>2, <1>4, <1>6

-----------------------------------------------------------------------------
(* Theorems.                                                               *)

\* The inductive invariant holds in every reachable state.
THEOREM Inductive == Spec => []IInv
  <1>1. Init => IInv
    BY TypesInit, FreshInit, TasksInit, PendingInit, RoundInit DEF IInv
  <1>2. IInv /\ [Next]_vars => IInv'
    BY TypesStep, FreshStep, TasksStep, PendingStep, RestStep, ReleasedStep,
       DownStep, RoundStep DEF IInv
  <1>3. QED
    BY <1>1, <1>2, PTL DEF Spec

\* A running connection always has a socket, an attempt, a failure to handle
\* or a delay that will bring it back.
THEOREM NeverStuck == Spec => []AlwaysTrying
  <1>1. IInv => AlwaysTrying
    BY DEF IInv
  <1>2. QED
    BY Inductive, <1>1, PTL

\* No disconnect is lost: an application that believes to be connected is, or
\* will be told.
THEOREM DisconnectReported == Spec => []ConnectedIsTrue
  <1>1. IInv => ConnectedIsTrue
    BY DEF IInv
  <1>2. QED
    BY Inductive, <1>1, PTL

\* Every variable keeps its type, and no task outlives _thr_tasks.
THEOREM TypesKept == Spec => []TypeOK
  <1>1. IInv => TypeOK
    BY DEF IInv, Types, Rest, Tasks, TypeOK
  <1>2. QED
    BY Inductive, <1>1, PTL

\* RecyclerPop lets go of no connection that is still used, and the one it
\* waits for is disposed and flushed as soon as the commands are drained.
THEOREM ReleaseIsServed == Spec => []RecyclerIsServed
  <1>1. ASSUME IInv, mpc \in {"down", "released"}, workQ = <<>>
        PROVE  disposed /\ flushed /\ task = "none" /\ ~timer
    <2>1. disposed
      BY <1>1 DEF IInv, Released, Down, Stopped
    <2>2. ~owned
      BY <1>1, <2>1 DEF IInv, Released
    <2>3. QED
      BY <1>1, <2>1, <2>2 DEF IInv, Tasks
  <1>2. IInv => (mpc = "released" => workQ = <<>>)
    BY DEF IInv, Released
  <1>3. IInv => RecyclerIsServed
    BY <1>1, <1>2 DEF RecyclerIsServed
  <1>4. QED
    BY Inductive, <1>3, PTL

\* What an unstopped connection in use knows.
LEMMA RoundFacts ==
    ASSUME Round, Wanted, ~late
    PROVE  /\ Ordered(trunkQ, connected)
           /\ Told(task, later, trunkQ, connected)
  BY DEF Round, Wanted, Stopped

\* As long as the main thread runs its callbacks before a delay expires, the
\* application knows of every socket that is up.
THEOREM BothAgree == Spec => []FrontAgrees
  <1>1. IInv => FrontAgrees
    <2>1. SUFFICES ASSUME Round, Wanted, task = "reading", trunkQ = <<>>, ~late
                   PROVE  connected
      BY DEF IInv, FrontAgrees
    <2>2. ~Has(trunkQ, "connect")
      BY <2>1 DEF Has
    <2>3. QED
      BY <2>1, <2>2, RoundFacts DEF Told
  <1>2. QED
    BY Inductive, <1>1, PTL

\* And it gets packets only while it is connected.
THEOREM PacketsInOrder == Spec => PacketWhileConnected
  <1> DEFINE A == Wanted /\ ~late /\ Len(trunkQ') < Len(trunkQ)
                    /\ Head(trunkQ) = "packet" => connected
  <1>1. ASSUME IInv, [Next]_vars PROVE [A]_vars
    <2>1. SUFFICES ASSUME Wanted, ~late, Len(trunkQ') < Len(trunkQ),
                          Head(trunkQ) = "packet"
                   PROVE  connected
      OBVIOUS
    <2>2. trunkQ \in Seq(Callback)
      BY <1>1 DEF IInv, Types
    <2>3. trunkQ # <<>>
      <3>1. trunkQ' \in Seq(Callback)
        BY <1>1, <2>2, TrunkTypes
      <3>2. QED
        BY <2>1, <3>1
    <2>4. /\ Ordered(trunkQ, connected)
          /\ Told(task, later, trunkQ, connected)
      BY <1>1, <2>1, RoundFacts DEF IInv
    <2>5. connected \in BOOLEAN /\ later \in BOOLEAN
      BY <1>1 DEF IInv, Types
    <2>6. QED
      BY <2>1, <2>2, <2>3, <2>4, <2>5, RoundTail
  <1>2. QED
    BY Inductive, <1>1, PTL DEF Spec, PacketWhileConnected

=============================================================================
