--------------------------- MODULE KjFactoryQueues ---------------------------
(***************************************************************************)
(* Induction steps about the containers of the connection manager, the     *)
(* counters of commands and callbacks, and what the trunk queue promises.  *)
(* First the frames (which actions change what), then one lemma per        *)
(* conjunct of IInv, with one step per action that can disturb it.         *)
(***************************************************************************)
EXTENDS KjFactoryTypes

-----------------------------------------------------------------------------
(* Frames.                                                                 *)

\* What changes the life of a client and the containers of the manager.
LEMMA ManagerFrame ==
    ASSUME [Next]_vars
    PROVE  \/ UNCHANGED <<life, clients, clientCount, recycler, safe>>
           \/ \E c \in Conns :
                 \/ Disconnect(c) \/ OnAcceptClient(c) \/ OnDisconnectCb(c)
                 \/ ReleaseClient(c) \/ AcceptStream(c)
           \/ RecyclerPopSecond \/ SafeRelease
  <1>1. CASE MainStep
    BY <1>1 DEF MainStep, OpenAnswered, IgnoreAccept, OnPacketCb,
           CallbackOnReleased, RunOnceEnd, RecyclerPopFirst, CloseAnswered,
           ReleaseEnd, Finish, Stop, NextCallback, objVars, countVars,
           mgrVars, serverVars, queueVars, mainVars, workVars
  <1>2. CASE MainChoice
    BY <1>2 DEF MainChoice, OpenTcpServer, SendPacket, StartRunOnce,
           StartRecycle, CloseTcpServer, objVars, countVars, mgrVars,
           serverVars, queueVars, mainVars, workVars
  <1>3. CASE WorkerStep
    BY <1>3 DEF WorkerStep, OnDisposeClient, LaterOnReleased, WorkerQuit,
           StartDrain, DrainEnd, ExecOpen, ExecClose, ExecDispose, ExecPost,
           ExecFlush, ExecConfirm, DisposeDownStream, CloseEnd, ResultCb,
           Dequeue, objVars, countVars, mgrVars, serverVars, queueVars,
           mainVars
  <1>4. CASE NetworkStep
    BY <1>4 DEF NetworkStep, AcceptLoopFailed, ListenThrows, OnGotPacket,
           TaskFailed, objVars, countVars, mgrVars, serverVars, queueVars,
           mainVars, workVars
  <1>5. CASE UNCHANGED vars
    BY <1>5 DEF vars, objVars, countVars, mgrVars, serverVars, queueVars,
           mainVars, workVars
  <1>6. QED
    BY <1>1, <1>2, <1>3, <1>4, <1>5 DEF Next, Ended

\* What changes the work queue, the command executed and their counters.
LEMMA WorkQueueFrame ==
    ASSUME [Next]_vars
    PROVE  \/ UNCHANGED <<workQ, wcmd, frontProduce, backConsume>>
           \/ \E c \in Conns :
                 \/ SendPacket(c) \/ Disconnect(c) \/ OnAcceptClient(c)
                 \/ IgnoreAccept(c) \/ OnDisconnectCb(c) \/ ReleaseClient(c)
           \/ OpenTcpServer \/ CloseTcpServer \/ ExecOpen \/ ExecClose
           \/ ExecDispose \/ ExecPost \/ ExecFlush \/ ExecConfirm \/ ResultCb
  <1>1. CASE MainStep
    BY <1>1 DEF MainStep, OpenAnswered, OnPacketCb, CallbackOnReleased,
           RunOnceEnd, RecyclerPopFirst, RecyclerPopSecond, SafeRelease,
           CloseAnswered, ReleaseEnd, Finish, Stop, NextCallback, objVars,
           countVars, mgrVars, serverVars, queueVars, mainVars, workVars
  <1>2. CASE MainChoice
    BY <1>2 DEF MainChoice, StartRunOnce, StartRecycle, objVars, countVars,
           mgrVars, serverVars, queueVars, workVars
  <1>3. CASE WorkerStep
    BY <1>3 DEF WorkerStep, OnDisposeClient, LaterOnReleased, WorkerQuit,
           StartDrain, DrainEnd, DisposeDownStream, CloseEnd, objVars,
           countVars, mgrVars, serverVars, queueVars, mainVars
  <1>4. CASE NetworkStep
    BY <1>4 DEF NetworkStep, AcceptStream, AcceptLoopFailed, ListenThrows,
           OnGotPacket, TaskFailed, objVars, countVars, mgrVars, serverVars,
           queueVars, mainVars, workVars
  <1>5. CASE UNCHANGED vars
    BY <1>5 DEF vars, objVars, countVars, mgrVars, serverVars, queueVars,
           mainVars, workVars
  <1>6. QED
    BY <1>1, <1>2, <1>3, <1>4, <1>5 DEF Next, Ended

\* What changes the trunk queue and its counters.
LEMMA TrunkQueueFrame ==
    ASSUME [Next]_vars
    PROVE  \/ UNCHANGED <<trunkQ, backProduce, frontConsume>>
           \/ \E c \in Conns :
                 \/ OnAcceptClient(c) \/ IgnoreAccept(c) \/ OnDisconnectCb(c)
                 \/ OnPacketCb(c) \/ CallbackOnReleased(c) \/ AcceptStream(c)
                 \/ OnGotPacket(c) \/ OnDisposeClient(c) \/ LaterOnReleased(c)
                 \/ DisposeDownStream(c)
  <1>1. CASE MainStep
    BY <1>1 DEF MainStep, OpenAnswered, RunOnceEnd, RecyclerPopFirst,
           RecyclerPopSecond, SafeRelease, CloseAnswered, ReleaseClient,
           ReleaseEnd, Finish, Stop, OnRemoveClient, objVars, countVars,
           mgrVars, serverVars, queueVars, mainVars, workVars
  <1>2. CASE MainChoice
    BY <1>2 DEF MainChoice, OpenTcpServer, SendPacket, Disconnect,
           StartRunOnce, StartRecycle, CloseTcpServer, OnDisconnect,
           OnRemoveClient, objVars, countVars, mgrVars, serverVars,
           queueVars, mainVars, workVars
  <1>3. CASE WorkerStep
    BY <1>3 DEF WorkerStep, WorkerQuit, StartDrain, DrainEnd, ExecOpen,
           ExecClose, ExecDispose, ExecPost, ExecFlush, ExecConfirm,
           CloseEnd, ResultCb, Dequeue, objVars, countVars, mgrVars,
           serverVars, queueVars, mainVars
  <1>4. CASE NetworkStep
    BY <1>4 DEF NetworkStep, AcceptLoopFailed, ListenThrows, TaskFailed,
           objVars, countVars, mgrVars, serverVars, queueVars, mainVars,
           workVars
  <1>5. CASE UNCHANGED vars
    BY <1>5 DEF vars, objVars, countVars, mgrVars, serverVars, queueVars,
           mainVars, workVars
  <1>6. QED
    BY <1>1, <1>2, <1>3, <1>4, <1>5 DEF Next, Ended

\* What changes the streams and the flags of the worker.
LEMMA StreamFrame ==
    ASSUME [Next]_vars
    PROVE  \/ UNCHANGED <<disposed, flushed, owned, reading, later, streamDict>>
           \/ \E c \in Conns :
                 \/ AcceptStream(c) \/ TaskFailed(c) \/ OnDisposeClient(c)
                 \/ LaterOnReleased(c) \/ DisposeDownStream(c)
           \/ ExecClose \/ ExecDispose \/ ExecFlush \/ ExecConfirm
  <1>1. CASE MainStep
    BY <1>1, ZenonT(30) DEF MainStep, OpenAnswered, OnAcceptClient, IgnoreAccept,
           OnDisconnectCb, OnPacketCb, CallbackOnReleased, RunOnceEnd,
           RecyclerPopFirst, RecyclerPopSecond, SafeRelease, CloseAnswered,
           ReleaseClient, ReleaseEnd, Finish, Stop, OnConnect, OnDisconnect,
           OnAddClient, OnRemoveClient, NextCallback, objVars, countVars,
           mgrVars, serverVars, queueVars, mainVars, workVars
  <1>2. CASE MainChoice
    BY <1>2 DEF MainChoice, OpenTcpServer, SendPacket, Disconnect,
           StartRunOnce, StartRecycle, CloseTcpServer, OnDisconnect,
           OnRemoveClient, objVars, countVars, mgrVars, serverVars,
           queueVars, mainVars, workVars
  <1>3. CASE WorkerStep
    BY <1>3 DEF WorkerStep, WorkerQuit, StartDrain, DrainEnd, ExecOpen,
           ExecPost, CloseEnd, ResultCb, Dequeue, objVars, countVars,
           mgrVars, serverVars, queueVars, mainVars
  <1>4. CASE NetworkStep
    BY <1>4 DEF NetworkStep, AcceptLoopFailed, ListenThrows, OnGotPacket,
           objVars, countVars, mgrVars, serverVars, queueVars, mainVars,
           workVars
  <1>5. CASE UNCHANGED vars
    BY <1>5 DEF vars, objVars, countVars, mgrVars, serverVars, queueVars,
           mainVars, workVars
  <1>6. QED
    BY <1>1, <1>2, <1>3, <1>4, <1>5 DEF Next, Ended

-----------------------------------------------------------------------------
(* Parts of the type invariant.                                            *)

\* The queues hold commands and callbacks.
LEMMA QueueTypes ==
    ASSUME TypeOK
    PROVE  /\ workQ \in Seq(Cmd) /\ trunkQ \in Seq(Callback)
           /\ \A i \in 1..Len(workQ) : workQ[i] \in Cmd
           /\ \A i \in 1..Len(trunkQ) : trunkQ[i] \in Callback
  BY DEF TypeOK

\* The counters are functions to numbers.
LEMMA CounterTypes ==
    ASSUME TypeOK
    PROVE  /\ frontProduce \in [Conns -> Nat] /\ backConsume \in [Conns -> Nat]
           /\ backProduce \in [Conns -> Nat] /\ frontConsume \in [Conns -> Nat]
  BY DEF TypeOK

\* The lives and the containers of clients.
LEMMA LifeTypes ==
    ASSUME TypeOK
    PROVE  /\ life \in [Conns -> Life]
           /\ clients \in SUBSET Conns /\ recycler \in SUBSET Conns
           /\ safe \in SUBSET Conns
  BY DEF TypeOK

-----------------------------------------------------------------------------
(* One owner per client.                                                   *)

\* An accept callback about c: c has no client yet.
LEMMA AcceptedIsOffered ==
    ASSUME TypeOK, AcceptIsFresh, NEW c \in Conns, OnAcceptClient(c)
    PROVE  life[c] = "offered"
  <1>1. NextCallback([type |-> "accept", conn |-> c])
    BY DEF OnAcceptClient
  <1>2. [type |-> "accept", conn |-> c] = trunkQ[1] /\ 1 \in 1..Len(trunkQ)
    BY <1>1, NextCallbackType, QueueTypes
  <1>3. QED
    BY <1>2 DEF AcceptIsFresh

\* OnRemoveClient moves a client from the map to the recycler.
LEMMA RemoveOwner ==
    ASSUME TypeOK, OneOwner, ClientCountMatches, NEW c \in Conns,
           OnRemoveClient(c), UNCHANGED <<life, safe>>
    PROVE  OneOwner' /\ ClientCountMatches'
  <1>1. CASE c \in clients
    <2>1. /\ clients' = clients \ {c} /\ recycler' = recycler \cup {c}
          /\ clientCount' = clientCount - 1
      BY <1>1 DEF OnRemoveClient
    <2>2. OneOwner'
      BY <1>1, <2>1, LifeTypes DEF OneOwner
    <2>3. IsFiniteSet(clients)
      BY ConnsAssumption, FS_Subset, LifeTypes
    <2>4. Cardinality(clients \ {c}) = Cardinality(clients) - 1
      BY <1>1, <2>3, FS_RemoveElement
    <2>5. QED
      BY <2>1, <2>2, <2>4 DEF ClientCountMatches
  <1>2. CASE c \notin clients
    BY <1>2 DEF OnRemoveClient, OneOwner, ClientCountMatches
  <1>3. QED
    BY <1>1, <1>2

\* No step breaks OneOwner or the count of clients.
LEMMA OwnerStep ==
    ASSUME TypeOK, OneOwner, ClientCountMatches, AcceptIsFresh,
           WalkInRecycler, [Next]_vars
    PROVE  OneOwner' /\ ClientCountMatches'
  <1>1. CASE UNCHANGED <<life, clients, clientCount, recycler, safe>>
    BY <1>1 DEF OneOwner, ClientCountMatches
  <1>2. ASSUME NEW c \in Conns, Disconnect(c) \/ OnDisconnectCb(c)
                                  \/ ReleaseClient(c)
        PROVE  OneOwner' /\ ClientCountMatches'
    <2>1. OnRemoveClient(c) /\ UNCHANGED <<life, safe>>
      BY <1>2 DEF Disconnect, OnDisconnectCb, ReleaseClient, NextCallback,
                  objVars
    <2>2. QED
      BY <2>1, RemoveOwner
  <1>3. ASSUME NEW c \in Conns, OnAcceptClient(c)
        PROVE  OneOwner' /\ ClientCountMatches'
    <2>1. life[c] = "offered"
      BY <1>3, AcceptedIsOffered
    <2>2. c \notin clients /\ c \notin recycler /\ c \notin safe
      BY <2>1 DEF OneOwner
    <2>3. /\ life' = [life EXCEPT ![c] = "live"]
          /\ clients' = clients \cup {c} /\ clientCount' = clientCount + 1
          /\ UNCHANGED <<recycler, safe>>
      BY <1>3 DEF OnAcceptClient, OnAddClient, NextCallback
    <2>4. OneOwner'
      BY <2>2, <2>3, LifeTypes DEF OneOwner
    <2>5. IsFiniteSet(clients)
      BY ConnsAssumption, FS_Subset, LifeTypes
    <2>6. Cardinality(clients \cup {c}) = Cardinality(clients) + 1
      BY <2>2, <2>5, FS_AddElement
    <2>7. QED
      BY <2>3, <2>4, <2>6 DEF ClientCountMatches
  <1>4. ASSUME NEW c \in Conns, AcceptStream(c)
        PROVE  OneOwner' /\ ClientCountMatches'
    BY <1>4, LifeTypes DEF AcceptStream, mgrVars, OneOwner, ClientCountMatches
  <1>5. CASE RecyclerPopSecond
    <2>1. cur \in recycler /\ recycler \in SUBSET Conns
      BY <1>5, LifeTypes DEF RecyclerPopSecond, WalkInRecycler
    <2>2. UNCHANGED <<life, clients, clientCount>>
      BY <1>5 DEF RecyclerPopSecond, objVars
    <2>3. \/ safe' = safe \cup {cur} /\ recycler' = recycler \ {cur}
          \/ UNCHANGED <<safe, recycler>>
      BY <1>5 DEF RecyclerPopSecond
    <2>4. QED
      BY <2>1, <2>2, <2>3 DEF OneOwner, ClientCountMatches
  <1>6. CASE SafeRelease
    <2>1. /\ life' = [c \in Conns |-> IF c \in safe THEN "released"
                                                    ELSE life[c]]
          /\ safe' = {} /\ UNCHANGED <<clients, clientCount, recycler>>
      BY <1>6 DEF SafeRelease
    <2>2. QED
      BY <2>1, LifeTypes DEF OneOwner, ClientCountMatches
  <1>7. QED
    BY <1>1, <1>2, <1>3, <1>4, <1>5, <1>6, ManagerFrame

-----------------------------------------------------------------------------
(* The counters of commands.                                               *)

\* Counting, connection by connection.
LEMMA IncrAll ==
    ASSUME NEW f \in [Conns -> Nat], NEW c \in Conns, NEW d \in Conns
    PROVE  Incr(f, c)[d] = f[d] + (IF c = d THEN 1 ELSE 0)
  <1>1. f[d] \in Nat
    OBVIOUS
  <1>2. CASE c = d
    BY <1>2, IncrFacts
  <1>3. CASE c # d
    BY <1>1, <1>3, IncrFacts
  <1>4. QED
    BY <1>2, <1>3

\* The counters are numbers.
LEMMA CountersNat ==
    ASSUME TypeOK, NEW d \in Conns
    PROVE  /\ frontProduce[d] \in Nat /\ backConsume[d] \in Nat
           /\ backProduce[d] \in Nat /\ frontConsume[d] \in Nat
           /\ Cardinality(CmdsOf(d)) \in Nat /\ Cardinality(CbsOf(d)) \in Nat
           /\ Executing(d) \in Nat
  <1>1. workQ \in Seq(Cmd) /\ trunkQ \in Seq(Callback)
    BY DEF TypeOK
  <1>2. Cardinality(CmdsOf(d)) \in Nat /\ Cardinality(CbsOf(d)) \in Nat
    BY <1>1, MatchingFinite DEF CmdsOf, CbsOf
  <1>3. Executing(d) \in Nat
    BY DEF Executing
  <1>4. /\ frontProduce[d] \in Nat /\ backConsume[d] \in Nat
        /\ backProduce[d] \in Nat /\ frontConsume[d] \in Nat
    BY DEF TypeOK
  <1>5. QED
    BY <1>2, <1>3, <1>4

\* A counted command is committed.
LEMMA PostAccounting ==
    ASSUME TypeOK, CommandAccounting, NEW c \in Conns, NEW type \in ClientCmd,
           CommitFor(c, type), UNCHANGED <<backConsume, wcmd>>
    PROVE  CommandAccounting'
  <1> DEFINE e == [type |-> type, conn |-> c]
  <1>1. e \in Cmd /\ workQ' = Append(workQ, e) /\ workQ \in Seq(Cmd)
    BY CommitType, QueueTypes DEF CommitFor, Commit
  <1>2. \A d \in Conns : Cardinality(CmdsOf(d)') = Cardinality(CmdsOf(d))
                             + (IF c = d THEN 1 ELSE 0)
    BY <1>1, MatchingAppend DEF CmdsOf
  <1>3. \A d \in Conns : frontProduce'[d] = frontProduce[d]
                             + (IF c = d THEN 1 ELSE 0)
    BY IncrAll, CounterTypes DEF CommitFor
  <1>4. \A d \in Conns : Executing(d)' = Executing(d)
    BY DEF Executing
  <1>5. ASSUME NEW d \in Conns
        PROVE  frontProduce'[d] = backConsume'[d] + Cardinality(CmdsOf(d)')
                                    + Executing(d)'
    <2>1. frontProduce[d] = backConsume[d] + Cardinality(CmdsOf(d))
                              + Executing(d)
      BY DEF CommandAccounting
    <2>2. QED
      BY <1>2, <1>3, <1>4, <2>1, CountersNat
  <1>6. QED
    BY <1>5 DEF CommandAccounting

\* A command that is not counted is committed.
LEMMA CommitAccounting ==
    ASSUME TypeOK, CommandAccounting, NEW c, NEW type,
           [type |-> type, conn |-> c] \in Cmd, type \notin ClientCmd,
           Commit(type, c), UNCHANGED <<frontProduce, backConsume, wcmd>>
    PROVE  CommandAccounting'
  <1> DEFINE e == [type |-> type, conn |-> c]
  <1>1. workQ' = Append(workQ, e) /\ workQ \in Seq(Cmd)
    BY QueueTypes DEF Commit
  <1>2. \A d \in Conns : Cardinality(CmdsOf(d)) \in Nat
    BY MatchingFinite, QueueTypes DEF CmdsOf
  <1>3. \A d \in Conns : Cardinality(CmdsOf(d)') = Cardinality(CmdsOf(d)) + 0
    BY <1>1, MatchingAppend DEF CmdsOf
  <1>4. \A d \in Conns : Executing(d)' = Executing(d)
    BY DEF Executing
  <1>5. QED
    BY <1>2, <1>3, <1>4 DEF CommandAccounting

\* A command goes from the queue to the worker's hands.
LEMMA DequeueAccounting ==
    ASSUME TypeOK, CommandAccounting, Blocking, NEW type, Dequeue(type)
    PROVE  CommandAccounting'
  <1>1. wcmd = NoCmd /\ UNCHANGED <<frontProduce, backConsume>>
    BY DEF Blocking, Dequeue, countVars
  <1>2. \A d \in Conns : Executing(d) = 0
    BY <1>1, ConnsAssumption DEF Executing, NoCmd
  <1>3. workQ \in Seq(Cmd) /\ workQ # <<>> /\ workQ' = Tail(workQ)
          /\ wcmd' = Head(workQ)
    BY QueueTypes DEF Dequeue
  <1>4. \A d \in Conns : Cardinality(CmdsOf(d)) = Cardinality(CmdsOf(d)')
            + (IF Head(workQ).conn = d /\ Head(workQ).type \in ClientCmd
               THEN 1 ELSE 0)
    BY <1>3, MatchingTail, SMTT(30) DEF CmdsOf
  <1>5. \A d \in Conns : Executing(d)' =
            IF Head(workQ).conn = d /\ Head(workQ).type \in ClientCmd
            THEN 1 ELSE 0
    BY <1>3 DEF Executing
  <1>6. \A d \in Conns : Cardinality(CmdsOf(d)) = Cardinality(CmdsOf(d)')
                                                    + Executing(d)'
    BY <1>4, <1>5
  <1>7. Tail(workQ) \in Seq(Cmd)
    BY <1>3, TailFacts
  <1>8. \A d \in Conns : Cardinality(CmdsOf(d)') \in Nat
    BY <1>3, <1>7, MatchingFinite DEF CmdsOf
  <1>9. \A d \in Conns : Executing(d)' \in Nat
    BY <1>5
  <1>10. QED
    BY <1>1, <1>2, <1>6, <1>8, <1>9, CounterTypes DEF CommandAccounting

\* No step breaks CommandAccounting.
LEMMA CommandStep ==
    ASSUME TypeOK, CommandAccounting, Blocking, [Next]_vars
    PROVE  CommandAccounting'
  <1>1. CASE UNCHANGED <<workQ, wcmd, frontProduce, backConsume>>
    BY <1>1 DEF CommandAccounting, CmdsOf, Matching, Executing
  <1>2. CASE OpenTcpServer \/ CloseTcpServer
    <2>1. PICK type \in BlockingCmd : BlockingCommit(type)
      BY <1>2 DEF OpenTcpServer, CloseTcpServer, BlockingCmd
    <2>2. UNCHANGED <<frontProduce, backConsume, wcmd>>
      BY <1>2 DEF OpenTcpServer, CloseTcpServer, countVars, workVars
    <2>3. [type |-> type, conn |-> NoConn] \in Cmd
      BY <2>1, BlockingCommitType, QueueTypes
    <2>4. type \notin ClientCmd /\ Commit(type, NoConn)
      BY <2>1 DEF BlockingCmd, ClientCmd, BlockingCommit
    <2>5. QED
      BY <2>2, <2>3, <2>4, CommitAccounting
  <1>3. ASSUME NEW c \in Conns, SendPacket(c) \/ OnAcceptClient(c)
        PROVE  CommandAccounting'
    <2>1. \E type \in ClientCmd : CommitFor(c, type)
      BY <1>3 DEF SendPacket, OnAcceptClient, ClientCmd
    <2>2. UNCHANGED <<backConsume, wcmd>>
      BY <1>3 DEF SendPacket, OnAcceptClient, NextCallback, workVars
    <2>3. QED
      BY <2>1, <2>2, PostAccounting
  <1>4. ASSUME NEW c \in Conns, Disconnect(c) \/ OnDisconnectCb(c)
                                  \/ ReleaseClient(c)
        PROVE  CommandAccounting'
    <2>1. OnRemoveClient(c) /\ UNCHANGED <<backConsume, wcmd>>
      BY <1>4 DEF Disconnect, OnDisconnectCb, ReleaseClient, NextCallback,
                  workVars
    <2>2. CASE c \in clients
      <3>1. CommitFor(c, "DISPOSE_CONNECTION")
        BY <2>1, <2>2 DEF OnRemoveClient
      <3>2. "DISPOSE_CONNECTION" \in ClientCmd
        BY DEF ClientCmd
      <3>3. QED
        BY <2>1, <3>1, <3>2, PostAccounting
    <2>3. CASE c \notin clients
      BY <1>1, <2>1, <2>3 DEF OnRemoveClient
    <2>4. QED
      BY <2>2, <2>3
  <1>5. ASSUME NEW c \in Conns, IgnoreAccept(c)
        PROVE  CommandAccounting'
    <2>1. /\ Commit("FLUSH_TCP_SERVER_DOWNSTREAM", c)
          /\ UNCHANGED <<frontProduce, backConsume, wcmd>>
      BY <1>5 DEF IgnoreAccept, NextCallback
    <2>2. [type |-> "FLUSH_TCP_SERVER_DOWNSTREAM", conn |-> c] \in Cmd
      BY <2>1, CommitType, QueueTypes
    <2>3. "FLUSH_TCP_SERVER_DOWNSTREAM" \notin ClientCmd
      BY DEF ClientCmd
    <2>4. QED
      BY <2>1, <2>2, <2>3, CommitAccounting
  <1>6. CASE ExecOpen \/ ExecClose \/ ExecDispose \/ ExecPost \/ ExecFlush
               \/ ExecConfirm
    <2>1. \E type \in {"OPEN_TCP_SERVER", "CLOSE_TCP_SERVER",
                       "DISPOSE_CONNECTION", "POST_PACKET",
                       "FLUSH_TCP_SERVER_DOWNSTREAM",
                       "CONFIRM_CLIENT_IS_READY"} : Dequeue(type)
      BY <1>6 DEF ExecOpen, ExecClose, ExecDispose, ExecPost, ExecFlush,
                  ExecConfirm
    <2>2. QED
      BY <2>1, DequeueAccounting
  <1>7. CASE ResultCb
    <2>1. wcmd' = NoCmd /\ UNCHANGED <<workQ, frontProduce>>
      BY <1>7 DEF ResultCb
    <2>2. \A d \in Conns : Executing(d)' = 0 /\ CmdsOf(d)' = CmdsOf(d)
      BY <2>1, ConnsAssumption DEF Executing, NoCmd, CmdsOf, Matching
    <2>4. CASE wcmd.type \in ClientCmd
      <3>1. wcmd \in Cmd
        BY <2>4 DEF TypeOK, NoCmd, ClientCmd
      <3>2. wcmd.conn \in Conns
        BY <2>4, <3>1, CommandFacts DEF ClientCmd, BlockingCmd
      <3>3. backConsume' = Incr(backConsume, wcmd.conn)
        BY <1>7, <2>4 DEF ResultCb
      <3>4. \A d \in Conns : backConsume'[d] = backConsume[d] + Executing(d)
        <4> SUFFICES ASSUME NEW d \in Conns
                     PROVE  backConsume'[d] = backConsume[d] + Executing(d)
          OBVIOUS
        <4>1. CASE d = wcmd.conn
          BY <2>4, <3>2, <3>3, <4>1, IncrFacts, CounterTypes DEF Executing
        <4>2. CASE d # wcmd.conn
          <5>1. Executing(d) = 0
            BY <4>2 DEF Executing
          <5>2. backConsume'[d] = backConsume[d] /\ backConsume[d] \in Nat
            BY <3>2, <3>3, <4>2, IncrFacts, CounterTypes
          <5>3. QED
            BY <5>1, <5>2
        <4>3. QED
          BY <4>1, <4>2
      <3>5. ASSUME NEW d \in Conns
            PROVE  frontProduce'[d] = backConsume'[d]
                     + Cardinality(CmdsOf(d)') + Executing(d)'
        <4>1. frontProduce[d] = backConsume[d] + Cardinality(CmdsOf(d))
                                  + Executing(d)
          BY DEF CommandAccounting
        <4>2. QED
          BY <2>1, <2>2, <3>4, <4>1, CountersNat
      <3>6. QED
        BY <3>5 DEF CommandAccounting
    <2>5. CASE wcmd.type \notin ClientCmd
      <3>1. backConsume' = backConsume
        BY <1>7, <2>5 DEF ResultCb
      <3>2. \A d \in Conns : Executing(d) = 0
        BY <2>5 DEF Executing
      <3>3. QED
        BY <2>1, <2>2, <3>1, <3>2 DEF CommandAccounting
    <2>6. QED
      BY <2>4, <2>5
  <1>8. QED
    BY <1>1, <1>2, <1>3, <1>4, <1>5, <1>6, <1>7, WorkQueueFrame

-----------------------------------------------------------------------------
(* Callbacks.                                                              *)

\* A callback is taken: what is counted, what stays.
LEMMA TakeCallback ==
    ASSUME TypeOK, NEW cb, NextCallback(cb), NEW d \in Conns
    PROVE  /\ Cardinality(CbsOf(d)) = Cardinality(CbsOf(d)')
                + (IF cb.conn = d /\ cb.type \in ClientCb THEN 1 ELSE 0)
           /\ Cardinality(CbsOf(d)') \in Nat
           /\ UNCHANGED backProduce
  <1>1. /\ trunkQ \in Seq(Callback) /\ trunkQ # <<>> /\ cb = Head(trunkQ)
        /\ trunkQ' = Tail(trunkQ) /\ UNCHANGED backProduce
    BY QueueTypes DEF NextCallback
  <1>2. Tail(trunkQ) \in Seq(Callback)
    BY <1>1, TailFacts
  <1>3. Cardinality(CbsOf(d)') \in Nat
    BY <1>1, <1>2, MatchingFinite DEF CbsOf
  <1>4. Cardinality(CbsOf(d)) = Cardinality(CbsOf(d)')
                + (IF cb.conn = d /\ cb.type \in ClientCb THEN 1 ELSE 0)
    BY <1>1, MatchingTail DEF CbsOf
  <1>5. QED
    BY <1>1, <1>3, <1>4

\* A callback is put: what is counted.
LEMMA PutCallback ==
    ASSUME TypeOK, NEW c \in Conns, NEW type \in ClientCb \cup {"accept"},
           trunkQ' = Append(trunkQ, [type |-> type, conn |-> c]),
           NEW d \in Conns
    PROVE  Cardinality(CbsOf(d)') = Cardinality(CbsOf(d))
                + (IF c = d /\ type \in ClientCb THEN 1 ELSE 0)
  <1>1. trunkQ \in Seq(Callback)
    BY QueueTypes
  <1>2. [type |-> type, conn |-> c] \in Callback
    BY <1>1, CallbackType
  <1>3. QED
    BY <1>1, <1>2, MatchingAppend DEF CbsOf

\* A released client stays released.
LEMMA ReleasedForEver ==
    ASSUME TypeOK, AcceptIsFresh, [Next]_vars, NEW d \in Conns,
           life[d] = "released"
    PROVE  life'[d] = "released"
  <1>1. CASE UNCHANGED life
    BY <1>1
  <1>2. ASSUME NEW c \in Conns, OnAcceptClient(c)
        PROVE  life'[d] = "released"
    <2>1. life[c] = "offered"
      BY <1>2, AcceptedIsOffered
    <2>2. life' = [life EXCEPT ![c] = "live"]
      BY <1>2 DEF OnAcceptClient
    <2>3. QED
      BY <2>1, <2>2, LifeTypes
  <1>3. ASSUME NEW c \in Conns, AcceptStream(c)
        PROVE  life'[d] = "released"
    BY <1>3, LifeTypes DEF AcceptStream
  <1>4. CASE SafeRelease
    BY <1>4 DEF SafeRelease
  <1>5. ASSUME NEW c \in Conns,
               Disconnect(c) \/ OnDisconnectCb(c) \/ ReleaseClient(c)
        PROVE  UNCHANGED life
    BY <1>5 DEF Disconnect, OnDisconnectCb, ReleaseClient, objVars
  <1>6. RecyclerPopSecond => UNCHANGED life
    BY DEF RecyclerPopSecond, objVars
  <1>7. QED
    BY <1>1, <1>2, <1>3, <1>4, <1>5, <1>6, ManagerFrame

\* No step breaks CallbackAccounting.
LEMMA CallbackStep ==
    ASSUME TypeOK, CallbackAccounting, AcceptIsFresh, [Next]_vars
    PROVE  CallbackAccounting'
  <1> SUFFICES ASSUME NEW d \in Conns, life'[d] # "released"
               PROVE  backProduce'[d] = frontConsume'[d]
                                          + Cardinality(CbsOf(d)')
    BY DEF CallbackAccounting
  <1>1. /\ life[d] # "released"
        /\ backProduce[d] = frontConsume[d] + Cardinality(CbsOf(d))
    BY ReleasedForEver DEF CallbackAccounting
  <1>2. /\ backProduce[d] \in Nat /\ frontConsume[d] \in Nat
        /\ Cardinality(CbsOf(d)) \in Nat
    BY CountersNat
  <1> DEFINE Goal == backProduce'[d] = frontConsume'[d]
                                         + Cardinality(CbsOf(d)')
  <1> HIDE DEF Goal
  <1>3. ASSUME UNCHANGED <<trunkQ, backProduce, frontConsume>>
        PROVE  Goal
    BY <1>1, <1>3 DEF Goal, CbsOf, Matching
  <1>4. ASSUME NEW c \in Conns, OnAcceptClient(c) \/ IgnoreAccept(c)
        PROVE  Goal
    <2>1. /\ NextCallback([type |-> "accept", conn |-> c])
          /\ UNCHANGED frontConsume
      BY <1>4 DEF OnAcceptClient, IgnoreAccept
    <2>2. /\ Cardinality(CbsOf(d)) = Cardinality(CbsOf(d)') + 0
          /\ Cardinality(CbsOf(d)') \in Nat /\ UNCHANGED backProduce
      BY <2>1, TakeCallback DEF ClientCb
    <2>3. QED
      BY ONLY <1>1, <2>1, <2>2 DEF Goal
  <1>5. ASSUME NEW c \in Conns, OnDisconnectCb(c) \/ OnPacketCb(c)
        PROVE  Goal
    <2>1. PICK type \in ClientCb : NextCallback([type |-> type, conn |-> c])
      BY <1>5 DEF OnDisconnectCb, OnPacketCb, ClientCb
    <2>2. frontConsume' = Incr(frontConsume, c)
      BY <1>5 DEF OnDisconnectCb, OnPacketCb
    <2>3. frontConsume'[d] = frontConsume[d] + (IF c = d THEN 1 ELSE 0)
      BY <2>2, IncrAll, CounterTypes
    <2>4. /\ Cardinality(CbsOf(d)) = Cardinality(CbsOf(d)')
                                       + (IF c = d THEN 1 ELSE 0)
          /\ Cardinality(CbsOf(d)') \in Nat /\ UNCHANGED backProduce
      BY <2>1, TakeCallback
    <2>5. CASE c = d
      BY ONLY <1>1, <1>2, <2>3, <2>4, <2>5 DEF Goal
    <2>6. CASE c # d
      BY ONLY <1>1, <1>2, <2>3, <2>4, <2>6 DEF Goal
    <2>7. QED
      BY <2>5, <2>6
  <1>6. ASSUME NEW c \in Conns, CallbackOnReleased(c)
        PROVE  Goal
    <2>1. PICK type \in ClientCb : NextCallback([type |-> type, conn |-> c])
      BY <1>6 DEF CallbackOnReleased
    <2>2. c # d /\ UNCHANGED frontConsume
      BY <1>1, <1>6 DEF CallbackOnReleased
    <2>3. /\ Cardinality(CbsOf(d)) = Cardinality(CbsOf(d)') + 0
          /\ Cardinality(CbsOf(d)') \in Nat /\ UNCHANGED backProduce
      BY <2>1, <2>2, TakeCallback
    <2>4. QED
      BY ONLY <1>1, <2>2, <2>3 DEF Goal
  <1>7. ASSUME NEW c \in Conns, AcceptStream(c)
        PROVE  Goal
    <2>1. /\ trunkQ' = Append(trunkQ, [type |-> "accept", conn |-> c])
          /\ UNCHANGED <<backProduce, frontConsume>>
      BY <1>7 DEF AcceptStream, countVars
    <2>2. Cardinality(CbsOf(d)') = Cardinality(CbsOf(d)) + 0
      <3>1. "accept" \notin ClientCb
        BY DEF ClientCb
      <3>2. QED
        BY <2>1, <3>1, <1>2, PutCallback, SMTT(20)
    <2>3. backProduce'[d] = backProduce[d] /\ frontConsume'[d] = frontConsume[d]
      BY <2>1
    <2>4. QED
      BY ONLY <1>1, <1>2, <2>2, <2>3, SMTT(30) DEF Goal
  <1>8. ASSUME NEW c \in Conns, OnGotPacket(c) \/ OnDisposeClient(c)
                                  \/ DisposeDownStream(c)
        PROVE  Goal
    <2>1. (\E type \in ClientCb : AddClientCb(c, type))
            /\ UNCHANGED frontConsume
      BY <1>8 DEF OnGotPacket, OnDisposeClient, DisposeDownStream, ClientCb
    <2>2. PICK type \in ClientCb : AddClientCb(c, type)
      BY <2>1
    <2>3. /\ trunkQ' = Append(trunkQ, [type |-> type, conn |-> c])
          /\ backProduce' = Incr(backProduce, c)
      BY <2>2 DEF AddClientCb
    <2>4. Cardinality(CbsOf(d)') = Cardinality(CbsOf(d))
                                     + (IF c = d THEN 1 ELSE 0)
      BY <2>3, PutCallback, SMTT(20)
    <2>5. backProduce'[d] = backProduce[d] + (IF c = d THEN 1 ELSE 0)
      BY <2>3, IncrAll, CounterTypes, ZenonT(30)
    <2>6. frontConsume'[d] = frontConsume[d]
      BY <2>1
    <2>7. CASE c = d
      BY ONLY <1>1, <1>2, <2>4, <2>5, <2>6, <2>7 DEF Goal
    <2>8. CASE c # d
      BY ONLY <1>1, <1>2, <2>4, <2>5, <2>6, <2>8 DEF Goal
    <2>9. QED
      BY <2>7, <2>8
  <1>9. ASSUME NEW c \in Conns, LaterOnReleased(c)
        PROVE  Goal
    <2>1. c # d /\ UNCHANGED <<backProduce, frontConsume>>
      BY <1>1, <1>9 DEF LaterOnReleased, countVars
    <2>2. CASE UNCHANGED trunkQ
      BY <1>3, <2>1, <2>2
    <2>3. CASE trunkQ' = Append(trunkQ, [type |-> "disconnect", conn |-> c])
      <3>1. Cardinality(CbsOf(d)') = Cardinality(CbsOf(d)) + 0
        BY <2>1, <2>3, PutCallback, ZenonT(30) DEF ClientCb
      <3>2. QED
        BY ONLY <1>1, <1>2, <2>1, <3>1 DEF Goal
    <2>4. QED
      BY <1>9, <2>2, <2>3 DEF LaterOnReleased
  <1>10. Goal
    BY <1>3, <1>4, <1>5, <1>6, <1>7, <1>8, <1>9, TrunkQueueFrame
  <1>11. QED
    BY <1>10 DEF Goal

\* Taking a callback keeps the accept callbacks apart.
LEMMA AcceptTake ==
    ASSUME TypeOK, AcceptIsFresh, NEW cb, NextCallback(cb),
           \A d \in Conns : life[d] = "offered" /\ [type |-> "accept",
                conn |-> d] # cb => life'[d] = "offered"
    PROVE  AcceptIsFresh'
  <1>1. /\ Len(trunkQ) \in Nat /\ Len(trunkQ) >= 1 /\ cb = trunkQ[1]
        /\ Len(trunkQ') = Len(trunkQ) - 1
        /\ \A i \in 1..(Len(trunkQ) - 1) : trunkQ'[i] = trunkQ[i + 1]
    BY NextCallbackType, QueueTypes
  <1>2. ASSUME NEW i \in 1..Len(trunkQ'), trunkQ'[i].type = "accept"
        PROVE  life'[trunkQ'[i].conn] = "offered"
    <2>1. i + 1 \in 1..Len(trunkQ) /\ trunkQ'[i] = trunkQ[i + 1]
            /\ 1 \in 1..Len(trunkQ) /\ i + 1 # 1
      BY <1>1
    <2>2. trunkQ[i + 1] \in Callback
      BY <2>1, QueueTypes
    <2>3. /\ trunkQ'[i].conn \in Conns
          /\ trunkQ'[i] = [type |-> "accept", conn |-> trunkQ'[i].conn]
      BY <1>2, <2>1, <2>2, CallbackFacts
    <2>4. life[trunkQ'[i].conn] = "offered" /\ trunkQ'[i] # cb
      BY <1>1, <1>2, <2>1 DEF AcceptIsFresh
    <2>5. QED
      BY <2>3, <2>4
  <1>3. ASSUME NEW i \in 1..Len(trunkQ'), NEW j \in 1..Len(trunkQ'),
               trunkQ'[i].type = "accept", trunkQ'[j] = trunkQ'[i]
        PROVE  i = j
    <2>1. /\ i + 1 \in 1..Len(trunkQ) /\ trunkQ'[i] = trunkQ[i + 1]
          /\ j + 1 \in 1..Len(trunkQ) /\ trunkQ'[j] = trunkQ[j + 1]
      BY <1>1, SMTT(30)
    <2>2. i + 1 = j + 1
      BY <1>3, <2>1 DEF AcceptIsFresh
    <2>3. QED
      BY <1>1, <2>2
  <1>4. QED
    BY <1>2, <1>3 DEF AcceptIsFresh

\* Putting a callback that is not an accept changes nothing of it.
LEMMA AcceptPut ==
    ASSUME TypeOK, AcceptIsFresh, UNCHANGED life, NEW c \in Conns,
           NEW type \in ClientCb,
           trunkQ' = Append(trunkQ, [type |-> type, conn |-> c])
    PROVE  AcceptIsFresh'
  <1>1. /\ Len(trunkQ') = Len(trunkQ) + 1 /\ Len(trunkQ) \in Nat
        /\ trunkQ'[Len(trunkQ) + 1] = [type |-> type, conn |-> c]
        /\ \A i \in 1..Len(trunkQ) : trunkQ'[i] = trunkQ[i]
    BY CallbackType, QueueTypes
  <1>2. type # "accept"
    BY DEF ClientCb
  <1>3. ASSUME NEW i \in 1..Len(trunkQ'), trunkQ'[i].type = "accept"
        PROVE  i \in 1..Len(trunkQ)
    <2>1. i # Len(trunkQ) + 1
      BY <1>1, <1>2, <1>3
    <2>2. QED
      BY <1>1, <2>1
  <1>4. QED
    BY <1>1, <1>3 DEF AcceptIsFresh

\* No step breaks AcceptIsFresh.
LEMMA AcceptStep ==
    ASSUME TypeOK, AcceptIsFresh, OneOwner, [Next]_vars
    PROVE  AcceptIsFresh'
  <1>1. CASE UNCHANGED <<trunkQ, life>>
    BY <1>1 DEF AcceptIsFresh
  <1>2. ASSUME NEW c \in Conns, OnAcceptClient(c)
        PROVE  AcceptIsFresh'
    <2>1. /\ NextCallback([type |-> "accept", conn |-> c])
          /\ life' = [life EXCEPT ![c] = "live"]
      BY <1>2 DEF OnAcceptClient
    <2>2. \A d \in Conns : d # c => life'[d] = life[d]
      BY <2>1, LifeTypes
    <2>3. QED
      BY <2>1, <2>2, AcceptTake
  <1>3. ASSUME NEW c \in Conns,
               IgnoreAccept(c) \/ OnDisconnectCb(c) \/ OnPacketCb(c)
                 \/ CallbackOnReleased(c)
        PROVE  AcceptIsFresh'
    <2>1. (\E cb : NextCallback(cb)) /\ UNCHANGED life
      BY <1>3 DEF IgnoreAccept, OnDisconnectCb, OnPacketCb,
                  CallbackOnReleased
    <2>2. QED
      BY <2>1, AcceptTake
  <1>4. ASSUME NEW c \in Conns, AcceptStream(c)
        PROVE  AcceptIsFresh'
    <2>1. /\ life[c] = "none" /\ life' = [life EXCEPT ![c] = "offered"]
          /\ trunkQ' = Append(trunkQ, [type |-> "accept", conn |-> c])
      BY <1>4 DEF AcceptStream
    <2>2. /\ Len(trunkQ') = Len(trunkQ) + 1 /\ Len(trunkQ) \in Nat
          /\ trunkQ'[Len(trunkQ) + 1] = [type |-> "accept", conn |-> c]
          /\ \A i \in 1..Len(trunkQ) : trunkQ'[i] = trunkQ[i]
      BY <2>1, CallbackType, QueueTypes
    <2>3. \A d \in Conns : life'[d] = IF d = c THEN "offered" ELSE life[d]
      BY <2>1, LifeTypes
    <2>4. \A i \in 1..Len(trunkQ) : trunkQ[i] \in Callback
      BY QueueTypes
    <2>5. \A i \in 1..Len(trunkQ) : trunkQ[i].conn \in Conns
      BY <2>4, CallbackFacts
    <2>6. \A i \in 1..Len(trunkQ) : trunkQ[i].type = "accept" =>
              trunkQ[i].conn # c
      BY <2>1 DEF AcceptIsFresh
    <2>7. QED
      BY <2>2, <2>3, <2>5, <2>6 DEF AcceptIsFresh
  <1>5. ASSUME NEW c \in Conns, OnGotPacket(c) \/ OnDisposeClient(c)
                                  \/ DisposeDownStream(c)
        PROVE  AcceptIsFresh'
    <2>1. (\E type \in ClientCb : AddClientCb(c, type)) /\ UNCHANGED life
      BY <1>5 DEF OnGotPacket, OnDisposeClient, DisposeDownStream, ClientCb,
                  objVars
    <2>2. QED
      BY <2>1, AcceptPut DEF AddClientCb
  <1>6. ASSUME NEW c \in Conns, LaterOnReleased(c)
        PROVE  AcceptIsFresh'
    <2>1. /\ UNCHANGED life
          /\ \/ UNCHANGED trunkQ
             \/ \E type \in ClientCb :
                    trunkQ' = Append(trunkQ, [type |-> type, conn |-> c])
      BY <1>6 DEF LaterOnReleased, objVars, ClientCb
    <2>2. QED
      BY <1>1, <2>1, AcceptPut
  <1>7. CASE SafeRelease
    <2>1. /\ life' = [c \in Conns |-> IF c \in safe THEN "released"
                                                    ELSE life[c]]
          /\ UNCHANGED trunkQ
      BY <1>7 DEF SafeRelease, queueVars
    <2>2. \A c \in Conns : life[c] = "offered" => life'[c] = "offered"
      BY <2>1 DEF OneOwner
    <2>3. \A i \in 1..Len(trunkQ) : trunkQ[i] \in Callback
      BY QueueTypes
    <2>4. \A i \in 1..Len(trunkQ) : trunkQ[i].conn \in Conns
      BY <2>3, CallbackFacts
    <2>5. QED
      BY <2>1, <2>2, <2>4 DEF AcceptIsFresh
  <1>8. ASSUME NEW c \in Conns, Disconnect(c) \/ ReleaseClient(c)
        PROVE  UNCHANGED <<trunkQ, life>>
    BY <1>8 DEF Disconnect, ReleaseClient, objVars
  <1>9. RecyclerPopSecond => UNCHANGED <<trunkQ, life>>
    BY DEF RecyclerPopSecond, objVars, queueVars
  <1>10. QED
    BY <1>1, <1>2, <1>3, <1>4, <1>5, <1>6, <1>7, <1>8, <1>9, ManagerFrame,
       TrunkQueueFrame

-----------------------------------------------------------------------------
(* A disposed client is reported.                                          *)

\* A disconnect callback stays until it is taken ...
LEMMA ReportingTake ==
    ASSUME TypeOK, NEW cb, NextCallback(cb), NEW d, Reporting(d),
           cb # [type |-> "disconnect", conn |-> d]
    PROVE  Reporting(d)'
  <1>1. /\ Len(trunkQ) \in Nat /\ Len(trunkQ) >= 1 /\ cb = trunkQ[1]
        /\ Len(trunkQ') = Len(trunkQ) - 1
        /\ \A i \in 1..(Len(trunkQ) - 1) : trunkQ'[i] = trunkQ[i + 1]
    BY NextCallbackType, QueueTypes
  <1>2. PICK i \in 1..Len(trunkQ) :
                 trunkQ[i] = [type |-> "disconnect", conn |-> d]
    BY DEF Reporting
  <1>3. i # 1
    BY <1>1, <1>2
  <1>4. i - 1 \in 1..Len(trunkQ') /\ trunkQ'[i - 1] = trunkQ[i]
    BY <1>1, <1>3
  <1>5. QED
    BY <1>2, <1>4 DEF Reporting

\* ... and when others are put.
LEMMA ReportingPut ==
    ASSUME TypeOK, NEW c \in Conns, NEW type \in ClientCb \cup {"accept"},
           trunkQ' = Append(trunkQ, [type |-> type, conn |-> c]), NEW d,
           Reporting(d) \/ (type = "disconnect" /\ d = c)
    PROVE  Reporting(d)'
  <1>1. /\ Len(trunkQ') = Len(trunkQ) + 1 /\ Len(trunkQ) \in Nat
        /\ trunkQ'[Len(trunkQ) + 1] = [type |-> type, conn |-> c]
        /\ \A i \in 1..Len(trunkQ) : trunkQ'[i] = trunkQ[i]
    BY CallbackType, QueueTypes
  <1>2. CASE Reporting(d)
    <2>1. PICK i \in 1..Len(trunkQ) :
                   trunkQ[i] = [type |-> "disconnect", conn |-> d]
      BY <1>2 DEF Reporting
    <2>2. i \in 1..Len(trunkQ')
      BY ONLY <1>1, <2>1
    <2>3. trunkQ'[i] = [type |-> "disconnect", conn |-> d]
      BY ONLY <1>1, <2>1, Zenon
    <2>4. QED
      BY ONLY <2>2, <2>3, Zenon DEF Reporting
  <1>3. CASE type = "disconnect" /\ d = c
    BY <1>1, <1>3 DEF Reporting
  <1>4. QED
    BY <1>2, <1>3

\* A command about a connection names one of Conns.
LEMMA QueuedConn ==
    ASSUME TypeOK, NEW i \in 1..Len(workQ)
    PROVE  /\ workQ[i] \in Cmd
           /\ workQ[i].type \notin BlockingCmd => workQ[i].conn \in Conns
  <1>1. workQ[i] \in Cmd
    BY QueueTypes
  <1>2. QED
    BY <1>1, CommandFacts

\* No step breaks DisposedIsReported.
LEMMA ReportStep ==
    ASSUME TypeOK, DisposedIsReported, AcceptIsFresh, FreshIsClean, OneOwner,
           DisposingIsRemoved, [Next]_vars
    PROVE  DisposedIsReported'
  <1> SUFFICES ASSUME NEW d \in Conns, d \in clients', d \in disposed'
               PROVE  Reporting(d)'
    <2>1. clients' \in SUBSET Conns
      BY TypeStep DEF TypeOK
    <2>2. QED
      BY <2>1 DEF DisposedIsReported, Reporting
  <1>1. d \in clients /\ d \in disposed => Reporting(d)
    BY DEF DisposedIsReported, Reporting
  <1>2. UNCHANGED trunkQ => (Reporting(d) => Reporting(d)')
    BY DEF Reporting
  <1>3. ASSUME NEW c \in Conns, OnAcceptClient(c)
        PROVE  Reporting(d)'
    <2>1. /\ NextCallback([type |-> "accept", conn |-> c])
          /\ clients' = clients \cup {c} /\ UNCHANGED disposed
      BY <1>3 DEF OnAcceptClient, OnAddClient, NextCallback
    <2>2. life[c] = "offered"
      BY <1>3, AcceptedIsOffered
    <2>3. c \notin disposed
      BY <2>2 DEF FreshIsClean
    <2>4. Reporting(d)
      BY <1>1, <2>1, <2>3
    <2>5. QED
      BY <2>1, <2>4, ReportingTake
  <1>4. ASSUME NEW c \in Conns,
               IgnoreAccept(c) \/ OnPacketCb(c) \/ CallbackOnReleased(c)
        PROVE  Reporting(d)'
    <2>1. \E type : /\ NextCallback([type |-> type, conn |-> c])
                    /\ type = "disconnect" => life[c] = "released"
                    /\ UNCHANGED clients
      BY <1>4 DEF IgnoreAccept, OnPacketCb, CallbackOnReleased
    <2>2. PICK type : /\ NextCallback([type |-> type, conn |-> c])
                      /\ type = "disconnect" => life[c] = "released"
                      /\ UNCHANGED clients
      BY <2>1
    <2>3. UNCHANGED disposed
      BY <2>2 DEF NextCallback
    <2>4. life[d] = "live" /\ Reporting(d)
      BY <1>1, <2>2, <2>3 DEF OneOwner
    <2>5. QED
      BY <2>2, <2>4, ReportingTake
  <1>5. ASSUME NEW c \in Conns, OnDisconnectCb(c)
        PROVE  Reporting(d)'
    <2>1. /\ NextCallback([type |-> "disconnect", conn |-> c])
          /\ clients' = clients \ {c} /\ UNCHANGED disposed
      <3>1. clients' = IF c \in clients THEN clients \ {c} ELSE clients
        BY <1>5 DEF OnDisconnectCb, OnRemoveClient
      <3>2. clients' = clients \ {c}
        BY <3>1
      <3>3. QED
        BY <1>5, <3>2 DEF OnDisconnectCb, NextCallback
    <2>2. d # c /\ Reporting(d)
      BY <1>1, <2>1
    <2>3. QED
      BY <2>1, <2>2, ReportingTake
  <1>6. ASSUME NEW c \in Conns, Disconnect(c) \/ ReleaseClient(c)
        PROVE  Reporting(d)'
    <2>1. clients' \subseteq clients /\ UNCHANGED <<disposed, trunkQ>>
      BY <1>6 DEF Disconnect, ReleaseClient, OnRemoveClient, objVars
    <2>2. QED
      BY <1>1, <1>2, <2>1
  <1>7. ASSUME NEW c \in Conns, AcceptStream(c) \/ OnGotPacket(c)
        PROVE  Reporting(d)'
    <2>1. /\ \E type \in ClientCb \cup {"accept"} :
                 trunkQ' = Append(trunkQ, [type |-> type, conn |-> c])
          /\ UNCHANGED <<clients, disposed>>
      BY <1>7 DEF AcceptStream, OnGotPacket, AddClientCb, ClientCb, objVars,
                  mgrVars
    <2>2. QED
      BY <1>1, <2>1, ReportingPut
  <1>8. ASSUME NEW c \in Conns, OnDisposeClient(c) \/ DisposeDownStream(c)
        PROVE  Reporting(d)'
    <2>1. /\ trunkQ' = Append(trunkQ, [type |-> "disconnect", conn |-> c])
          /\ UNCHANGED clients /\ DisposeConnection(c)
      BY <1>8 DEF OnDisposeClient, DisposeDownStream, AddClientCb, mgrVars
    <2>2. disposed' \subseteq disposed \cup {c}
      BY <2>1 DEF DisposeConnection
    <2>3. Reporting(d) \/ d = c
      BY <1>1, <2>1, <2>2
    <2>4. "disconnect" \in ClientCb
      BY DEF ClientCb
    <2>5. QED
      BY <2>1, <2>3, <2>4, ReportingPut
  <1>9. ASSUME NEW c \in Conns, LaterOnReleased(c)
        PROVE  Reporting(d)'
    <2>1. /\ UNCHANGED <<clients, disposed>>
          /\ \/ UNCHANGED trunkQ
             \/ trunkQ' = Append(trunkQ, [type |-> "disconnect", conn |-> c])
      BY <1>9 DEF LaterOnReleased, objVars, mgrVars
    <2>2. "disconnect" \in ClientCb
      BY DEF ClientCb
    <2>3. QED
      BY <1>1, <1>2, <2>1, <2>2, ReportingPut
  <1>10. ASSUME ExecDispose
         PROVE  Reporting(d)'
    <2>1. /\ UNCHANGED <<clients, trunkQ>> /\ DisposeConnection(workQ[1].conn)
          /\ workQ[1].type = "DISPOSE_CONNECTION" /\ 1 \in 1..Len(workQ)
      <3>1. /\ Dequeue("DISPOSE_CONNECTION")
            /\ DisposeConnection(Head(workQ).conn)
        BY <1>10 DEF ExecDispose
      <3>2. /\ Head(workQ) = workQ[1] /\ workQ[1].type = "DISPOSE_CONNECTION"
            /\ Len(workQ) \in Nat /\ Len(workQ) >= 1
        BY <3>1, DequeueType, QueueTypes
      <3>3. UNCHANGED <<clients, trunkQ>>
        BY <3>1 DEF Dequeue, mgrVars
      <3>4. 1 \in 1..Len(workQ)
        BY <3>2
      <3>5. QED
        BY <3>1, <3>2, <3>3, <3>4
    <2>2. workQ[1].conn \notin clients
      BY <2>1 DEF DisposingIsRemoved
    <2>3. disposed' \subseteq disposed \cup {workQ[1].conn}
      BY <2>1 DEF DisposeConnection
    <2>4. QED
      BY <1>1, <1>2, <2>1, <2>2, <2>3
  <1>11. ASSUME UNCHANGED <<clients, disposed, trunkQ>>
         PROVE  Reporting(d)'
    BY <1>1, <1>2, <1>11
  <1>12. ExecClose \/ ExecFlush \/ ExecConfirm =>
             UNCHANGED <<clients, disposed, trunkQ>>
    BY DEF ExecClose, ExecFlush, ExecConfirm, Dequeue, mgrVars
  <1>13. RecyclerPopSecond \/ SafeRelease =>
             UNCHANGED <<clients, disposed, trunkQ>>
    BY DEF RecyclerPopSecond, SafeRelease, objVars, queueVars
  <1>14. ASSUME NEW c \in Conns, TaskFailed(c)
         PROVE  UNCHANGED <<clients, disposed, trunkQ>>
    BY <1>14 DEF TaskFailed, mgrVars, queueVars
  <1>15. QED
    BY <1>3, <1>4, <1>5, <1>6, <1>7, <1>8, <1>9, <1>10, <1>11, <1>12, <1>13,
       <1>14, ManagerFrame, TrunkQueueFrame, StreamFrame

=============================================================================
