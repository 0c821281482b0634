-------------------------- MODULE KjFactoryStreams ---------------------------
(***************************************************************************)
(* Induction steps about the work queue and the streams of the worker: the *)
(* commands use live clients, a confirmation finds its stream, a disposed  *)
(* client was flushed.                                                     *)
(***************************************************************************)
EXTENDS KjFactoryQueues

-----------------------------------------------------------------------------
(* Frames of the threads.                                                  *)

\* What changes where the worker is and whether the server is closed.
LEMMA WorkerFrame ==
    ASSUME [Next]_vars
    PROVE  \/ UNCHANGED <<wpc, closed, todo>>
           \/ \E c \in Conns :
                 \/ CallbackOnReleased(c) \/ LaterOnReleased(c)
                 \/ DisposeDownStream(c)
           \/ ListenThrows \/ WorkerQuit \/ StartDrain \/ DrainEnd \/ ExecOpen
           \/ ExecClose \/ ExecDispose \/ ExecPost \/ ExecFlush \/ ExecConfirm
           \/ CloseEnd \/ ResultCb
  <1>1. CASE MainStep
    BY <1>1 DEF MainStep, OpenAnswered, OnAcceptClient, IgnoreAccept,
           OnDisconnectCb, OnPacketCb, RunOnceEnd, RecyclerPopFirst,
           RecyclerPopSecond, SafeRelease, CloseAnswered, ReleaseClient,
           ReleaseEnd, Finish, Stop, NextCallback, objVars, countVars,
           mgrVars, serverVars, queueVars, mainVars, workVars
  <1>2. CASE MainChoice
    BY <1>2 DEF MainChoice, OpenTcpServer, SendPacket, Disconnect,
           StartRunOnce, StartRecycle, CloseTcpServer, objVars, countVars,
           mgrVars, serverVars, queueVars, mainVars, workVars
  <1>3. CASE WorkerStep
    BY <1>3 DEF WorkerStep, OnDisposeClient, mgrVars, serverVars, mainVars
  <1>4. CASE NetworkStep
    BY <1>4 DEF NetworkStep, AcceptStream, AcceptLoopFailed, OnGotPacket,
           TaskFailed, objVars, countVars, mgrVars, serverVars, queueVars,
           mainVars, workVars
  <1>5. CASE UNCHANGED vars
    BY <1>5 DEF vars, objVars, countVars, mgrVars, serverVars, queueVars,
           mainVars, workVars
  <1>6. QED
    BY <1>1, <1>2, <1>3, <1>4, <1>5 DEF Next, Ended

\* What changes where the main thread is.
LEMMA MainFrame ==
    ASSUME [Next]_vars
    PROVE  \/ UNCHANGED <<mpc, mret, walk, cur, answered>>
           \/ \E c \in Conns :
                 \/ CallbackOnReleased(c) \/ RecyclerPopFirst(c)
                 \/ LaterOnReleased(c)
           \/ OpenTcpServer \/ OpenAnswered \/ StartRunOnce \/ RunOnceEnd
           \/ StartRecycle \/ RecyclerPopSecond \/ SafeRelease
           \/ CloseTcpServer \/ CloseAnswered \/ ReleaseEnd \/ Stop
           \/ ListenThrows \/ ResultCb
  <1>1. CASE MainStep
    BY <1>1 DEF MainStep, OnAcceptClient, IgnoreAccept, OnDisconnectCb,
           OnPacketCb, ReleaseClient, Finish, NextCallback, objVars,
           countVars, mgrVars, serverVars, mainVars, workVars
  <1>2. CASE MainChoice
    BY <1>2 DEF MainChoice, SendPacket, Disconnect, objVars, mgrVars,
           serverVars, mainVars, workVars
  <1>3. CASE WorkerStep
    BY <1>3 DEF WorkerStep, OnDisposeClient, WorkerQuit, StartDrain,
           DrainEnd, ExecOpen, ExecClose, ExecDispose, ExecPost, ExecFlush,
           ExecConfirm, DisposeDownStream, CloseEnd, Dequeue, objVars,
           countVars, mgrVars, serverVars, queueVars, mainVars
  <1>4. CASE NetworkStep
    BY <1>4 DEF NetworkStep, AcceptStream, AcceptLoopFailed, OnGotPacket,
           TaskFailed, objVars, countVars, mgrVars, serverVars, queueVars,
           mainVars, workVars
  <1>5. CASE UNCHANGED vars
    BY <1>5 DEF vars, objVars, countVars, mgrVars, serverVars, queueVars,
           mainVars, workVars
  <1>6. QED
    BY <1>1, <1>2, <1>3, <1>4, <1>5 DEF Next, Ended

\* Only Close closes the server.
LEMMA ClosedFrame ==
    ASSUME [Next]_vars
    PROVE  UNCHANGED closed \/ (CloseEnd /\ closed')
  <1>1. ASSUME NEW c \in Conns, CallbackOnReleased(c) \/ LaterOnReleased(c)
                                  \/ DisposeDownStream(c)
        PROVE  UNCHANGED closed
    BY <1>1 DEF CallbackOnReleased, LaterOnReleased, DisposeDownStream,
                NextCallback, serverVars
  <1>2. ListenThrows \/ WorkerQuit \/ StartDrain \/ DrainEnd \/ ResultCb =>
            UNCHANGED closed
    BY DEF ListenThrows, WorkerQuit, StartDrain, DrainEnd, ResultCb,
           serverVars
  <1>3. ExecOpen \/ ExecClose \/ ExecDispose \/ ExecPost \/ ExecFlush
          \/ ExecConfirm => UNCHANGED closed
    BY DEF ExecOpen, ExecClose, ExecDispose, ExecPost, ExecFlush, ExecConfirm,
           Dequeue
  <1>4. CloseEnd => closed'
    BY DEF CloseEnd
  <1>5. QED
    BY <1>1, <1>2, <1>3, <1>4, WorkerFrame

-----------------------------------------------------------------------------
(* Steps, seen from the work queue and the streams.                        *)

\* What stays the same in a step that concerns neither.
streamVars == <<life, clients, disposed, flushed, owned, reading, later,
                streamDict, closed, workQ>>

\* A command other than a confirmation is committed.
Committed(e) ==
    /\ workQ' = Append(workQ, e)
    /\ e.type # "CONFIRM_CLIENT_IS_READY"
    /\ e.type \in ClientCmd => e.conn \in clients
    /\ clients' = IF e.type = "DISPOSE_CONNECTION" THEN clients \ {e.conn}
                                                   ELSE clients
    /\ e.type = "FLUSH_TCP_SERVER_DOWNSTREAM" => closed
    /\ UNCHANGED <<life, disposed, flushed, owned, reading, later, streamDict,
                   closed, wcmd>>

\* A client is removed: its disposal is committed.
LEMMA RemoveCommits ==
    ASSUME TypeOK, NEW c \in Conns, OnRemoveClient(c), c \in clients,
           UNCHANGED <<life, disposed, flushed, owned, reading, later,
                       streamDict, closed, wcmd>>
    PROVE  \E e \in Cmd : Committed(e)
  <1> DEFINE e == [type |-> "DISPOSE_CONNECTION", conn |-> c]
  <1>1. /\ Commit("DISPOSE_CONNECTION", c) /\ clients' = clients \ {c}
        /\ "DISPOSE_CONNECTION" \in ClientCmd
    BY DEF OnRemoveClient, CommitFor, ClientCmd
  <1>2. e \in Cmd
    BY <1>1, CommitType, QueueTypes
  <1>3. Committed(e)
    BY <1>1 DEF Committed, Commit, ClientCmd
  <1>4. QED
    BY <1>2, <1>3

\* The cases of a step.
LEMMA StepCases ==
    ASSUME TypeOK, [Next]_vars
    PROVE  \/ UNCHANGED streamVars /\ (wcmd' = wcmd \/ wcmd' = NoCmd)
           \/ \E e \in Cmd : Committed(e)
           \/ \E c \in Conns :
                 \/ OnAcceptClient(c) \/ AcceptStream(c) \/ TaskFailed(c)
                 \/ OnDisposeClient(c) \/ LaterOnReleased(c)
                 \/ DisposeDownStream(c)
           \/ ExecOpen \/ ExecClose \/ ExecDispose \/ ExecPost \/ ExecFlush
           \/ ExecConfirm \/ SafeRelease \/ CloseEnd
  <1> DEFINE Goal == \/ UNCHANGED streamVars /\ (wcmd' = wcmd \/ wcmd' = NoCmd)
                     \/ \E e \in Cmd : Committed(e)
  <1>1. ASSUME NEW c \in Conns, Disconnect(c) \/ OnDisconnectCb(c)
                                  \/ ReleaseClient(c)
        PROVE  Goal
    <2>1. /\ OnRemoveClient(c)
          /\ UNCHANGED <<life, disposed, flushed, owned, reading, later,
                         streamDict, closed, wcmd>>
      BY <1>1 DEF Disconnect, OnDisconnectCb, ReleaseClient, NextCallback,
                  objVars, serverVars, workVars
    <2>2. CASE c \in clients
      BY <2>1, <2>2, RemoveCommits
    <2>3. CASE c \notin clients
      BY <2>1, <2>3 DEF OnRemoveClient, streamVars
    <2>4. QED
      BY <2>2, <2>3
  <1>2. ASSUME NEW c \in Conns, SendPacket(c)
        PROVE  Goal
    <2> DEFINE e == [type |-> "POST_PACKET", conn |-> c]
    <2>1. Commit("POST_PACKET", c) /\ "POST_PACKET" \in ClientCmd
      BY <1>2 DEF SendPacket, CommitFor, ClientCmd
    <2>2. e \in Cmd
      BY <2>1, CommitType, QueueTypes
    <2>3. Committed(e)
      BY <1>2, <2>1 DEF SendPacket, Committed, Commit, objVars, mgrVars,
                        serverVars, workVars
    <2>4. QED
      BY <2>2, <2>3
  <1>3. ASSUME NEW c \in Conns, IgnoreAccept(c)
        PROVE  Goal
    <2> DEFINE e == [type |-> "FLUSH_TCP_SERVER_DOWNSTREAM", conn |-> c]
    <2>1. Commit("FLUSH_TCP_SERVER_DOWNSTREAM", c)
      BY <1>3 DEF IgnoreAccept
    <2>2. e \in Cmd
      BY <2>1, CommitType, QueueTypes
    <2>3. Committed(e)
      BY <1>3, <2>1 DEF IgnoreAccept, NextCallback, Committed, Commit,
                        ClientCmd, serverVars
    <2>4. QED
      BY <2>2, <2>3
  <1>4. ASSUME OpenTcpServer \/ CloseTcpServer
        PROVE  Goal
    <2>1. PICK type \in BlockingCmd : BlockingCommit(type)
      BY <1>4 DEF OpenTcpServer, CloseTcpServer, BlockingCmd
    <2> DEFINE e == [type |-> type, conn |-> NoConn]
    <2>2. e \in Cmd
      BY <2>1, BlockingCommitType, QueueTypes
    <2>3. /\ type \notin ClientCmd /\ type # "DISPOSE_CONNECTION"
          /\ type # "CONFIRM_CLIENT_IS_READY"
          /\ type # "FLUSH_TCP_SERVER_DOWNSTREAM"
      BY <2>1 DEF BlockingCmd, ClientCmd
    <2>4. UNCHANGED <<life, clients, disposed, flushed, owned, reading, later,
                      streamDict, closed, wcmd>>
      BY <1>4 DEF OpenTcpServer, CloseTcpServer, objVars, mgrVars,
                  serverVars, workVars
    <2>5. Committed(e)
      BY <2>1, <2>3, <2>4 DEF BlockingCommit, Commit, Committed
    <2>6. QED
      BY <2>2, <2>5
  <1>5. ResultCb => UNCHANGED streamVars /\ wcmd' = NoCmd
    BY DEF ResultCb, streamVars, objVars, mgrVars, serverVars
  <1>6. RecyclerPopSecond => UNCHANGED streamVars /\ wcmd' = wcmd
    BY DEF RecyclerPopSecond, streamVars, objVars, serverVars, queueVars,
           workVars
  <1>7. UNCHANGED closed \/ CloseEnd
    BY ClosedFrame
  <1>8. QED
    BY <1>1, <1>2, <1>3, <1>4, <1>5, <1>6, <1>7, ManagerFrame,
       WorkQueueFrame, StreamFrame DEF streamVars

-----------------------------------------------------------------------------
(* Commands use live clients.                                              *)

\* A command put at the end of the work queue.
LEMMA PutFacts ==
    ASSUME TypeOK, NEW e \in Cmd, workQ' = Append(workQ, e)
    PROVE  /\ Len(workQ) \in Nat /\ Len(workQ') = Len(workQ) + 1
           /\ workQ'[Len(workQ) + 1] = e
           /\ \A i \in 1..Len(workQ) : workQ'[i] = workQ[i]
           /\ \A i \in 1..Len(workQ') : i \in 1..Len(workQ)
                                          \/ i = Len(workQ) + 1
  <1>1. /\ Len(workQ) \in Nat /\ Len(workQ') = Len(workQ) + 1
        /\ workQ'[Len(workQ) + 1] = e
        /\ \A i \in 1..Len(workQ) : workQ'[i] = workQ[i]
    BY AppendFacts, QueueTypes
  <1>2. QED
    BY <1>1

\* A command taken from its head.
LEMMA TakeFacts ==
    ASSUME TypeOK, NEW type, Dequeue(type)
    PROVE  /\ wcmd' = workQ[1] /\ workQ[1].type = type /\ Head(workQ) = workQ[1]
           /\ Len(workQ) \in Nat /\ 1 \in 1..Len(workQ)
           /\ Len(workQ') = Len(workQ) - 1
           /\ \A i \in 1..Len(workQ') : /\ i + 1 \in 1..Len(workQ)
                                        /\ i + 1 # 1
                                        /\ workQ'[i] = workQ[i + 1]
  <1>1. /\ wcmd' = workQ[1] /\ workQ[1].type = type /\ Head(workQ) = workQ[1]
        /\ Len(workQ) \in Nat /\ Len(workQ) >= 1
        /\ Len(workQ') = Len(workQ) - 1
        /\ \A i \in 1..(Len(workQ) - 1) : workQ'[i] = workQ[i + 1]
    BY DequeueType, QueueTypes
  <1>2. QED
    BY <1>1

\* A confirmation commits.
LEMMA AcceptCommits ==
    ASSUME TypeOK, AcceptIsFresh, NEW c \in Conns, OnAcceptClient(c)
    PROVE  /\ [type |-> "CONFIRM_CLIENT_IS_READY", conn |-> c] \in Cmd
           /\ workQ' = Append(workQ, [type |-> "CONFIRM_CLIENT_IS_READY",
                                      conn |-> c])
           /\ life[c] = "offered" /\ life'[c] = "live"
           /\ \A d \in Conns \ {c} : life'[d] = life[d]
           /\ clients' = clients \cup {c} /\ ~closed /\ mpc = "runonce"
           /\ UNCHANGED <<disposed, flushed, owned, reading, later, streamDict,
                          closed, wcmd>>
  <1>1. life[c] = "offered"
    BY AcceptedIsOffered
  <1>2. /\ Commit("CONFIRM_CLIENT_IS_READY", c)
        /\ life' = [life EXCEPT ![c] = "live"]
        /\ clients' = clients \cup {c} /\ ~closed /\ mpc = "runonce"
        /\ UNCHANGED <<disposed, flushed, owned, reading, later, streamDict,
                       closed, wcmd>>
    BY DEF OnAcceptClient, OnAddClient, CommitFor, NextCallback, serverVars
  <1>3. "CONFIRM_CLIENT_IS_READY" \in ClientCmd
    BY DEF ClientCmd
  <1>4. [type |-> "CONFIRM_CLIENT_IS_READY", conn |-> c] \in Cmd
    BY <1>2, <1>3, CommitType, QueueTypes
  <1>5. life'[c] = "live" /\ \A d \in Conns \ {c} : life'[d] = life[d]
    BY <1>2, LifeTypes
  <1>6. QED
    BY <1>1, <1>2, <1>4, <1>5 DEF Commit

\* A live client that SafeRelease does not delete stays live.
LEMMA LiveStays ==
    ASSUME TypeOK, AcceptIsFresh, [Next]_vars, NEW d \in Conns,
           life[d] = "live", d \notin safe
    PROVE  life'[d] = "live"
  <1>1. ASSUME NEW c \in Conns, OnAcceptClient(c)
        PROVE  life'[d] = "live"
    BY <1>1, AcceptCommits
  <1>2. ASSUME NEW c \in Conns, AcceptStream(c)
        PROVE  life'[d] = "live"
    BY <1>2, LifeTypes DEF AcceptStream
  <1>3. CASE SafeRelease
    BY <1>3 DEF SafeRelease
  <1>4. ASSUME NEW c \in Conns,
               Disconnect(c) \/ OnDisconnectCb(c) \/ ReleaseClient(c)
        PROVE  UNCHANGED life
    BY <1>4 DEF Disconnect, OnDisconnectCb, ReleaseClient, objVars
  <1>5. RecyclerPopSecond => UNCHANGED life
    BY DEF RecyclerPopSecond, objVars
  <1>6. QED
    BY <1>1, <1>2, <1>3, <1>4, <1>5, ManagerFrame

\* A client whose commands are all executed is named by none.
LEMMA CleanIsUnused ==
    ASSUME TypeOK, CommandAccounting, NEW c \in Conns,
           frontProduce[c] = backConsume[c]
    PROVE  CmdsOf(c) = {} /\ Executing(c) = 0
  <1>1. frontProduce[c] = backConsume[c] + Cardinality(CmdsOf(c))
                            + Executing(c)
    BY DEF CommandAccounting
  <1>2. Cardinality(CmdsOf(c)) = 0 /\ Executing(c) = 0
    BY <1>1, CountersNat
  <1>3. IsFiniteSet(CmdsOf(c))
    BY MatchingFinite, QueueTypes DEF CmdsOf
  <1>4. QED
    BY <1>2, <1>3, FS_EmptySet

\* A client some command uses is a live one, not about to be deleted.
LEMMA UsedIsLive ==
    ASSUME TypeOK, CommandAccounting, CommandIsLive, ReleasedIsClean
    PROVE  /\ \A i \in 1..Len(workQ) : workQ[i].type \in ClientCmd =>
                  /\ workQ[i].conn \in Conns /\ workQ[i].conn \notin safe
                  /\ life[workQ[i].conn] = "live"
           /\ wcmd.type \in ClientCmd =>
                  /\ wcmd.conn \in Conns /\ wcmd.conn \notin safe
                  /\ life[wcmd.conn] = "live"
  <1>0. ClientCmd \cap BlockingCmd = {}
    BY DEF ClientCmd, BlockingCmd
  <1>1. ASSUME NEW i \in 1..Len(workQ), workQ[i].type \in ClientCmd
        PROVE  /\ workQ[i].conn \in Conns /\ workQ[i].conn \notin safe
               /\ life[workQ[i].conn] = "live"
    <2>1. workQ[i].conn \in Conns
      BY <1>0, <1>1, QueuedConn
    <2>2. i \in CmdsOf(workQ[i].conn)
      BY <1>1 DEF CmdsOf, Matching
    <2>3. frontProduce[workQ[i].conn] # backConsume[workQ[i].conn]
      BY <2>1, <2>2, CleanIsUnused
    <2>4. QED
      BY <1>1, <2>1, <2>3 DEF ReleasedIsClean, CommandIsLive
  <1>2. ASSUME wcmd.type \in ClientCmd
        PROVE  /\ wcmd.conn \in Conns /\ wcmd.conn \notin safe
               /\ life[wcmd.conn] = "live"
    <2>1. wcmd \in Cmd
      BY <1>2 DEF TypeOK, NoCmd, ClientCmd
    <2>2. wcmd.conn \in Conns
      BY <1>0, <1>2, <2>1, CommandFacts
    <2>3. Executing(wcmd.conn) # 0
      BY <1>2 DEF Executing
    <2>4. frontProduce[wcmd.conn] # backConsume[wcmd.conn]
      BY <2>2, <2>3, CleanIsUnused
    <2>5. QED
      BY <1>2, <2>2, <2>4 DEF ReleasedIsClean, CommandIsLive
  <1>3. QED
    BY <1>1, <1>2

\* No step breaks CommandIsLive.
LEMMA LiveStep ==
    ASSUME TypeOK, CommandAccounting, CommandIsLive, ReleasedIsClean,
           AcceptIsFresh, OneOwner, [Next]_vars
    PROVE  CommandIsLive'
  <1>0. ClientCmd \cap BlockingCmd = {}
    BY DEF ClientCmd, BlockingCmd
  <1>1. \A i \in 1..Len(workQ) : workQ[i].type \in ClientCmd =>
            life'[workQ[i].conn] = "live"
    BY UsedIsLive, LiveStays
  <1>2. wcmd.type \in ClientCmd => life'[wcmd.conn] = "live"
    BY UsedIsLive, LiveStays
  <1>3. ASSUME UNCHANGED workQ, wcmd' = wcmd \/ wcmd' = NoCmd
        PROVE  CommandIsLive'
    BY <1>1, <1>2, <1>3 DEF CommandIsLive, NoCmd, ClientCmd
  <1>4. ASSUME NEW e \in Cmd, Committed(e)
        PROVE  CommandIsLive'
    <2>1. workQ' = Append(workQ, e) /\ UNCHANGED <<life, wcmd>>
      BY <1>4 DEF Committed
    <2>2. e.type \in ClientCmd => e.conn \in Conns /\ e.conn \in clients
      BY <1>0, <1>4, CommandFacts DEF Committed
    <2>3. e.type \in ClientCmd => life'[e.conn] = "live"
      BY <2>1, <2>2 DEF OneOwner
    <2>4. QED
      BY <1>1, <1>2, <2>1, <2>3, PutFacts DEF CommandIsLive
  <1>5. ASSUME NEW c \in Conns, OnAcceptClient(c)
        PROVE  CommandIsLive'
    <2> DEFINE e == [type |-> "CONFIRM_CLIENT_IS_READY", conn |-> c]
    <2>1. /\ e \in Cmd /\ workQ' = Append(workQ, e) /\ life'[c] = "live"
          /\ UNCHANGED wcmd
      BY <1>5, AcceptCommits
    <2>2. QED
      BY <1>1, <1>2, <2>1, PutFacts DEF CommandIsLive
  <1>6. ASSUME NEW type, Dequeue(type)
        PROVE  CommandIsLive'
    BY <1>1, <1>6, TakeFacts DEF CommandIsLive
  <1>7. ASSUME NEW c \in Conns,
               AcceptStream(c) \/ TaskFailed(c) \/ OnDisposeClient(c)
                 \/ LaterOnReleased(c) \/ DisposeDownStream(c)
        PROVE  UNCHANGED <<workQ, wcmd>>
    BY <1>7 DEF AcceptStream, TaskFailed, OnDisposeClient, LaterOnReleased,
                DisposeDownStream, workVars, queueVars
  <1>8. SafeRelease \/ CloseEnd => UNCHANGED <<workQ, wcmd>>
    BY DEF SafeRelease, CloseEnd, workVars, queueVars
  <1>9. ExecOpen \/ ExecClose \/ ExecDispose \/ ExecPost \/ ExecFlush
          \/ ExecConfirm => \E type : Dequeue(type)
    BY DEF ExecOpen, ExecClose, ExecDispose, ExecPost, ExecFlush, ExecConfirm
  <1>10. QED
    BY <1>3, <1>4, <1>5, <1>6, <1>7, <1>8, <1>9, StepCases DEF streamVars

-----------------------------------------------------------------------------
(* Disposals and confirmations in the work queue.                          *)

\* Steps that concern the streams and leave the work queue alone.
LEMMA QuietQueue ==
    ASSUME \/ SafeRelease \/ CloseEnd
           \/ \E c \in Conns :
                  \/ AcceptStream(c) \/ TaskFailed(c) \/ OnDisposeClient(c)
                  \/ LaterOnReleased(c) \/ DisposeDownStream(c)
    PROVE  UNCHANGED <<workQ, wcmd, clients>>
  <1>1. SafeRelease \/ CloseEnd => UNCHANGED <<workQ, wcmd, clients>>
    BY DEF SafeRelease, CloseEnd, workVars, queueVars, mgrVars
  <1>2. ASSUME NEW c \in Conns,
               AcceptStream(c) \/ TaskFailed(c) \/ OnDisposeClient(c)
                 \/ LaterOnReleased(c) \/ DisposeDownStream(c)
        PROVE  UNCHANGED <<workQ, wcmd, clients>>
    BY <1>2 DEF AcceptStream, TaskFailed, OnDisposeClient, LaterOnReleased,
                DisposeDownStream, workVars, queueVars, mgrVars
  <1>3. QED
    BY <1>1, <1>2

\* The commands are dequeued.
LEMMA ExecDequeues ==
    ASSUME ExecOpen \/ ExecClose \/ ExecDispose \/ ExecPost \/ ExecFlush
             \/ ExecConfirm
    PROVE  /\ \E type : Dequeue(type)
           /\ UNCHANGED <<life, clients, later, closed>>
  <1>1. \E type : Dequeue(type)
    BY DEF ExecOpen, ExecClose, ExecDispose, ExecPost, ExecFlush, ExecConfirm
  <1>2. QED
    BY <1>1 DEF Dequeue, mgrVars

\* No step breaks DisposingIsRemoved.
LEMMA DisposingStep ==
    ASSUME TypeOK, DisposingIsRemoved, CommandIsLive, AcceptIsFresh,
           [Next]_vars
    PROVE  DisposingIsRemoved'
  <1>1. CASE UNCHANGED <<workQ, clients>>
    BY <1>1 DEF DisposingIsRemoved
  <1>2. ASSUME NEW e \in Cmd, Committed(e)
        PROVE  DisposingIsRemoved'
    <2>1. /\ workQ' = Append(workQ, e) /\ clients' \subseteq clients
          /\ e.type = "DISPOSE_CONNECTION" => e.conn \notin clients'
      BY <1>2 DEF Committed
    <2>2. QED
      BY <2>1, PutFacts DEF DisposingIsRemoved
  <1>3. ASSUME NEW c \in Conns, OnAcceptClient(c)
        PROVE  DisposingIsRemoved'
    <2> DEFINE e == [type |-> "CONFIRM_CLIENT_IS_READY", conn |-> c]
    <2>1. /\ e \in Cmd /\ workQ' = Append(workQ, e) /\ life[c] = "offered"
          /\ clients' = clients \cup {c}
      BY <1>3, AcceptCommits
    <2>2. \A i \in 1..Len(workQ) : workQ[i].type = "DISPOSE_CONNECTION" =>
              workQ[i].conn # c
      BY <2>1 DEF CommandIsLive, ClientCmd
    <2>3. QED
      BY <2>1, <2>2, PutFacts DEF DisposingIsRemoved
  <1>4. ASSUME NEW type, Dequeue(type), UNCHANGED clients
        PROVE  DisposingIsRemoved'
    BY <1>4, TakeFacts DEF DisposingIsRemoved
  <1>5. QED
    BY <1>1, <1>2, <1>3, <1>4, QuietQueue, ExecDequeues, StepCases
       DEF streamVars

\* When a command is put, and when one is taken.
LEMMA ConfirmingPut ==
    ASSUME TypeOK, NEW e \in Cmd, workQ' = Append(workQ, e), NEW d
    PROVE  Confirming(d)' <=> \/ Confirming(d)
                              \/ /\ e.type = "CONFIRM_CLIENT_IS_READY"
                                 /\ e.conn = d
  <1>1. Len(workQ) + 1 \in 1..Len(workQ')
    BY PutFacts
  <1>2. \A i \in 1..Len(workQ) : i \in 1..Len(workQ')
    BY PutFacts
  <1>3. QED
    BY <1>1, <1>2, PutFacts DEF Confirming

LEMMA ConfirmingTake ==
    ASSUME TypeOK, NEW type, Dequeue(type), NEW d
    PROVE  /\ Confirming(d)' => Confirming(d)
           /\ Confirming(d) => \/ Confirming(d)'
                               \/ /\ type = "CONFIRM_CLIENT_IS_READY"
                                  /\ workQ[1].conn = d
  <1>1. Confirming(d)' => Confirming(d)
    BY TakeFacts DEF Confirming
  <1>2. ASSUME Confirming(d)
        PROVE  \/ Confirming(d)'
               \/ type = "CONFIRM_CLIENT_IS_READY" /\ workQ[1].conn = d
    <2>1. PICK i \in 1..Len(workQ) :
                   /\ workQ[i].type = "CONFIRM_CLIENT_IS_READY"
                   /\ workQ[i].conn = d
      BY <1>2 DEF Confirming
    <2>2. CASE i = 1
      BY <2>1, <2>2, TakeFacts
    <2>3. CASE i # 1
      <3>1. i - 1 \in 1..Len(workQ') /\ (i - 1) + 1 = i
        BY <2>3, TakeFacts
      <3>2. workQ'[i - 1] = workQ[i]
        BY <3>1, TakeFacts
      <3>3. QED
        BY <2>1, <3>1, <3>2 DEF Confirming
    <2>4. QED
      BY <2>2, <2>3
  <1>3. QED
    BY <1>1, <1>2

\* No step breaks ConfirmIsFirst: the order of the commands about a client.
LEMMA OrderStep ==
    ASSUME TypeOK, ConfirmIsFirst, CommandIsLive, AcceptIsFresh, [Next]_vars
    PROVE  \A i, j \in 1..Len(workQ') :
               workQ'[i].type = "CONFIRM_CLIENT_IS_READY" /\ j # i
                 /\ workQ'[j].conn = workQ'[i].conn =>
                    /\ workQ'[j].type # "CONFIRM_CLIENT_IS_READY"
                    /\ j < i => workQ'[j].type # "DISPOSE_CONNECTION"
  <1> DEFINE Ordered == \A i, j \in 1..Len(workQ') :
               workQ'[i].type = "CONFIRM_CLIENT_IS_READY" /\ j # i
                 /\ workQ'[j].conn = workQ'[i].conn =>
                    /\ workQ'[j].type # "CONFIRM_CLIENT_IS_READY"
                    /\ j < i => workQ'[j].type # "DISPOSE_CONNECTION"
  <1>1. ASSUME UNCHANGED workQ
        PROVE  Ordered
    BY <1>1 DEF ConfirmIsFirst
  <1>2. ASSUME NEW e \in Cmd, Committed(e)
        PROVE  Ordered
    <2>1. workQ' = Append(workQ, e) /\ e.type # "CONFIRM_CLIENT_IS_READY"
      BY <1>2 DEF Committed
    <2>2. QED
      BY <2>1, PutFacts DEF ConfirmIsFirst
  <1>3. ASSUME NEW c \in Conns, OnAcceptClient(c)
        PROVE  Ordered
    <2> DEFINE e == [type |-> "CONFIRM_CLIENT_IS_READY", conn |-> c]
    <2>1. e \in Cmd /\ workQ' = Append(workQ, e) /\ life[c] = "offered"
      BY <1>3, AcceptCommits
    <2>2. \A i \in 1..Len(workQ) : workQ[i].conn = c =>
              workQ[i].type \notin {"CONFIRM_CLIENT_IS_READY",
                                    "DISPOSE_CONNECTION"}
      BY <2>1 DEF CommandIsLive, ClientCmd
    <2>3. QED
      BY <2>1, <2>2, PutFacts DEF ConfirmIsFirst
  <1>4. ASSUME NEW type, Dequeue(type)
        PROVE  Ordered
    <2> SUFFICES ASSUME NEW i \in 1..Len(workQ'), NEW j \in 1..Len(workQ'),
                        workQ'[i].type = "CONFIRM_CLIENT_IS_READY", j # i,
                        workQ'[j].conn = workQ'[i].conn
                 PROVE  /\ workQ'[j].type # "CONFIRM_CLIENT_IS_READY"
                        /\ j < i => workQ'[j].type # "DISPOSE_CONNECTION"
      OBVIOUS
    <2>1. /\ i + 1 \in 1..Len(workQ) /\ workQ'[i] = workQ[i + 1]
          /\ j + 1 \in 1..Len(workQ) /\ workQ'[j] = workQ[j + 1]
      BY <1>4, TakeFacts
    <2>2. j + 1 # i + 1 /\ (j < i => j + 1 < i + 1)
      BY <1>4, TakeFacts
    <2>3. QED
      BY <2>1, <2>2 DEF ConfirmIsFirst
  <1>5. QED
    BY <1>1, <1>2, <1>3, <1>4, QuietQueue, ExecDequeues, StepCases
       DEF streamVars

\* A confirmation that is executed was the only one about its client.
LEMMA ConfirmedOnce ==
    ASSUME TypeOK, ConfirmIsFirst, NEW type, Dequeue(type),
           type \in {"CONFIRM_CLIENT_IS_READY", "DISPOSE_CONNECTION"},
           NEW d, d = workQ[1].conn
    PROVE  ~Confirming(d)'
  <1> SUFFICES ASSUME NEW i \in 1..Len(workQ'),
                      workQ'[i].type = "CONFIRM_CLIENT_IS_READY",
                      workQ'[i].conn = d
               PROVE  FALSE
    BY DEF Confirming
  <1>1. /\ i + 1 \in 1..Len(workQ) /\ workQ'[i] = workQ[i + 1] /\ 1 < i + 1
        /\ 1 \in 1..Len(workQ) /\ workQ[1].type = type
    BY TakeFacts
  <1>2. /\ workQ[1].type # "CONFIRM_CLIENT_IS_READY"
        /\ 1 < i + 1 => workQ[1].type # "DISPOSE_CONNECTION"
    <2>1. /\ workQ[i + 1].type = "CONFIRM_CLIENT_IS_READY" /\ 1 # i + 1
          /\ workQ[1].conn = workQ[i + 1].conn
      BY <1>1
    <2>2. QED
      BY <1>1, <2>1 DEF ConfirmIsFirst
  <1>3. QED
    BY <1>1, <1>2

\* No step breaks ConfirmIsFirst.
LEMMA ConfirmStep ==
    ASSUME TypeOK, ConfirmIsFirst, CommandIsLive, AcceptIsFresh,
           FreshIsClean, StreamOwnership, [Next]_vars
    PROVE  ConfirmIsFirst'
  <1> SUFFICES ASSUME NEW d, d \in (owned \cup later)'
               PROVE  ~Confirming(d)'
    BY OrderStep DEF ConfirmIsFirst
  <1>1. d \in owned \cup later => ~Confirming(d)
    BY DEF ConfirmIsFirst
  <1>2. UNCHANGED workQ => (Confirming(d)' <=> Confirming(d))
    BY DEF Confirming
  <1>3. ASSUME NEW e \in Cmd, Committed(e)
        PROVE  ~Confirming(d)'
    <2>1. /\ workQ' = Append(workQ, e) /\ UNCHANGED <<owned, later>>
          /\ e.type # "CONFIRM_CLIENT_IS_READY"
      BY <1>3 DEF Committed
    <2>2. QED
      BY <1>1, <2>1, ConfirmingPut
  <1>4. ASSUME NEW c \in Conns, OnAcceptClient(c)
        PROVE  ~Confirming(d)'
    <2> DEFINE e == [type |-> "CONFIRM_CLIENT_IS_READY", conn |-> c]
    <2>1. /\ e \in Cmd /\ workQ' = Append(workQ, e) /\ life[c] = "offered"
          /\ UNCHANGED <<owned, later>>
      BY <1>4, AcceptCommits
    <2>2. c \notin owned \cup later
      BY <2>1 DEF FreshIsClean
    <2>3. QED
      BY <1>1, <2>1, <2>2, ConfirmingPut
  <1>5. ASSUME NEW type, Dequeue(type), owned' \subseteq owned,
               UNCHANGED later
        PROVE  ~Confirming(d)'
    BY <1>1, <1>5, ConfirmingTake
  <1>6. ASSUME ExecConfirm
        PROVE  ~Confirming(d)'
    <2>1. /\ Dequeue("CONFIRM_CLIENT_IS_READY") /\ UNCHANGED later
          /\ owned' \subseteq owned \cup {Head(workQ).conn}
      BY <1>6 DEF ExecConfirm, Dequeue
    <2>2. (d = workQ[1].conn => ~Confirming(d)') /\ Head(workQ) = workQ[1]
      BY <2>1, ConfirmedOnce, TakeFacts
    <2>3. QED
      BY <1>1, <2>1, <2>2, ConfirmingTake
  <1>7. ASSUME NEW c \in Conns, TaskFailed(c)
        PROVE  ~Confirming(d)'
    <2>1. /\ UNCHANGED <<workQ, owned>> /\ later' = later \cup {c}
          /\ c \in reading
      BY <1>7 DEF TaskFailed, queueVars
    <2>2. c \in owned
      BY <2>1 DEF StreamOwnership
    <2>3. QED
      BY <1>1, <1>2, <2>1, <2>2
  <1>8. ASSUME NEW c \in Conns,
               AcceptStream(c) \/ OnDisposeClient(c) \/ LaterOnReleased(c)
                 \/ DisposeDownStream(c)
        PROVE  /\ UNCHANGED workQ /\ owned' \subseteq owned
               /\ later' \subseteq later
    BY <1>8 DEF AcceptStream, OnDisposeClient, LaterOnReleased,
                DisposeDownStream, DisposeConnection, workVars, objVars
  <1>9. SafeRelease \/ CloseEnd => UNCHANGED <<workQ, owned, later>>
    BY DEF SafeRelease, CloseEnd, workVars, objVars, queueVars
  <1>10. ExecOpen \/ ExecClose \/ ExecDispose \/ ExecPost \/ ExecFlush =>
             owned' \subseteq owned
    BY DEF ExecOpen, ExecClose, ExecDispose, ExecPost, ExecFlush,
           DisposeConnection
  <1>11. QED
    BY <1>1, <1>2, <1>3, <1>4, <1>5, <1>6, <1>7, <1>8, <1>9, <1>10,
       ExecDequeues, StepCases DEF streamVars

-----------------------------------------------------------------------------
(* Streams.                                                                *)

\* What disposing changes.
LEMMA DisposeFacts ==
    ASSUME NEW c, DisposeConnection(c), StreamOwnership
    PROVE  /\ disposed' = disposed \cup {c}
           /\ owned' = owned \ {c} /\ reading' = reading \ {c}
           /\ flushed' \subseteq flushed \cup {c}
           /\ c \in owned \/ c \in disposed => flushed' = flushed \cup {c}
  <1>1. CASE c \in disposed
    <2>1. UNCHANGED <<disposed, flushed, owned, reading>>
      BY <1>1 DEF DisposeConnection
    <2>2. c \notin owned /\ c \notin reading /\ c \in flushed
      BY <1>1 DEF StreamOwnership
    <2>3. QED
      BY <1>1, <2>1, <2>2
  <1>2. CASE c \notin disposed
    BY <1>2 DEF DisposeConnection, FlushStream
  <1>3. QED
    BY <1>1, <1>2

\* The steps that dispose a connection.
Disposing(c) ==
    /\ DisposeConnection(c)
    /\ UNCHANGED <<life, clients, streamDict>>
    /\ later' \subseteq later
    /\ \/ UNCHANGED workQ
       \/ Dequeue("DISPOSE_CONNECTION") /\ workQ[1].conn = c

\* They dispose a live client that is not waiting for its confirmation.
LEMMA DisposingCases ==
    ASSUME TypeOK, CommandIsLive, ConfirmIsFirst, FreshIsClean, OneOwner,
           Blocking, NEW c \in Conns,
           OnDisposeClient(c) \/ DisposeDownStream(c)
    PROVE  Disposing(c) /\ life[c] = "live" /\ ~Confirming(c) /\ UNCHANGED workQ
  <1>1. CASE OnDisposeClient(c)
    <2>1. /\ DisposeConnection(c) /\ UNCHANGED <<life, clients, streamDict, workQ>>
          /\ later' \subseteq later /\ c \in later /\ life[c] # "released"
      BY <1>1 DEF OnDisposeClient, mgrVars, serverVars
    <2>2. ~Confirming(c)
      BY <2>1 DEF ConfirmIsFirst
    <2>3. life[c] \in Life /\ life[c] \notin {"none", "offered"}
      BY <2>1, LifeTypes DEF FreshIsClean
    <2>4. life[c] = "live"
      BY <2>1, <2>3 DEF Life
    <2>5. QED
      BY <2>1, <2>2, <2>4 DEF Disposing
  <1>2. CASE DisposeDownStream(c)
    <2>1. /\ DisposeConnection(c) /\ UNCHANGED <<life, clients, streamDict, workQ>>
          /\ UNCHANGED later /\ wpc = "closing" /\ c \in todo
      BY <1>2 DEF DisposeDownStream, mgrVars, serverVars
    <2>2. wcmd.type = "CLOSE_TCP_SERVER" /\ c \in clients
      BY <2>1 DEF Blocking
    <2>3. workQ = <<>>
      BY <2>2 DEF Blocking, BlockingCmd
    <2>4. ~Confirming(c)
      BY <2>3 DEF Confirming
    <2>5. life[c] = "live"
      BY <2>2 DEF OneOwner
    <2>6. QED
      BY <2>1, <2>4, <2>5 DEF Disposing
  <1>3. QED
    BY <1>1, <1>2

LEMMA ExecDisposing ==
    ASSUME TypeOK, CommandIsLive, ConfirmIsFirst, ExecDispose
    PROVE  /\ workQ[1].conn \in Conns /\ Disposing(workQ[1].conn)
           /\ life[workQ[1].conn] = "live" /\ ~Confirming(workQ[1].conn)
  <1>1. Dequeue("DISPOSE_CONNECTION") /\ "DISPOSE_CONNECTION" \in ClientCmd
          /\ "DISPOSE_CONNECTION" \notin BlockingCmd
      BY DEF ExecDispose, ClientCmd, BlockingCmd
  <1>2. 1 \in 1..Len(workQ) /\ workQ[1].type = "DISPOSE_CONNECTION"
          /\ Head(workQ) = workQ[1]
    BY <1>1, TakeFacts
  <1>3. workQ[1].conn \in Conns
    BY <1>1, <1>2, QueuedConn
  <1>4. life[workQ[1].conn] = "live"
    BY <1>1, <1>2 DEF CommandIsLive
  <1>5. ASSUME NEW i \in 1..Len(workQ),
               workQ[i].type = "CONFIRM_CLIENT_IS_READY",
               workQ[i].conn = workQ[1].conn
        PROVE  FALSE
    <2>1. 1 # i /\ 1 < i
      BY <1>2, <1>5
    <2>2. QED
      BY <1>2, <1>5, <2>1 DEF ConfirmIsFirst
  <1>6. Disposing(workQ[1].conn)
    BY <1>1, <1>2 DEF ExecDispose, Dequeue, Disposing, mgrVars
  <1>7. QED
    BY <1>3, <1>4, <1>5, <1>6 DEF Confirming

\* The confirmation that is executed finds its stream.
LEMMA ExecConfirmFinds ==
    ASSUME TypeOK, CommandIsLive, ConfirmFindsStream, ExecConfirm
    PROVE  /\ Dequeue("CONFIRM_CLIENT_IS_READY")
           /\ workQ[1].conn \in Conns /\ life[workQ[1].conn] = "live"
           /\ workQ[1].conn \in streamDict /\ workQ[1].conn \notin disposed
           /\ owned' = owned \cup {workQ[1].conn}
           /\ reading' = reading \cup {workQ[1].conn}
           /\ streamDict' = streamDict \ {workQ[1].conn}
           /\ UNCHANGED <<life, clients, disposed, flushed, later>>
  <1>1. /\ Dequeue("CONFIRM_CLIENT_IS_READY")
        /\ "CONFIRM_CLIENT_IS_READY" \in ClientCmd
        /\ "CONFIRM_CLIENT_IS_READY" \notin BlockingCmd
      BY DEF ExecConfirm, ClientCmd, BlockingCmd
  <1>2. 1 \in 1..Len(workQ) /\ workQ[1].type = "CONFIRM_CLIENT_IS_READY"
          /\ Head(workQ) = workQ[1]
    BY <1>1, TakeFacts
  <1>3. workQ[1].conn \in Conns
    BY <1>1, <1>2, QueuedConn
  <1>4. life[workQ[1].conn] = "live"
    BY <1>1, <1>2 DEF CommandIsLive
  <1>5. /\ workQ[1].conn \in streamDict /\ workQ[1].conn \notin disposed
        /\ workQ[1].conn \notin flushed
    BY <1>2 DEF ConfirmFindsStream
  <1>6. UNCHANGED <<life, clients, disposed, flushed, later>>
    BY <1>1 DEF Dequeue, ExecConfirm, mgrVars
  <1>7. QED
    BY <1>1, <1>2, <1>3, <1>4, <1>5, <1>6 DEF ExecConfirm

\* No step breaks FreshIsClean.
LEMMA FreshStep ==
    ASSUME TypeOK, FreshIsClean, CommandIsLive, ConfirmIsFirst, OneOwner,
           Blocking, AcceptIsFresh, StreamOwnership, ConfirmFindsStream,
           [Next]_vars
    PROVE  FreshIsClean'
  <1> SUFFICES ASSUME NEW d \in Conns, life'[d] \in {"none", "offered"}
               PROVE  d \notin (owned \cup reading \cup later \cup disposed)'
    BY DEF FreshIsClean
  <1> DEFINE Clean == d \notin owned \cup reading \cup later \cup disposed
  <1>1. life[d] \in {"none", "offered"} => Clean
    BY DEF FreshIsClean
  <1>2. ASSUME UNCHANGED <<life, owned, reading, later, disposed>>
        PROVE  Clean'
    BY <1>1, <1>2
  <1>3. ASSUME NEW c \in Conns, OnAcceptClient(c)
        PROVE  Clean'
    BY <1>1, <1>3, AcceptCommits
  <1>4. ASSUME NEW c \in Conns, AcceptStream(c)
        PROVE  Clean'
    <2>1. /\ life[c] = "none" /\ life' = [life EXCEPT ![c] = "offered"]
          /\ UNCHANGED <<owned, reading, later, disposed>>
      BY <1>4 DEF AcceptStream, workVars
    <2>2. life[d] \in {"none", "offered"}
      BY <2>1, LifeTypes
    <2>3. QED
      BY <1>1, <2>1, <2>2
  <1>5. ASSUME NEW c \in Conns, TaskFailed(c)
        PROVE  Clean'
    <2>1. /\ c \in reading /\ UNCHANGED <<life, owned, disposed>>
          /\ later' = later \cup {c} /\ reading' \subseteq reading
      BY <1>5 DEF TaskFailed
    <2>2. QED
      BY <1>1, <2>1
  <1>6. ASSUME NEW c \in Conns, Disposing(c), life[c] = "live"
        PROVE  Clean'
    <2>1. /\ disposed' = disposed \cup {c} /\ owned' = owned \ {c}
          /\ reading' = reading \ {c} /\ later' \subseteq later
          /\ UNCHANGED life
      BY <1>6, DisposeFacts DEF Disposing
    <2>2. QED
      BY <1>1, <1>6, <2>1
  <1>7. ASSUME ExecConfirm
        PROVE  Clean'
    BY <1>1, <1>7, ExecConfirmFinds
  <1>8. ASSUME NEW c \in Conns, LaterOnReleased(c)
        PROVE  Clean'
    <2>1. UNCHANGED <<life, owned, reading, disposed>> /\ later' \subseteq later
      BY <1>8 DEF LaterOnReleased, objVars
    <2>2. QED
      BY <1>1, <2>1
  <1>9. ASSUME SafeRelease
        PROVE  Clean'
    <2>1. /\ life' = [c \in Conns |-> IF c \in safe THEN "released"
                                                    ELSE life[c]]
          /\ UNCHANGED <<owned, reading, later, disposed>>
      BY <1>9 DEF SafeRelease, workVars
    <2>2. life[d] \in {"none", "offered"}
      BY <2>1
    <2>3. QED
      BY <1>1, <2>1, <2>2
  <1>10. ExecOpen \/ ExecClose \/ ExecPost \/ ExecFlush =>
             UNCHANGED <<life, owned, reading, later, disposed>>
    BY DEF ExecOpen, ExecClose, ExecPost, ExecFlush, Dequeue
  <1>11. CloseEnd => UNCHANGED <<life, owned, reading, later, disposed>>
    BY DEF CloseEnd, objVars
  <1>12. ASSUME NEW e \in Cmd, Committed(e)
         PROVE  UNCHANGED <<life, owned, reading, later, disposed>>
    BY <1>12 DEF Committed
  <1>13. Clean'
    BY <1>2, <1>3, <1>4, <1>5, <1>6, <1>7, <1>8, <1>9, <1>10, <1>11, <1>12,
       DisposingCases, ExecDisposing, StepCases DEF streamVars
  <1>14. QED
    BY <1>13

\* A disposed client stays disposed.
LEMMA DisposedForEver ==
    ASSUME TypeOK, [Next]_vars
    PROVE  disposed \subseteq disposed'
  <1>1. ASSUME NEW c, DisposeConnection(c)
        PROVE  disposed \subseteq disposed'
    BY <1>1 DEF DisposeConnection
  <1>2. ASSUME NEW c \in Conns, OnDisposeClient(c) \/ DisposeDownStream(c)
        PROVE  DisposeConnection(c)
    BY <1>2 DEF OnDisposeClient, DisposeDownStream
  <1>3. ASSUME NEW c \in Conns,
               AcceptStream(c) \/ TaskFailed(c) \/ LaterOnReleased(c)
        PROVE  UNCHANGED disposed
    BY <1>3 DEF AcceptStream, TaskFailed, LaterOnReleased, objVars
  <1>4. ExecClose \/ ExecFlush \/ ExecConfirm => UNCHANGED disposed
    BY DEF ExecClose, ExecFlush, ExecConfirm
  <1>5. ExecDispose => DisposeConnection(Head(workQ).conn)
    BY DEF ExecDispose
  <1>6. QED
    BY <1>1, <1>2, <1>3, <1>4, <1>5, StreamFrame

\* Only clients in the map, or just accepted, are given new commands.
LEMMA ProducedFor ==
    ASSUME TypeOK, AcceptIsFresh, OneOwner, [Next]_vars, NEW d \in Conns,
           d \in safe \/ life[d] = "released"
    PROVE  frontProduce'[d] = frontProduce[d]
  <1>0. d \notin clients
    BY DEF OneOwner
  <1>1. ASSUME NEW c \in Conns, CommitFor(c, "DISPOSE_CONNECTION")
                 \/ CommitFor(c, "POST_PACKET")
                 \/ CommitFor(c, "CONFIRM_CLIENT_IS_READY"), c # d
        PROVE  frontProduce'[d] = frontProduce[d]
    <2>1. frontProduce' = Incr(frontProduce, c)
      BY <1>1 DEF CommitFor
    <2>2. QED
      BY <1>1, <2>1, IncrFacts, CounterTypes
  <1>2. ASSUME NEW c \in Conns, OnRemoveClient(c)
        PROVE  frontProduce'[d] = frontProduce[d]
    BY <1>0, <1>1, <1>2 DEF OnRemoveClient
  <1>3. ASSUME NEW c \in Conns, Disconnect(c) \/ OnDisconnectCb(c)
                                  \/ ReleaseClient(c)
        PROVE  OnRemoveClient(c)
    BY <1>3 DEF Disconnect, OnDisconnectCb, ReleaseClient
  <1>4. ASSUME NEW c \in Conns, SendPacket(c)
        PROVE  frontProduce'[d] = frontProduce[d]
    <2>1. c \in clients /\ CommitFor(c, "POST_PACKET")
      BY <1>4 DEF SendPacket
    <2>2. QED
      BY <1>0, <1>1, <2>1
  <1>5. ASSUME NEW c \in Conns, OnAcceptClient(c)
        PROVE  frontProduce'[d] = frontProduce[d]
    <2>1. life[c] = "offered"
      BY <1>5, AcceptedIsOffered
    <2>2. c # d
      BY <2>1 DEF OneOwner
    <2>3. QED
      BY <1>1, <1>5, <2>2 DEF OnAcceptClient
  <1>6. OpenTcpServer \/ CloseTcpServer => UNCHANGED frontProduce
    BY DEF OpenTcpServer, CloseTcpServer, countVars
  <1>7. ASSUME NEW c \in Conns, IgnoreAccept(c)
        PROVE  UNCHANGED frontProduce
    BY <1>7 DEF IgnoreAccept
  <1>8. ASSUME NEW type, Dequeue(type)
        PROVE  UNCHANGED frontProduce
    BY <1>8 DEF Dequeue, countVars
  <1>9. ResultCb => UNCHANGED frontProduce
    BY DEF ResultCb
  <1>10. QED
    BY <1>2, <1>3, <1>4, <1>5, <1>6, <1>7, <1>8, <1>9, ExecDequeues,
       WorkQueueFrame

\* No step breaks ReleasedIsClean.
LEMMA ReleasedStep ==
    ASSUME TypeOK, ReleasedIsClean, CommandAccounting, CommandIsLive,
           AcceptIsFresh, OneOwner, WalkInRecycler, [Next]_vars
    PROVE  ReleasedIsClean'
  <1> SUFFICES ASSUME NEW d \in Conns, d \in safe' \/ life'[d] = "released"
               PROVE  frontProduce'[d] = backConsume'[d] /\ d \in disposed'
    BY DEF ReleasedIsClean
  <1>1. ASSUME d \in safe \/ life[d] = "released"
        PROVE  frontProduce'[d] = backConsume'[d] /\ d \in disposed'
    <2>1. frontProduce[d] = backConsume[d] /\ d \in disposed
      BY <1>1 DEF ReleasedIsClean
    <2>2. d \in disposed'
      BY <2>1, DisposedForEver
    <2>3. frontProduce'[d] = frontProduce[d]
      BY <1>1, ProducedFor
    <2>4. backConsume'[d] = backConsume[d]
      <3>1. Executing(d) = 0
        BY <2>1, CleanIsUnused
      <3>2. CASE ResultCb /\ wcmd.type \in ClientCmd
        <4>1. wcmd.conn \in Conns
          <5>1. wcmd.type \in ClientCmd
            BY <3>2
          <5>2. QED
            BY <5>1, UsedIsLive
        <4>2. wcmd.conn # d
          BY <3>1, <3>2 DEF Executing
        <4>3. backConsume' = Incr(backConsume, wcmd.conn)
          BY <3>2 DEF ResultCb
        <4>4. Incr(backConsume, wcmd.conn)[d] = backConsume[d]
          BY <4>1, <4>2, IncrFacts, CounterTypes
        <4>5. QED
          BY <4>3, <4>4
      <3>3. CASE ResultCb /\ wcmd.type \notin ClientCmd
        BY <3>3 DEF ResultCb
      <3>4. ASSUME NEW c \in Conns,
                   Disconnect(c) \/ OnDisconnectCb(c) \/ ReleaseClient(c)
                     \/ SendPacket(c) \/ OnAcceptClient(c) \/ IgnoreAccept(c)
            PROVE  UNCHANGED backConsume
        BY <3>4 DEF Disconnect, OnDisconnectCb, ReleaseClient, SendPacket,
                    OnAcceptClient, IgnoreAccept, NextCallback
      <3>5. OpenTcpServer \/ CloseTcpServer => UNCHANGED backConsume
        BY DEF OpenTcpServer, CloseTcpServer, countVars
      <3>6. ASSUME NEW type, Dequeue(type)
            PROVE  UNCHANGED backConsume
        BY <3>6 DEF Dequeue, countVars
      <3>7. QED
        BY <3>2, <3>3, <3>4, <3>5, <3>6, ExecDequeues, WorkQueueFrame
    <2>5. QED
      BY <2>1, <2>2, <2>3, <2>4
  <1>2. ASSUME NEW c \in Conns, OnAcceptClient(c) \/ Disconnect(c)
                 \/ OnDisconnectCb(c) \/ ReleaseClient(c) \/ AcceptStream(c)
        PROVE  d \in safe \/ life[d] = "released"
    <2>1. UNCHANGED safe
      BY <1>2 DEF OnAcceptClient, Disconnect, OnDisconnectCb, ReleaseClient,
                  AcceptStream, NextCallback, mgrVars
    <2>2. life' = life \/ life' = [life EXCEPT ![c] = "live"]
            \/ life' = [life EXCEPT ![c] = "offered"]
      BY <1>2 DEF OnAcceptClient, Disconnect, OnDisconnectCb, ReleaseClient,
                  AcceptStream, objVars
    <2>3. QED
      BY <2>1, <2>2, LifeTypes
  <1>3. SafeRelease => d \in safe \/ life[d] = "released"
    BY DEF SafeRelease
  <1>4. ASSUME RecyclerPopSecond, d \notin safe, life[d] # "released"
        PROVE  frontProduce'[d] = backConsume'[d] /\ d \in disposed'
    <2>1. d = cur /\ IsFrontEndClean(cur) /\ cur \in disposed
      BY <1>4 DEF RecyclerPopSecond, objVars
    <2>2. UNCHANGED <<frontProduce, backConsume, disposed>>
      BY <1>4 DEF RecyclerPopSecond, objVars, countVars
    <2>3. QED
      BY <2>1, <2>2 DEF IsFrontEndClean
  <1>5. QED
    BY <1>1, <1>2, <1>3, <1>4, ManagerFrame

\* A blocking command that is taken was the last one.
LEMMA BlockingTake ==
    ASSUME TypeOK, Blocking, NEW type \in BlockingCmd, Dequeue(type)
    PROVE  Len(workQ') = 0 /\ Len(workQ) = 1
  <1>1. /\ 1 \in 1..Len(workQ) /\ workQ[1].type \in BlockingCmd
        /\ Len(workQ') = Len(workQ) - 1
    BY TakeFacts
  <1>2. \A i \in 1..Len(workQ) : workQ[i].type \in BlockingCmd => i = Len(workQ)
    BY DEF Blocking
  <1>3. QED
    BY <1>1, <1>2

\* No step breaks ConfirmFindsStream.
LEMMA FindsStep ==
    ASSUME TypeOK, ConfirmFindsStream, AcceptHasStream, AcceptIsFresh,
           FreshIsClean, StreamOwnership, ConfirmIsFirst, ClosedIsFinal,
           CommandIsLive, OneOwner, Blocking, [Next]_vars
    PROVE  ConfirmFindsStream'
  <1> DEFINE Found(d) == d \in streamDict /\ d \notin disposed
                                          /\ d \notin flushed
  <1> SUFFICES ASSUME NEW d, Confirming(d)'
               PROVE  Found(d)'
    BY DEF ConfirmFindsStream, Confirming
  <1>1. Confirming(d) => Found(d)
    BY DEF ConfirmFindsStream, Confirming
  <1>2. UNCHANGED workQ => Confirming(d)
    BY DEF Confirming
  <1>3. ASSUME UNCHANGED <<workQ, disposed, flushed>>,
               streamDict \subseteq streamDict'
        PROVE  Found(d)'
    BY <1>1, <1>2, <1>3
  <1>4. ASSUME NEW e \in Cmd, Committed(e)
        PROVE  Found(d)'
    BY <1>1, <1>4, ConfirmingPut DEF Committed
  <1>5. ASSUME NEW c \in Conns, OnAcceptClient(c)
        PROVE  Found(d)'
    <2> DEFINE e == [type |-> "CONFIRM_CLIENT_IS_READY", conn |-> c]
    <2>1. /\ e \in Cmd /\ workQ' = Append(workQ, e) /\ life[c] = "offered"
          /\ ~closed /\ mpc = "runonce"
          /\ UNCHANGED <<disposed, flushed, streamDict>>
      BY <1>5, AcceptCommits
    <2>2. c \notin disposed
      BY <2>1 DEF FreshIsClean
    <2>3. c \notin flushed
      BY <2>2 DEF StreamOwnership
    <2>4. wpc # "closing"
      BY <2>1 DEF Blocking, BlockingCmd, BlockedIn
    <2>5. NextCallback([type |-> "accept", conn |-> c])
      BY <1>5 DEF OnAcceptClient
    <2>6. [type |-> "accept", conn |-> c] = trunkQ[1] /\ 1 \in 1..Len(trunkQ)
      BY <2>5, NextCallbackType, QueueTypes
    <2>7. trunkQ[1].type = "accept" /\ trunkQ[1].conn = c
      BY <2>6
    <2>8. c \in streamDict
      BY <2>1, <2>4, <2>6, <2>7 DEF AcceptHasStream
    <2>9. CASE d = c
      BY <2>1, <2>2, <2>3, <2>8, <2>9
    <2>10. CASE d # c
      BY <1>1, <2>1, <2>10, ConfirmingPut
    <2>11. QED
      BY <2>9, <2>10
  <1>6. ASSUME NEW c \in Conns, Disposing(c), ~Confirming(c)
        PROVE  Found(d)'
    <2>1. Confirming(d)
      BY <1>2, <1>6, ConfirmingTake DEF Disposing
    <2>2. /\ disposed' = disposed \cup {c} /\ flushed' \subseteq flushed \cup {c}
          /\ UNCHANGED streamDict
      BY <1>6, DisposeFacts DEF Disposing
    <2>3. QED
      BY <1>1, <1>6, <2>1, <2>2
  <1>7. ASSUME ExecConfirm
        PROVE  Found(d)'
    <2>1. /\ Dequeue("CONFIRM_CLIENT_IS_READY")
          /\ streamDict' = streamDict \ {workQ[1].conn}
          /\ UNCHANGED <<disposed, flushed>>
      BY <1>7, ExecConfirmFinds
    <2>2. d # workQ[1].conn
      BY <2>1, ConfirmedOnce
    <2>3. Confirming(d)
      BY <2>1, ConfirmingTake
    <2>4. QED
      BY <1>1, <2>1, <2>2, <2>3
  <1>8. ASSUME ExecOpen \/ ExecPost
        PROVE  Found(d)'
    <2>1. /\ \E type : Dequeue(type)
          /\ UNCHANGED <<disposed, flushed, streamDict>>
      BY <1>8 DEF ExecOpen, ExecPost
    <2>2. Confirming(d)
      BY <2>1, ConfirmingTake
    <2>3. QED
      BY <1>1, <2>1, <2>2
  <1>9. ASSUME ExecClose
        PROVE  Found(d)'
    <2>1. Dequeue("CLOSE_TCP_SERVER") /\ "CLOSE_TCP_SERVER" \in BlockingCmd
      BY <1>9 DEF ExecClose, BlockingCmd
    <2>2. Len(workQ') = 0
      BY <2>1, BlockingTake
    <2>3. QED
      BY <2>2 DEF Confirming
  <1>10. ASSUME ExecFlush
         PROVE  Found(d)'
    <2>1. Dequeue("FLUSH_TCP_SERVER_DOWNSTREAM")
      BY <1>10 DEF ExecFlush
    <2>2. 1 \in 1..Len(workQ) /\ workQ[1].type = "FLUSH_TCP_SERVER_DOWNSTREAM"
      BY <2>1, TakeFacts
    <2>3. closed
      BY <2>2 DEF ClosedIsFinal
    <2>4. Confirming(d)
      BY <2>1, ConfirmingTake
    <2>5. \E i \in 1..Len(workQ) : workQ[i].conn = d /\ workQ[i].type \in ClientCmd
      BY <2>4 DEF Confirming, ClientCmd
    <2>6. d \in Conns
      BY <2>5, QueuedConn DEF ClientCmd, BlockingCmd
    <2>7. QED
      BY <2>3, <2>4, <2>6 DEF ClosedIsFinal
  <1>11. ASSUME NEW c \in Conns,
                AcceptStream(c) \/ TaskFailed(c) \/ LaterOnReleased(c)
         PROVE  UNCHANGED <<workQ, disposed, flushed>>
                  /\ streamDict \subseteq streamDict'
    BY <1>11 DEF AcceptStream, TaskFailed, LaterOnReleased, objVars,
                 serverVars, queueVars
  <1>12. SafeRelease \/ CloseEnd =>
             UNCHANGED <<workQ, disposed, flushed, streamDict>>
    BY DEF SafeRelease, CloseEnd, objVars, serverVars, queueVars
  <1>13. QED
    BY <1>3, <1>4, <1>5, <1>6, <1>7, <1>8, <1>9, <1>10, <1>11, <1>12,
       DisposingCases, ExecDisposing, StepCases DEF streamVars

\* No step breaks StreamOwnership.
LEMMA OwnershipStep ==
    ASSUME TypeOK, StreamOwnership, ConfirmFindsStream, AcceptIsFresh,
           FreshIsClean, ConfirmIsFirst, CommandIsLive, OneOwner, Blocking,
           [Next]_vars
    PROVE  StreamOwnership'
  <1> DEFINE S == /\ disposed \cap owned = {} /\ reading \subseteq owned
                  /\ flushed = disposed
             L(d) == life[d] = "live" /\ d \notin disposed =>
                         d \in owned \/ Confirming(d)
             D(d) == d \in streamDict => life[d] = "offered" \/ Confirming(d)
  <1>1. S /\ (\A d \in Conns : L(d)) /\ (\A d : D(d))
    BY DEF StreamOwnership
  <1>2. SUFFICES S' /\ (\A d \in Conns : L(d)') /\ (\A d : D(d)')
    BY DEF StreamOwnership
  <1> DEFINE Goal == S' /\ (\A d \in Conns : L(d)') /\ (\A d : D(d)')
  <1>3. UNCHANGED workQ => \A d : Confirming(d)' <=> Confirming(d)
    BY DEF Confirming
  <1>4. ASSUME UNCHANGED <<life, disposed, flushed, owned, streamDict>>,
               reading' \subseteq reading,
               \A d : Confirming(d)' <=> Confirming(d)
        PROVE  Goal
    BY <1>1, <1>4
  <1>5. ASSUME NEW e \in Cmd, Committed(e)
        PROVE  Goal
    <2>1. \A d : Confirming(d)' <=> Confirming(d)
      BY <1>5, ConfirmingPut DEF Committed
    <2>2. QED
      BY <1>4, <1>5, <2>1 DEF Committed
  <1>6. ASSUME NEW c \in Conns, OnAcceptClient(c)
        PROVE  Goal
    <2> DEFINE e == [type |-> "CONFIRM_CLIENT_IS_READY", conn |-> c]
    <2>1. /\ e \in Cmd /\ workQ' = Append(workQ, e)
          /\ \A d \in Conns \ {c} : life'[d] = life[d]
          /\ UNCHANGED <<disposed, flushed, owned, reading, streamDict>>
      BY <1>6, AcceptCommits
    <2>2. \A d : Confirming(d)' <=> Confirming(d) \/ d = c
      BY <2>1, ConfirmingPut
    <2>3. \A d \in streamDict : d \in Conns
      BY DEF TypeOK
    <2>4. QED
      BY <1>1, <2>1, <2>2, <2>3
  <1>7. ASSUME NEW c \in Conns, AcceptStream(c)
        PROVE  Goal
    <2>1. /\ life' = [life EXCEPT ![c] = "offered"]
          /\ streamDict' = streamDict \cup {c}
          /\ UNCHANGED <<disposed, flushed, owned, reading, workQ>>
      BY <1>7 DEF AcceptStream
    <2>2. \A d \in Conns : life'[d] = IF d = c THEN "offered" ELSE life[d]
      BY <2>1, LifeTypes
    <2>3. \A d \in streamDict : d \in Conns
      BY DEF TypeOK
    <2>4. QED
      BY <1>1, <1>3, <2>1, <2>2, <2>3
  <1>8. ASSUME NEW c \in Conns, Disposing(c), life[c] = "live", ~Confirming(c)
        PROVE  Goal
    <2>1. \A d : Confirming(d)' <=> Confirming(d)
      <3>1. CASE UNCHANGED workQ
        BY <1>3, <3>1
      <3>2. CASE Dequeue("DISPOSE_CONNECTION")
        BY <3>2, ConfirmingTake
      <3>3. QED
        BY <1>8, <3>1, <3>2 DEF Disposing
    <2>2. c \in owned \/ c \in disposed
      BY <1>1, <1>8
    <2>3. /\ disposed' = disposed \cup {c} /\ owned' = owned \ {c}
          /\ reading' = reading \ {c} /\ flushed' = flushed \cup {c}
          /\ UNCHANGED <<life, streamDict>>
      BY <1>8, <2>2, DisposeFacts DEF Disposing
    <2>4. QED
      BY <1>1, <1>8, <2>1, <2>3
  <1>9. ASSUME ExecConfirm
        PROVE  Goal
    <2>1. /\ Dequeue("CONFIRM_CLIENT_IS_READY")
          /\ workQ[1].conn \notin disposed
          /\ owned' = owned \cup {workQ[1].conn}
          /\ reading' = reading \cup {workQ[1].conn}
          /\ streamDict' = streamDict \ {workQ[1].conn}
          /\ UNCHANGED <<life, disposed, flushed>>
      BY <1>9, ExecConfirmFinds
    <2>2. \A d : d # workQ[1].conn => (Confirming(d)' <=> Confirming(d))
      BY <2>1, ConfirmingTake
    <2>3. S'
      BY <1>1, <2>1
    <2>4. QED
      BY <1>1, <2>1, <2>2, <2>3
  <1>10. ASSUME ExecOpen \/ ExecPost
         PROVE  Goal
    <2>1. /\ Dequeue("OPEN_TCP_SERVER") \/ Dequeue("POST_PACKET")
          /\ UNCHANGED <<disposed, flushed, owned, reading, streamDict>>
      BY <1>10 DEF ExecOpen, ExecPost
    <2>2. UNCHANGED life
      BY <2>1 DEF Dequeue
    <2>3. \A d : Confirming(d)' <=> Confirming(d)
      BY <2>1, ConfirmingTake
    <2>4. QED
      BY <1>4, <2>1, <2>2, <2>3
  <1>11. ASSUME ExecClose \/ ExecFlush
         PROVE  Goal
    <2>1. /\ \/ Dequeue("CLOSE_TCP_SERVER")
             \/ Dequeue("FLUSH_TCP_SERVER_DOWNSTREAM")
          /\ streamDict' \subseteq streamDict
          /\ UNCHANGED <<disposed, flushed, owned, reading>>
      BY <1>11 DEF ExecClose, ExecFlush
    <2>2. UNCHANGED life
      BY <2>1 DEF Dequeue
    <2>3. \A d : Confirming(d)' <=> Confirming(d)
      BY <2>1, ConfirmingTake
    <2>4. QED
      BY <1>1, <2>1, <2>2, <2>3
  <1>12. ASSUME SafeRelease
         PROVE  Goal
    <2>1. /\ life' = [c \in Conns |-> IF c \in safe THEN "released"
                                                    ELSE life[c]]
          /\ UNCHANGED <<disposed, flushed, owned, reading, streamDict, workQ>>
      BY <1>12 DEF SafeRelease, serverVars, queueVars
    <2>2. \A d \in Conns : life'[d] = "live" => life[d] = "live"
      BY <2>1
    <2>3. \A d \in Conns : life[d] = "offered" => life'[d] = "offered"
      BY <2>1 DEF OneOwner
    <2>4. \A d \in streamDict : d \in Conns
      BY DEF TypeOK
    <2>5. QED
      BY <1>1, <1>3, <2>1, <2>2, <2>3, <2>4
  <1>13. ASSUME NEW c \in Conns, TaskFailed(c) \/ LaterOnReleased(c)
         PROVE  /\ UNCHANGED <<life, disposed, flushed, owned, streamDict, workQ>>
                /\ reading' \subseteq reading
    BY <1>13 DEF TaskFailed, LaterOnReleased, objVars, serverVars, queueVars
  <1>14. CloseEnd => UNCHANGED <<life, disposed, flushed, owned, reading,
                                 streamDict, workQ>>
    BY DEF CloseEnd, objVars, queueVars
  <1>15. UNCHANGED streamVars => UNCHANGED <<life, disposed, flushed, owned,
                                            reading, streamDict, workQ>>
    BY DEF streamVars
  <1> HIDE DEF Goal
  <1>16. Goal
    BY <1>3, <1>4, <1>5, <1>6, <1>7, <1>8, <1>9, <1>10, <1>11, <1>12, <1>13,
       <1>14, <1>15, DisposingCases, ExecDisposing, StepCases
  <1>17. QED
    BY <1>16 DEF Goal

-----------------------------------------------------------------------------
(* The streams of accepted connections.                                    *)

HasStreams ==
    \A i \in 1..Len(trunkQ) : trunkQ[i].type = "accept" =>
        trunkQ[i].conn \in streamDict

\* Callbacks are taken, put.
LEMMA HasTake ==
    ASSUME TypeOK, HasStreams, NEW cb, NextCallback(cb)
    PROVE  HasStreams'
  <1>1. /\ Len(trunkQ) \in Nat /\ Len(trunkQ) >= 1
        /\ Len(trunkQ') = Len(trunkQ) - 1
        /\ \A i \in 1..(Len(trunkQ) - 1) : trunkQ'[i] = trunkQ[i + 1]
    BY NextCallbackType, QueueTypes
  <1>2. UNCHANGED streamDict
    BY DEF NextCallback, serverVars
  <1>3. ASSUME NEW i \in 1..Len(trunkQ')
        PROVE  i + 1 \in 1..Len(trunkQ) /\ trunkQ'[i] = trunkQ[i + 1]
    BY <1>1
  <1>4. QED
    BY <1>2, <1>3 DEF HasStreams

LEMMA HasPut ==
    ASSUME TypeOK, HasStreams, NEW c \in Conns,
           NEW type \in ClientCb \cup {"accept"},
           trunkQ' = Append(trunkQ, [type |-> type, conn |-> c]),
           streamDict \subseteq streamDict',
           type = "accept" => c \in streamDict'
    PROVE  HasStreams'
  <1>1. /\ Len(trunkQ') = Len(trunkQ) + 1 /\ Len(trunkQ) \in Nat
        /\ trunkQ'[Len(trunkQ) + 1] = [type |-> type, conn |-> c]
        /\ \A i \in 1..Len(trunkQ) : trunkQ'[i] = trunkQ[i]
    BY CallbackType, QueueTypes
  <1>2. ASSUME NEW i \in 1..Len(trunkQ'), trunkQ'[i].type = "accept"
        PROVE  trunkQ'[i].conn \in streamDict'
    <2>1. i \in 1..Len(trunkQ) \/ i = Len(trunkQ) + 1
      BY <1>1
    <2>2. CASE i \in 1..Len(trunkQ)
      BY <1>1, <1>2, <2>2 DEF HasStreams
    <2>3. CASE i = Len(trunkQ) + 1
      BY <1>1, <1>2, <2>3, SMTT(30)
    <2>4. QED
      BY <2>1, <2>2, <2>3
  <1>3. QED
    BY <1>2 DEF HasStreams

\* The walk of Close ends with the server closed.
LEMMA ClosingStays ==
    ASSUME TypeOK, Blocking, [Next]_vars, wpc = "closing"
    PROVE  wpc' = "closing" \/ closed'
  <1>0. mpc # "runonce"
    BY DEF Blocking, BlockedIn, BlockingCmd
  <1>1. ASSUME NEW c \in Conns, CallbackOnReleased(c)
        PROVE  FALSE
    BY <1>0, <1>1 DEF CallbackOnReleased, NextCallback
  <1>2. ASSUME NEW c \in Conns, LaterOnReleased(c)
        PROVE  FALSE
    BY <1>2 DEF LaterOnReleased
  <1>3. ASSUME NEW c \in Conns, DisposeDownStream(c)
        PROVE  UNCHANGED wpc
    BY <1>3 DEF DisposeDownStream
  <1>4. ~(ListenThrows \/ WorkerQuit \/ StartDrain \/ DrainEnd \/ ResultCb)
    BY DEF ListenThrows, WorkerQuit, StartDrain, DrainEnd, ResultCb
  <1>5. ~(ExecOpen \/ ExecClose \/ ExecDispose \/ ExecPost \/ ExecFlush
            \/ ExecConfirm)
    BY DEF ExecOpen, ExecClose, ExecDispose, ExecPost, ExecFlush, ExecConfirm,
           Dequeue
  <1>6. CloseEnd => closed'
    BY DEF CloseEnd
  <1>7. QED
    BY <1>1, <1>2, <1>3, <1>4, <1>5, <1>6, WorkerFrame

\* No step breaks AcceptHasStream.
LEMMA HasStreamStep ==
    ASSUME TypeOK, AcceptHasStream, AcceptIsFresh, ConfirmFindsStream,
           CommandIsLive, ClosedIsFinal, Blocking, [Next]_vars
    PROVE  AcceptHasStream'
  <1>1. CASE closed
    BY <1>1, ClosedFrame DEF AcceptHasStream
  <1>2. CASE wpc = "closing"
    BY <1>2, ClosingStays DEF AcceptHasStream
  <1>3. CASE HasStreams /\ ~closed
    <2>1. UNCHANGED <<trunkQ, streamDict>> => HasStreams'
      BY <1>3 DEF HasStreams
    <2>2. ASSUME NEW c \in Conns,
                 OnAcceptClient(c) \/ IgnoreAccept(c) \/ OnDisconnectCb(c)
                   \/ OnPacketCb(c) \/ CallbackOnReleased(c)
          PROVE  HasStreams'
      <3>1. \E cb : NextCallback(cb)
        BY <2>2 DEF OnAcceptClient, IgnoreAccept, OnDisconnectCb, OnPacketCb,
                    CallbackOnReleased
      <3>2. QED
        BY <1>3, <3>1, HasTake
    <2>3. ASSUME NEW c \in Conns, AcceptStream(c)
          PROVE  HasStreams'
      <3>1. /\ trunkQ' = Append(trunkQ, [type |-> "accept", conn |-> c])
            /\ streamDict' = streamDict \cup {c}
        BY <2>3 DEF AcceptStream
      <3>2. QED
        BY <1>3, <3>1, HasPut
    <2>4. ASSUME NEW c \in Conns, OnGotPacket(c) \/ OnDisposeClient(c)
                                    \/ DisposeDownStream(c)
          PROVE  HasStreams'
      <3>1. \E type \in ClientCb :
                trunkQ' = Append(trunkQ, [type |-> type, conn |-> c])
        BY <2>4 DEF OnGotPacket, OnDisposeClient, DisposeDownStream,
                    AddClientCb, ClientCb
      <3>2. UNCHANGED streamDict /\ "accept" \notin ClientCb
        BY <2>4 DEF OnGotPacket, OnDisposeClient, DisposeDownStream,
                    serverVars, ClientCb
      <3>3. QED
        BY <1>3, <3>1, <3>2, HasPut
    <2>5. ASSUME NEW c \in Conns, LaterOnReleased(c)
          PROVE  HasStreams'
      <3>1. UNCHANGED trunkQ \/ \E type \in ClientCb :
                trunkQ' = Append(trunkQ, [type |-> type, conn |-> c])
        BY <2>5 DEF LaterOnReleased, ClientCb
      <3>2. UNCHANGED streamDict /\ "accept" \notin ClientCb
        BY <2>5 DEF LaterOnReleased, serverVars, ClientCb
      <3>3. QED
        BY <1>3, <2>1, <3>1, <3>2, HasPut
    <2>6. ASSUME NEW c \in Conns, TaskFailed(c)
          PROVE  HasStreams'
      BY <2>1, <2>6 DEF TaskFailed, serverVars, queueVars
    <2>7. ExecClose => wpc' = "closing"
      BY DEF ExecClose
    <2>8. ExecDispose => HasStreams'
      BY <2>1 DEF ExecDispose, Dequeue
    <2>9. ASSUME ExecFlush
          PROVE  FALSE
      <3>1. /\ 1 \in 1..Len(workQ)
            /\ workQ[1].type = "FLUSH_TCP_SERVER_DOWNSTREAM"
        BY <2>9, TakeFacts DEF ExecFlush
      <3>2. QED
        BY <1>3, <3>1 DEF ClosedIsFinal
    <2>10. ASSUME ExecConfirm
           PROVE  HasStreams'
      <3>1. /\ life[workQ[1].conn] = "live"
            /\ streamDict' = streamDict \ {workQ[1].conn}
        BY <2>10, ExecConfirmFinds
      <3>2. UNCHANGED trunkQ
        BY <2>10 DEF ExecConfirm, Dequeue
      <3>3. \A i \in 1..Len(trunkQ) : trunkQ[i].type = "accept" =>
                trunkQ[i].conn # workQ[1].conn
        BY <3>1 DEF AcceptIsFresh
      <3>4. QED
        BY <1>3, <3>1, <3>2, <3>3 DEF HasStreams
    <2>11. HasStreams' \/ wpc' = "closing"
      BY <2>1, <2>2, <2>3, <2>4, <2>5, <2>6, <2>7, <2>8, <2>9, <2>10,
         TrunkQueueFrame, StreamFrame
    <2>12. QED
      BY <2>11 DEF AcceptHasStream, HasStreams
  <1>4. QED
    BY <1>1, <1>2, <1>3 DEF AcceptHasStream, HasStreams

-----------------------------------------------------------------------------
(* RecyclerPop.                                                            *)

\* No step breaks WalkInRecycler.
LEMMA WalkStep ==
    ASSUME TypeOK, WalkInRecycler, [Next]_vars
    PROVE  WalkInRecycler'
  <1>1. ASSUME mpc' \notin {"recycle", "recycle2"}
        PROVE  WalkInRecycler'
    BY <1>1 DEF WalkInRecycler
  <1>2. OpenTcpServer \/ OpenAnswered \/ StartRunOnce \/ CloseTcpServer
          \/ CloseAnswered \/ Stop \/ ListenThrows =>
            mpc' \notin {"recycle", "recycle2"}
    BY DEF OpenTcpServer, OpenAnswered, StartRunOnce, CloseTcpServer,
           CloseAnswered, Stop, ListenThrows, Crash
  <1>3. ASSUME UNCHANGED <<mpc, walk, cur>>, recycler \subseteq recycler'
        PROVE  WalkInRecycler'
    BY <1>3 DEF WalkInRecycler
  <1>4. ASSUME NEW c \in Conns, CallbackOnReleased(c) \/ LaterOnReleased(c)
        PROVE  WalkInRecycler'
    <2>1. UNCHANGED <<walk, cur, recycler>>
      BY <1>4 DEF CallbackOnReleased, LaterOnReleased, NextCallback, mgrVars
    <2>2. mpc' = mpc \/ mpc' = "crashed"
      BY <1>4 DEF CallbackOnReleased, LaterOnReleased, Crash
    <2>3. QED
      BY <1>1, <1>3, <2>1, <2>2
  <1>5. ResultCb => UNCHANGED <<mpc, walk, cur, recycler>>
    BY DEF ResultCb, mainVars, mgrVars
  <1>6. CASE RunOnceEnd \/ StartRecycle \/ ReleaseEnd
    <2>1. mpc' = "run" \/ (mpc' = "recycle" /\ walk' = recycler)
      BY <1>6 DEF RunOnceEnd, StartRecycle, ReleaseEnd
    <2>2. UNCHANGED recycler
      BY <1>6 DEF RunOnceEnd, StartRecycle, ReleaseEnd, mgrVars
    <2>3. QED
      BY <1>1, <2>1, <2>2 DEF WalkInRecycler
  <1>7. ASSUME NEW c \in Conns, RecyclerPopFirst(c)
        PROVE  WalkInRecycler'
    <2>1. /\ mpc = "recycle" /\ c \in walk /\ walk' = walk \ {c}
          /\ UNCHANGED recycler
          /\ mpc' = "recycle" \/ (mpc' = "recycle2" /\ cur' = c)
      BY <1>7 DEF RecyclerPopFirst, mgrVars
    <2>2. QED
      BY <2>1 DEF WalkInRecycler
  <1>8. CASE RecyclerPopSecond
    <2>1. /\ mpc = "recycle2" /\ mpc' = "recycle" /\ UNCHANGED walk
          /\ recycler' = recycler \/ recycler' = recycler \ {cur}
      BY <1>8 DEF RecyclerPopSecond
    <2>2. QED
      BY <2>1 DEF WalkInRecycler
  <1>9. CASE SafeRelease
    <2>1. /\ mpc = "recycle" /\ UNCHANGED recycler
          /\ \/ mpc' \in {"run", "runonce", "finish"}
             \/ mpc' = "recycle" /\ walk' = recycler
      BY <1>9 DEF SafeRelease
    <2>2. QED
      BY <1>1, <2>1 DEF WalkInRecycler
  <1>10. ASSUME NEW c \in Conns, Disconnect(c) \/ OnDisconnectCb(c)
                  \/ ReleaseClient(c) \/ OnAcceptClient(c) \/ AcceptStream(c)
         PROVE  recycler \subseteq recycler'
    BY <1>10 DEF Disconnect, OnDisconnectCb, ReleaseClient, OnRemoveClient,
                 OnAcceptClient, AcceptStream, mgrVars
  <1>11. QED
    BY <1>1, <1>2, <1>3, <1>4, <1>5, <1>6, <1>7, <1>8, <1>9, <1>10,
       MainFrame, ManagerFrame

=============================================================================
