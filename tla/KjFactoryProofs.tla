--------------------------- MODULE KjFactoryProofs ---------------------------
(***************************************************************************)
(* The safety invariants of KjFactory, for every set of connections and    *)
(* every bound: the last induction steps (blocking commands, closing), the *)
(* induction itself, and the theorems; then that nobody waits in vain, and *)
(* that KjFactory implements ClientLife.                                   *)
(***************************************************************************)
EXTENDS KjFactoryStreams

-----------------------------------------------------------------------------
(* Blocking commands.                                                      *)

\* No blocking command is under way.
NoBlocking ==
    /\ \A i \in 1..Len(workQ) : workQ[i].type \notin BlockingCmd
    /\ wcmd.type \notin BlockingCmd

\* The parts of Blocking.
LEMMA BlockingParts ==
    ASSUME Blocking
    PROVE  /\ mpc = "crashed" <=> wpc = "crashed"
           /\ \A i \in 1..Len(workQ) : workQ[i].type \in BlockingCmd =>
                  /\ i = Len(workQ) /\ answered = FALSE
                  /\ mpc \in {BlockedIn(workQ[i].type), "crashed"}
           /\ wcmd.type \in BlockingCmd =>
                  /\ workQ = <<>> /\ answered = FALSE
                  /\ mpc = BlockedIn(wcmd.type)
                  /\ wpc \in {"closing", "result"}
           /\ wpc \in {"poll", "drain", "finished"} => wcmd = NoCmd
           /\ wpc = "closing" =>
                  wcmd.type = "CLOSE_TCP_SERVER" /\ todo \subseteq clients
  BY DEF Blocking

\* The main thread is awake only when none is.
LEMMA AwakeNoBlocking ==
    ASSUME Blocking,
           mpc \notin {"opening", "closing", "crashed"} \/ answered = TRUE
    PROVE  NoBlocking
  <1>1. \A type : BlockedIn(type) \in {"opening", "closing"}
    BY DEF BlockedIn
  <1>2. ASSUME NEW i \in 1..Len(workQ), workQ[i].type \in BlockingCmd
        PROVE  FALSE
    <2>1. mpc \in {BlockedIn(workQ[i].type), "crashed"} /\ answered = FALSE
      BY <1>2, BlockingParts
    <2>2. QED
      BY <1>1, <2>1
  <1>3. ASSUME wcmd.type \in BlockingCmd
        PROVE  FALSE
    <2>1. mpc = BlockedIn(wcmd.type) /\ answered = FALSE
      BY <1>3, BlockingParts
    <2>2. QED
      BY <1>1, <2>1
  <1>4. QED
    BY <1>2, <1>3 DEF NoBlocking

\* A step of the main thread that commits no blocking command.
LEMMA MainBlocking ==
    ASSUME Blocking, NoBlocking, NoBlocking', UNCHANGED <<wpc, wcmd>>,
           mpc # "crashed", mpc' # "crashed"
    PROVE  Blocking'
  <1>1. wpc # "crashed" /\ wpc # "closing"
    BY BlockingParts DEF NoBlocking, BlockingCmd
  <1>2. wpc \in {"poll", "drain", "finished"} => wcmd = NoCmd
    BY BlockingParts
  <1>3. QED
    BY <1>1, <1>2 DEF Blocking, NoBlocking

\* What it commits.
LEMMA NoBlockingPut ==
    ASSUME TypeOK, NoBlocking, UNCHANGED wcmd, NEW e \in Cmd,
           workQ' = Append(workQ, e), e.type \notin BlockingCmd
    PROVE  NoBlocking'
  BY PutFacts DEF NoBlocking

\* The main thread commits commands about clients while it is awake.
LEMMA AwakeCommits ==
    ASSUME TypeOK, NoBlocking, NEW c \in Conns,
           \/ SendPacket(c) \/ Disconnect(c) \/ OnAcceptClient(c)
           \/ IgnoreAccept(c) \/ OnDisconnectCb(c) \/ ReleaseClient(c)
    PROVE  NoBlocking' /\ UNCHANGED <<wpc, wcmd, mpc>>
  <1>1. UNCHANGED <<wpc, wcmd, mpc>>
    BY DEF SendPacket, Disconnect, OnAcceptClient, IgnoreAccept,
           OnDisconnectCb, ReleaseClient, NextCallback, workVars, mainVars
  <1>2. UNCHANGED workQ \/ \E type \in ClientCmd
                                  \cup {"FLUSH_TCP_SERVER_DOWNSTREAM"} :
                               Commit(type, c)
    <2>1. OnRemoveClient(c) =>
              UNCHANGED workQ \/ Commit("DISPOSE_CONNECTION", c)
      BY DEF OnRemoveClient, CommitFor
    <2>2. \/ Commit("POST_PACKET", c) \/ OnRemoveClient(c)
          \/ Commit("CONFIRM_CLIENT_IS_READY", c)
          \/ Commit("FLUSH_TCP_SERVER_DOWNSTREAM", c)
      BY DEF SendPacket, Disconnect, OnAcceptClient, IgnoreAccept,
             OnDisconnectCb, ReleaseClient, CommitFor
    <2>3. QED
      BY <2>1, <2>2 DEF ClientCmd
  <1>3. CASE UNCHANGED workQ
    BY <1>1, <1>3 DEF NoBlocking
  <1>4. ASSUME NEW type \in ClientCmd \cup {"FLUSH_TCP_SERVER_DOWNSTREAM"},
               Commit(type, c)
        PROVE  NoBlocking'
    <2>1. /\ [type |-> type, conn |-> c] \in Cmd
          /\ workQ' = Append(workQ, [type |-> type, conn |-> c])
      BY <1>4, CommitType, QueueTypes DEF Commit
    <2>2. type \notin BlockingCmd
      BY DEF ClientCmd, BlockingCmd
    <2>3. QED
      BY <1>1, <2>1, <2>2, NoBlockingPut
  <1>5. QED
    BY <1>1, <1>2, <1>3, <1>4

\* Steps of the main thread that commit nothing.
LEMMA AwakeQuiet ==
    ASSUME Blocking, UNCHANGED <<workQ, wcmd, wpc>>, mpc' # "crashed",
           \/ mpc \notin {"opening", "closing", "crashed"}
           \/ mpc # "crashed" /\ answered = TRUE
    PROVE  Blocking'
  <1>1. NoBlocking
    BY AwakeNoBlocking
  <1>2. NoBlocking'
    BY <1>1 DEF NoBlocking
  <1>3. QED
    BY <1>1, <1>2, MainBlocking

\* A non-blocking command is taken.
LEMMA TakeBlocking ==
    ASSUME TypeOK, Blocking, NEW type, type \notin BlockingCmd, Dequeue(type),
           wpc' = "result"
    PROVE  Blocking'
  <1>1. wpc = "drain" /\ UNCHANGED <<mpc, answered>>
    BY DEF Dequeue, mainVars
  <1>2. mpc' # "crashed"
    BY <1>1, BlockingParts
  <1>3. ASSUME NEW i \in 1..Len(workQ'), workQ'[i].type \in BlockingCmd
        PROVE  /\ i = Len(workQ') /\ answered' = FALSE
               /\ mpc' \in {BlockedIn(workQ'[i].type), "crashed"}
    <2>1. /\ i + 1 \in 1..Len(workQ) /\ workQ'[i] = workQ[i + 1]
          /\ Len(workQ') = Len(workQ) - 1 /\ Len(workQ) \in Nat
      BY TakeFacts
    <2>2. /\ i + 1 = Len(workQ) /\ answered = FALSE
          /\ mpc \in {BlockedIn(workQ[i + 1].type), "crashed"}
      BY <1>3, <2>1, BlockingParts
    <2>3. QED
      BY <1>1, <2>1, <2>2
  <1>4. wcmd'.type \notin BlockingCmd
    BY TakeFacts
  <1>5. QED
    BY <1>2, <1>3, <1>4 DEF Blocking

\* A blocking command is taken.
LEMMA TakeBlockingCmd ==
    ASSUME TypeOK, Blocking, NEW type \in BlockingCmd, Dequeue(type),
           wpc' \in {"closing", "result"},
           wpc' = "closing" => type = "CLOSE_TCP_SERVER" /\ todo' \subseteq clients'
    PROVE  Blocking'
  <1>1. wpc = "drain" /\ UNCHANGED <<mpc, answered>>
    BY DEF Dequeue, mainVars
  <1>2. mpc # "crashed"
    BY <1>1, BlockingParts
  <1>3. Len(workQ') = 0 /\ Len(workQ) = 1
    BY BlockingTake
  <1>4. workQ' = <<>>
    <2>1. workQ' \in Seq(Cmd)
      BY DequeueType, QueueTypes
    <2>2. QED
      BY <1>3, <2>1
  <1>5. wcmd' = workQ[1] /\ workQ[1].type = type /\ 1 \in 1..Len(workQ)
    BY TakeFacts
  <1>6. answered = FALSE /\ mpc = BlockedIn(type)
    BY <1>2, <1>5, BlockingParts
  <1>7. QED
    BY <1>1, <1>2, <1>3, <1>4, <1>5, <1>6 DEF Blocking

\* No step breaks Blocking.
LEMMA BlockingStep ==
    ASSUME TypeOK, Blocking, [Next]_vars
    PROVE  Blocking'
  <1>1. CASE OpenTcpServer \/ CloseTcpServer
    <2>1. PICK type \in BlockingCmd :
                   BlockingCommit(type) /\ mpc' = BlockedIn(type)
      BY <1>1 DEF OpenTcpServer, CloseTcpServer, BlockingCmd, BlockedIn
    <2>2. mpc \in {"init", "run"} /\ UNCHANGED <<wpc, wcmd>>
      BY <1>1 DEF OpenTcpServer, CloseTcpServer, workVars
    <2>3. NoBlocking
      BY <2>2, AwakeNoBlocking
    <2>4. /\ Len(workQ') = Len(workQ) + 1 /\ Len(workQ) \in Nat
          /\ workQ'[Len(workQ) + 1] = [type |-> type, conn |-> NoConn]
          /\ \A i \in 1..Len(workQ) : workQ'[i] = workQ[i]
          /\ answered' = FALSE
      BY <2>1, BlockingCommitType, QueueTypes
    <2>5. ASSUME NEW i \in 1..Len(workQ'), workQ'[i].type \in BlockingCmd
          PROVE  i = Len(workQ') /\ workQ'[i].type = type
      <3>1. i \notin 1..Len(workQ)
        BY <2>3, <2>4, <2>5 DEF NoBlocking
      <3>2. i = Len(workQ) + 1
        BY <2>4, <3>1
      <3>3. QED
        BY <2>4, <3>2
    <2>6. wpc # "crashed" /\ wpc # "closing" /\ wcmd'.type \notin BlockingCmd
      BY <2>2, <2>3, BlockingParts DEF NoBlocking, BlockingCmd
    <2>7. wpc \in {"poll", "drain", "finished"} => wcmd = NoCmd
      BY BlockingParts
    <2>8. mpc' # "crashed"
      BY <2>1 DEF BlockedIn
    <2>9. QED
      BY <2>1, <2>2, <2>4, <2>5, <2>6, <2>7, <2>8 DEF Blocking
  <1>2. ASSUME NEW c \in Conns,
               \/ SendPacket(c) \/ Disconnect(c) \/ OnAcceptClient(c)
               \/ IgnoreAccept(c) \/ OnDisconnectCb(c) \/ ReleaseClient(c)
        PROVE  Blocking'
    <2>1. mpc \in {"run", "runonce", "releasing"}
      BY <1>2 DEF SendPacket, Disconnect, OnAcceptClient, IgnoreAccept,
                  OnDisconnectCb, ReleaseClient, NextCallback, AppMayCall
    <2>2. NoBlocking
      BY <2>1, AwakeNoBlocking
    <2>3. QED
      BY <1>2, <2>1, <2>2, AwakeCommits, MainBlocking
  <1>3. CASE OpenAnswered \/ CloseAnswered
    <2>1. /\ answered = TRUE /\ mpc # "crashed" /\ mpc' # "crashed"
      BY <1>3 DEF OpenAnswered, CloseAnswered, TypeOK
    <2>2. UNCHANGED <<workQ, wcmd, wpc>>
      BY <1>3 DEF OpenAnswered, CloseAnswered, queueVars, workVars
    <2>3. QED
      BY <2>1, <2>2, AwakeQuiet
  <1>4. CASE StartRunOnce \/ RunOnceEnd \/ StartRecycle \/ RecyclerPopSecond
               \/ SafeRelease \/ ReleaseEnd \/ Stop
    <2>1. /\ mpc \in {"run", "runonce", "recycle", "recycle2", "releasing",
                      "finish"}
          /\ mpc' # "crashed"
      BY <1>4 DEF StartRunOnce, RunOnceEnd, StartRecycle, RecyclerPopSecond,
                  SafeRelease, ReleaseEnd, Stop
    <2>2. UNCHANGED <<workQ, wcmd, wpc>>
      BY <1>4 DEF StartRunOnce, RunOnceEnd, StartRecycle, RecyclerPopSecond,
                  SafeRelease, ReleaseEnd, Stop, queueVars, workVars
    <2>3. QED
      BY <2>1, <2>2, AwakeQuiet
  <1>5. ASSUME NEW c \in Conns, RecyclerPopFirst(c)
        PROVE  Blocking'
    <2>1. mpc = "recycle" /\ mpc' # "crashed" /\ UNCHANGED <<workQ, wcmd, wpc>>
      BY <1>5 DEF RecyclerPopFirst, queueVars, workVars
    <2>2. QED
      BY <2>1, AwakeQuiet
  <1>6. ASSUME NEW c \in Conns, CallbackOnReleased(c)
        PROVE  Blocking'
    <2>1. /\ mpc = "runonce" /\ UNCHANGED <<workQ, wcmd>>
          /\ Crash \/ UNCHANGED <<mpc, wpc>>
      BY <1>6 DEF CallbackOnReleased, NextCallback
    <2>2. CASE UNCHANGED <<mpc, wpc>>
      BY <2>1, <2>2, AwakeQuiet
    <2>3. CASE Crash
      <3>1. NoBlocking'
        BY <2>1, AwakeNoBlocking DEF NoBlocking
      <3>2. QED
        BY <2>3, <3>1 DEF Blocking, NoBlocking, Crash
    <2>4. QED
      BY <2>1, <2>2, <2>3
  <1>7. ASSUME UNCHANGED <<workQ, wcmd, answered>>, wcmd = NoCmd, Crash
        PROVE  Blocking'
    <2>1. wcmd.type \notin BlockingCmd
      BY <1>7 DEF NoCmd, BlockingCmd
    <2>2. QED
      BY <1>7, <2>1 DEF Blocking, Crash
  <1>8. ASSUME UNCHANGED <<workQ, wcmd, answered, mpc, wpc, todo, clients>>
        PROVE  Blocking'
    BY <1>8 DEF Blocking
  <1>9. ASSUME NEW c \in Conns, LaterOnReleased(c)
        PROVE  Blocking'
    <2>1. /\ wpc = "poll" /\ UNCHANGED <<workQ, wcmd, answered, todo, clients>>
          /\ Crash \/ UNCHANGED <<mpc, wpc>>
      BY <1>9 DEF LaterOnReleased, mgrVars
    <2>2. QED
      BY <1>7, <1>8, <2>1, BlockingParts
  <1>10. CASE ListenThrows
    <2>1. /\ wpc \in {"poll", "drain"} /\ Crash
          /\ UNCHANGED <<workQ, wcmd, answered>>
      BY <1>10 DEF ListenThrows, queueVars
    <2>2. QED
      BY <1>7, <2>1, BlockingParts
  <1>11. CASE WorkerQuit \/ StartDrain \/ DrainEnd
    <2>1. /\ wpc \in {"poll", "drain"} /\ wpc' \in {"poll", "drain", "finished"}
          /\ UNCHANGED <<workQ, wcmd, answered, mpc>>
      BY <1>11 DEF WorkerQuit, StartDrain, DrainEnd, queueVars, mainVars
    <2>2. wcmd = NoCmd /\ mpc # "crashed"
      BY <2>1, BlockingParts
    <2>3. wcmd.type \notin BlockingCmd
      BY <2>2 DEF NoCmd, BlockingCmd
    <2>4. QED
      BY <2>1, <2>2, <2>3 DEF Blocking
  <1>12. CASE ExecDispose \/ ExecPost \/ ExecFlush \/ ExecConfirm
    <2>1. /\ wpc' = "result"
          /\ \E type \in {"DISPOSE_CONNECTION", "POST_PACKET",
                          "FLUSH_TCP_SERVER_DOWNSTREAM",
                          "CONFIRM_CLIENT_IS_READY"} : Dequeue(type)
      BY <1>12 DEF ExecDispose, ExecPost, ExecFlush, ExecConfirm
    <2>2. QED
      BY <2>1, TakeBlocking DEF BlockingCmd
  <1>13. CASE ExecOpen
    <2>1. Dequeue("OPEN_TCP_SERVER") /\ wpc' = "result"
      BY <1>13 DEF ExecOpen
    <2>2. "OPEN_TCP_SERVER" \in BlockingCmd
      BY DEF BlockingCmd
    <2>3. QED
      BY <2>1, <2>2, TakeBlockingCmd
  <1>14. CASE ExecClose
    <2>1. Dequeue("CLOSE_TCP_SERVER") /\ wpc' = "closing" /\ todo' = clients'
      BY <1>14 DEF ExecClose, Dequeue, mgrVars
    <2>2. "CLOSE_TCP_SERVER" \in BlockingCmd
      BY DEF BlockingCmd
    <2>3. QED
      BY <2>1, <2>2, TakeBlockingCmd
  <1>15. ASSUME NEW c \in Conns, DisposeDownStream(c)
         PROVE  Blocking'
    <2>1. /\ todo' \subseteq todo
          /\ UNCHANGED <<workQ, wcmd, answered, mpc, wpc, clients>>
      BY <1>15 DEF DisposeDownStream, mgrVars, mainVars
    <2>2. QED
      BY <2>1 DEF Blocking
  <1>16. CASE CloseEnd
    <2>1. /\ wpc = "closing" /\ wpc' = "result"
          /\ UNCHANGED <<workQ, wcmd, answered, mpc>>
      BY <1>16 DEF CloseEnd, queueVars, mainVars
    <2>2. QED
      BY <2>1 DEF Blocking
  <1>17. CASE ResultCb
    <2>1. /\ wpc = "result" /\ wpc' = "drain" /\ wcmd' = NoCmd
          /\ UNCHANGED <<workQ, mpc>>
          /\ wcmd.type \notin BlockingCmd => answered' = answered
      BY <1>17 DEF ResultCb, mainVars, TypeOK
    <2>2. wcmd'.type \notin BlockingCmd
      BY <2>1 DEF NoCmd, BlockingCmd
    <2>3. mpc # "crashed"
      BY <2>1, BlockingParts
    <2>4. CASE wcmd.type \in BlockingCmd
      <3>1. workQ = <<>>
        BY <2>4, BlockingParts
      <3>2. QED
        BY <2>1, <2>2, <2>3, <3>1 DEF Blocking
    <2>5. CASE wcmd.type \notin BlockingCmd
      <3>1. answered' = answered
        BY <2>1, <2>5
      <3>2. QED
        BY <2>1, <2>2, <2>3, <3>1 DEF Blocking
    <2>6. QED
      BY <2>4, <2>5
  <1>18. ASSUME NEW c \in Conns, AcceptStream(c)
         PROVE  Blocking'
    BY <1>8, <1>18 DEF AcceptStream, mgrVars, mainVars, workVars
  <1>19. QED
    BY <1>1, <1>2, <1>3, <1>4, <1>5, <1>6, <1>8, <1>9, <1>10, <1>11, <1>12,
       <1>13, <1>14, <1>15, <1>16, <1>17, <1>18, MainFrame, WorkerFrame,
       WorkQueueFrame, ManagerFrame

-----------------------------------------------------------------------------
(* After Close.                                                            *)

\* The parts of ClosedIsFinal.
LEMMA ClosedParts ==
    ASSUME ClosedIsFinal
    PROVE  /\ mpc = "closing" /\ answered = TRUE => closed
           /\ mpc \in {"releasing", "finish", "stopped"} => closed
           /\ mret # "run" => closed
           /\ wpc = "result" /\ wcmd.type = "CLOSE_TCP_SERVER" => closed
           /\ closed => \A c \in Conns : ~Confirming(c)
           /\ \A i \in 1..Len(workQ) :
                  workQ[i].type = "FLUSH_TCP_SERVER_DOWNSTREAM" => closed
  BY DEF ClosedIsFinal

\* Once the server is closed, no step queues a confirmation.
LEMMA NoConfirmStep ==
    ASSUME TypeOK, ClosedIsFinal, Blocking, AcceptIsFresh, [Next]_vars, closed'
    PROVE  \A c \in Conns : ~Confirming(c)'
  <1> SUFFICES ASSUME NEW d \in Conns
               PROVE  ~Confirming(d)'
    OBVIOUS
  <1>1. CASE CloseEnd
    <2>1. wpc = "closing" /\ UNCHANGED workQ
      BY <1>1 DEF CloseEnd, queueVars
    <2>2. wcmd.type \in BlockingCmd
      BY <2>1, BlockingParts DEF BlockingCmd
    <2>3. workQ' = <<>>
      BY <2>1, <2>2, BlockingParts
    <2>4. QED
      BY <2>3 DEF Confirming
  <1>2. ASSUME UNCHANGED closed
        PROVE  ~Confirming(d)'
    <2>1. ~Confirming(d) /\ closed
      BY <1>2, ClosedParts
    <2>2. UNCHANGED workQ => ~Confirming(d)'
      BY <2>1 DEF Confirming
    <2>3. ASSUME NEW e \in Cmd, Committed(e)
          PROVE  ~Confirming(d)'
      BY <2>1, <2>3, ConfirmingPut DEF Committed
    <2>4. ASSUME NEW c \in Conns, OnAcceptClient(c)
          PROVE  FALSE
      BY <2>1, <2>4, AcceptCommits
    <2>5. ASSUME NEW type, Dequeue(type)
          PROVE  ~Confirming(d)'
      BY <2>1, <2>5, ConfirmingTake
    <2>6. QED
      BY <2>2, <2>3, <2>4, <2>5, QuietQueue, ExecDequeues, StepCases
         DEF streamVars
  <1>3. QED
    BY <1>1, <1>2, ClosedFrame

\* A flush is queued only on a closed server.
LEMMA FlushStep ==
    ASSUME TypeOK, ClosedIsFinal, AcceptIsFresh, [Next]_vars
    PROVE  \A i \in 1..Len(workQ') :
               workQ'[i].type = "FLUSH_TCP_SERVER_DOWNSTREAM" => closed'
  <1> DEFINE Goal == \A i \in 1..Len(workQ') :
               workQ'[i].type = "FLUSH_TCP_SERVER_DOWNSTREAM" => closed'
  <1>1. closed => closed'
    BY ClosedFrame
  <1>2. \A i \in 1..Len(workQ) :
            workQ[i].type = "FLUSH_TCP_SERVER_DOWNSTREAM" => closed'
    BY <1>1, ClosedParts
  <1>3. UNCHANGED workQ => Goal
    BY <1>2
  <1>4. ASSUME NEW e \in Cmd, Committed(e)
        PROVE  Goal
    BY <1>1, <1>2, <1>4, PutFacts DEF Committed
  <1>5. ASSUME NEW c \in Conns, OnAcceptClient(c)
        PROVE  Goal
    <2> DEFINE e == [type |-> "CONFIRM_CLIENT_IS_READY", conn |-> c]
    <2>1. e \in Cmd /\ workQ' = Append(workQ, e)
      BY <1>5, AcceptCommits
    <2>2. QED
      BY <1>2, <2>1, PutFacts
  <1>6. ASSUME NEW type, Dequeue(type)
        PROVE  Goal
    BY <1>2, <1>6, TakeFacts
  <1> HIDE DEF Goal
  <1>7. Goal
    BY <1>3, <1>4, <1>5, <1>6, QuietQueue, ExecDequeues, StepCases
       DEF streamVars
  <1>8. QED
    BY <1>7 DEF Goal

\* No step breaks ClosedIsFinal.
LEMMA ClosedStep ==
    ASSUME TypeOK, ClosedIsFinal, Blocking, AcceptIsFresh, [Next]_vars
    PROVE  ClosedIsFinal'
  <1> DEFINE A == mpc = "closing" /\ answered = TRUE => closed
             B == mpc \in {"releasing", "finish", "stopped"} => closed
             R == mret # "run" => closed
             C == wpc = "result" /\ wcmd.type = "CLOSE_TCP_SERVER" => closed
  <1>1. (A /\ B /\ R /\ C)' => ClosedIsFinal'
    <2>1. answered' \in BOOLEAN
      BY TypeStep DEF TypeOK
    <2>2. QED
      BY <2>1, NoConfirmStep, FlushStep DEF ClosedIsFinal
  <1>2. A /\ B /\ R /\ C /\ (closed => closed')
    BY ClosedParts, ClosedFrame
  <1>3. CASE closed'
    BY <1>1, <1>3
  <1>4. CASE ~closed'
    <2>1. ~closed
      BY <1>2, <1>4
    <2>2. UNCHANGED <<mpc, mret, answered>> => (A /\ B /\ R)'
      BY <1>2, <1>4
    <2>3. UNCHANGED <<wpc, wcmd>> => C'
      BY <1>2, <1>4
    <2>4. OpenTcpServer \/ OpenAnswered \/ CloseTcpServer => (A /\ B /\ R)'
      BY <1>2, <2>1 DEF OpenTcpServer, OpenAnswered, CloseTcpServer,
                        BlockingCommit
    <2>5. StartRunOnce \/ StartRecycle => (A /\ B /\ R)'
      BY DEF StartRunOnce, StartRecycle
    <2>6. RunOnceEnd \/ SafeRelease => (A /\ B /\ R)'
      BY <1>2, <2>1 DEF RunOnceEnd, SafeRelease
    <2>7. RecyclerPopSecond => (A /\ B /\ R)'
      BY <1>2, <2>1 DEF RecyclerPopSecond
    <2>8. ASSUME NEW c \in Conns, RecyclerPopFirst(c)
          PROVE  (A /\ B /\ R)'
      BY <1>2, <2>1, <2>8 DEF RecyclerPopFirst
    <2>9. CloseAnswered => FALSE
      BY <1>2, <2>1 DEF CloseAnswered, TypeOK
    <2>10. ReleaseEnd \/ Stop => FALSE
      BY <1>2, <2>1 DEF ReleaseEnd, Stop
    <2>11. ASSUME Crash, UNCHANGED <<mret, wcmd>>
           PROVE  (A /\ B /\ R /\ C)'
      BY <1>2, <2>1, <2>11 DEF Crash
    <2>12. ListenThrows => Crash /\ UNCHANGED <<mret, wcmd>>
      BY DEF ListenThrows
    <2>13. ASSUME NEW c \in Conns, CallbackOnReleased(c) \/ LaterOnReleased(c)
           PROVE  /\ Crash \/ UNCHANGED <<mpc, wpc>>
                  /\ UNCHANGED <<mret, wcmd, answered>>
      BY <2>13 DEF CallbackOnReleased, LaterOnReleased, NextCallback
    <2>14. ASSUME ResultCb
           PROVE  (A /\ B /\ R /\ C)'
      <3>1. /\ wpc = "result" /\ wpc' = "drain" /\ UNCHANGED <<mpc, mret>>
            /\ wcmd.type \notin BlockingCmd => answered' = answered
        BY <2>14 DEF ResultCb, mainVars, TypeOK
      <3>2. wcmd.type # "CLOSE_TCP_SERVER"
        BY <1>2, <2>1, <3>1
      <3>3. CASE wcmd.type = "OPEN_TCP_SERVER"
        <4>1. mpc = "opening"
          BY <3>3, BlockingParts DEF BlockingCmd, BlockedIn
        <4>2. QED
          BY <1>2, <2>1, <3>1, <4>1
      <3>4. CASE wcmd.type \notin BlockingCmd
        BY <1>2, <2>1, <3>1, <3>4
      <3>5. QED
        BY <3>2, <3>3, <3>4 DEF BlockingCmd
    <2>15. ASSUME ExecOpen \/ ExecDispose \/ ExecPost \/ ExecFlush
                    \/ ExecConfirm
           PROVE  C'
      <3>1. \E type \in {"OPEN_TCP_SERVER", "DISPOSE_CONNECTION",
                         "POST_PACKET", "FLUSH_TCP_SERVER_DOWNSTREAM",
                         "CONFIRM_CLIENT_IS_READY"} : Dequeue(type)
        BY <2>15 DEF ExecOpen, ExecDispose, ExecPost, ExecFlush, ExecConfirm
      <3>2. wcmd'.type # "CLOSE_TCP_SERVER"
        BY <3>1, TakeFacts
      <3>3. QED
        BY <3>2
    <2>16. ExecClose => C'
      BY DEF ExecClose
    <2>17. WorkerQuit \/ StartDrain \/ DrainEnd => C'
      BY DEF WorkerQuit, StartDrain, DrainEnd
    <2>18. CloseEnd => FALSE
      BY <1>4 DEF CloseEnd
    <2>19. ASSUME NEW c \in Conns, DisposeDownStream(c)
           PROVE  UNCHANGED <<wpc, wcmd>>
      BY <2>19 DEF DisposeDownStream
    <2>20. OpenTcpServer \/ CloseTcpServer => UNCHANGED <<wpc, wcmd>>
      BY DEF OpenTcpServer, CloseTcpServer, workVars
    <2>21. ASSUME NEW c \in Conns,
                  \/ SendPacket(c) \/ Disconnect(c) \/ OnAcceptClient(c)
                  \/ IgnoreAccept(c) \/ OnDisconnectCb(c) \/ ReleaseClient(c)
           PROVE  UNCHANGED <<wpc, wcmd>>
      BY <2>21 DEF SendPacket, Disconnect, OnAcceptClient, IgnoreAccept,
                   OnDisconnectCb, ReleaseClient, NextCallback, workVars
    <2>22. (A /\ B /\ R)'
      BY <2>2, <2>4, <2>5, <2>6, <2>7, <2>8, <2>9, <2>10, <2>11, <2>12,
         <2>13, <2>14, MainFrame
    <2>23. C'
      BY <2>3, <2>11, <2>12, <2>13, <2>14, <2>15, <2>16, <2>17, <2>18, <2>19,
         <2>20, <2>21, WorkerFrame, WorkQueueFrame
    <2>24. QED
      BY <1>1, <2>22, <2>23
  <1>5. QED
    BY <1>3, <1>4

-----------------------------------------------------------------------------
(* The induction.                                                          *)

\* Initially there are no clients, commands or callbacks.
LEMMA InvInit ==
    ASSUME Init
    PROVE  IInv
  <1>1. TypeOK
    BY TypeInit
  <1>2. /\ workQ = <<>> /\ trunkQ = <<>> /\ wcmd = NoCmd
        /\ \A c \in Conns : life[c] = "none"
        /\ \A c \in Conns : frontProduce[c] = 0 /\ backConsume[c] = 0
        /\ \A c \in Conns : backProduce[c] = 0 /\ frontConsume[c] = 0
    BY DEF Init
  <1>3. \A c \in Conns : CmdsOf(c) = {} /\ CbsOf(c) = {} /\ Executing(c) = 0
    <2>1. Len(workQ) = 0 /\ Len(trunkQ) = 0
      BY <1>2
    <2>2. \A c \in Conns : CmdsOf(c) = {} /\ CbsOf(c) = {}
      BY <2>1 DEF CmdsOf, CbsOf, Matching
    <2>3. \A c \in Conns : Executing(c) = 0
      BY <1>2, ConnsAssumption DEF Executing, NoCmd
    <2>4. QED
      BY <2>2, <2>3
  <1>4. Cardinality({}) = 0
    BY FS_EmptySet
  <1>5. CommandAccounting /\ CallbackAccounting
    <2>1. \A c \in Conns : /\ Cardinality(CmdsOf(c)) = 0
                           /\ Cardinality(CbsOf(c)) = 0
      BY <1>3, <1>4
    <2>2. \A c \in Conns : frontProduce[c] = backConsume[c]
                              + Cardinality(CmdsOf(c)) + Executing(c)
      BY <1>2, <1>3, <2>1
    <2>3. \A c \in Conns : backProduce[c] = frontConsume[c]
                              + Cardinality(CbsOf(c))
      BY <1>2, <2>1
    <2>4. QED
      BY <2>2, <2>3 DEF CommandAccounting, CallbackAccounting
  <1>6. OneOwner /\ FreshIsClean /\ ReleasedIsClean
    BY <1>2 DEF Init, OneOwner, FreshIsClean, ReleasedIsClean
  <1>7. ClientCountMatches
    BY <1>4 DEF Init, ClientCountMatches
  <1>8. Len(workQ) = 0 /\ Len(trunkQ) = 0
    BY <1>2
  <1>9. /\ ConfirmFindsStream /\ AcceptIsFresh /\ AcceptHasStream
        /\ DisposingIsRemoved
    BY <1>8 DEF ConfirmFindsStream, AcceptIsFresh, AcceptHasStream,
                DisposingIsRemoved
  <1>10. DisposedIsReported /\ WalkInRecycler
    BY DEF Init, DisposedIsReported, WalkInRecycler
  <1>11. CommandIsLive
    <2>1. wcmd.type = "none"
      BY <1>2 DEF NoCmd
    <2>2. wcmd.type \notin ClientCmd
      BY <2>1 DEF ClientCmd
    <2>3. \A i \in 1..Len(workQ) : FALSE
      BY <1>8
    <2>4. QED
      BY ONLY <2>2, <2>3, Zenon DEF CommandIsLive
  <1>12. \A c : ~Confirming(c)
    BY <1>8 DEF Confirming
  <1>13. StreamOwnership /\ ConfirmIsFirst
    BY <1>2, <1>8, <1>12 DEF Init, StreamOwnership, ConfirmIsFirst
  <1>14. Blocking
    BY <1>2, <1>8 DEF Init, Blocking, NoCmd, BlockingCmd
  <1>15. ClosedIsFinal
    BY <1>8, <1>12 DEF Init, ClosedIsFinal
  <1>16. QED
    BY <1>1, <1>5, <1>6, <1>7, <1>9, <1>10, <1>11, <1>13, <1>14, <1>15
       DEF IInv

\* IInv is inductive.
LEMMA InvStep ==
    ASSUME IInv, [Next]_vars
    PROVE  IInv'
  <1>1. /\ TypeOK /\ CommandAccounting /\ CallbackAccounting /\ OneOwner
        /\ ClientCountMatches /\ ConfirmFindsStream /\ DisposedIsReported
        /\ AcceptIsFresh /\ AcceptHasStream /\ FreshIsClean /\ CommandIsLive
        /\ ReleasedIsClean /\ StreamOwnership /\ ConfirmIsFirst
        /\ DisposingIsRemoved /\ Blocking /\ ClosedIsFinal /\ WalkInRecycler
    BY DEF IInv
  <1>2. TypeOK' /\ CommandAccounting' /\ CallbackAccounting'
    BY <1>1, TypeStep, CommandStep, CallbackStep
  <1>3. OneOwner' /\ ClientCountMatches' /\ AcceptIsFresh' /\ WalkInRecycler'
    BY <1>1, OwnerStep, AcceptStep, WalkStep
  <1>4. DisposedIsReported' /\ CommandIsLive' /\ DisposingIsRemoved'
    BY <1>1, ReportStep, LiveStep, DisposingStep
  <1>5. ReleasedIsClean' /\ FreshIsClean' /\ ConfirmIsFirst'
    BY <1>1, ReleasedStep, FreshStep, ConfirmStep
  <1>6. ConfirmFindsStream' /\ StreamOwnership' /\ AcceptHasStream'
    BY <1>1, FindsStep, OwnershipStep, HasStreamStep
  <1>7. Blocking' /\ ClosedIsFinal'
    BY <1>1, BlockingStep, ClosedStep
  <1>8. QED
    BY <1>2, <1>3, <1>4, <1>5, <1>6, <1>7 DEF IInv

\* IInv holds in every reachable state.
THEOREM Inductive == Spec => []IInv
  <1>1. Init => IInv
    BY InvInit
  <1>2. IInv /\ [Next]_vars => IInv'
    BY InvStep
  <1>3. QED
    BY <1>1, <1>2, PTL DEF Spec

-----------------------------------------------------------------------------
(* The theorems.                                                           *)

\* The counters of the front end (_frontEndProduceNum, _thr_backEndConsumeNum)
\* tell exactly the commands in the work queue or being executed.
THEOREM CommandsCounted == Spec => []CommandAccounting
  <1>1. IInv => CommandAccounting
    BY DEF IInv
  <1>2. QED
    BY <1>1, Inductive, PTL

\* The counters of the back end tell exactly the callbacks in the trunk queue,
\* while the client exists.
THEOREM CallbacksCounted == Spec => []CallbackAccounting
  <1>1. IInv => CallbackAccounting
    BY DEF IInv
  <1>2. QED
    BY <1>1, Inductive, PTL

\* A client is in one container of the manager: RecyclerPush once, deleted
\* once.
THEOREM OwnedOnce == Spec => []OneOwner
  <1>1. IInv => OneOwner
    BY DEF IInv
  <1>2. QED
    BY <1>1, Inductive, PTL

\* The asserts of OnAddClient and OnRemoveClient on _szClientCount hold.
THEOREM CountsClients == Spec => []ClientCountMatches
  <1>1. IInv => ClientCountMatches
    BY DEF IInv
  <1>2. QED
    BY <1>1, Inductive, PTL

\* ConfirmClientIsReady always finds the stream of its client.
THEOREM ConfirmationsSucceed == Spec => []ConfirmFindsStream
  <1>1. IInv => ConfirmFindsStream
    BY DEF IInv
  <1>2. QED
    BY <1>1, Inductive, PTL

\* OnDisposeClient and DisposeDownStreams always tell the main thread.
THEOREM DisposalsReported == Spec => []DisposedIsReported
  <1>1. IInv => DisposedIsReported
    BY DEF IInv
  <1>2. QED
    BY <1>1, Inductive, PTL

\* DisposeConnection never meets a client that has no stream to flush.
THEOREM DisposalsFlush == Spec => []DisposedIsFlushed
  <1>1. IInv => DisposedIsFlushed
    BY DEF IInv, StreamOwnership, DisposedIsFlushed
  <1>2. QED
    BY <1>1, Inductive, PTL

\* What RecyclerPop moves to _vSafeToRelease, and SafeRelease deletes, is
\* used by no command and reached by no container.
THEOREM ReleasesUnreachable == Spec => []ReleasedIsUnreachable
  <1>1. IInv => ReleasedIsUnreachable
    <2> SUFFICES ASSUME IInv, NEW c \in Conns,
                        c \in safe \/ life[c] = "released"
                 PROVE  /\ CmdsOf(c) = {} /\ Executing(c) = 0
                        /\ c \notin clients /\ c \notin recycler
                        /\ c \notin owned /\ c \notin reading
                        /\ c \notin streamDict
      BY DEF ReleasedIsUnreachable
    <2>1. /\ TypeOK /\ CommandAccounting /\ OneOwner /\ ReleasedIsClean
          /\ StreamOwnership /\ CommandIsLive
      BY DEF IInv
    <2>2. frontProduce[c] = backConsume[c] /\ c \in disposed
      BY <2>1 DEF ReleasedIsClean
    <2>3. CmdsOf(c) = {} /\ Executing(c) = 0
      BY <2>1, <2>2, CleanIsUnused
    <2>4. c \notin clients /\ c \notin recycler
      BY <2>1 DEF OneOwner
    <2>5. c \notin owned /\ c \notin reading
      BY <2>1, <2>2 DEF StreamOwnership
    <2>6. ~Confirming(c)
      BY <2>3 DEF Confirming, CmdsOf, Matching, ClientCmd
    <2>7. life[c] # "offered"
      BY <2>1 DEF OneOwner
    <2>8. c \notin streamDict
      BY <2>1, <2>6, <2>7 DEF StreamOwnership
    <2>9. QED
      BY <2>3, <2>4, <2>5, <2>8
  <1>2. QED
    BY <1>1, Inductive, PTL

\* While the worker walks the map, the main thread waits for Close.
LEMMA WalkAlone ==
    ASSUME Blocking, [Next]_vars, wpc = "closing"
    PROVE  UNCHANGED clients
  <1>1. mpc = "closing"
    BY BlockingParts DEF BlockingCmd, BlockedIn
  <1>2. ASSUME NEW c \in Conns,
               Disconnect(c) \/ OnAcceptClient(c) \/ OnDisconnectCb(c)
                 \/ ReleaseClient(c)
        PROVE  FALSE
    BY <1>1, <1>2 DEF Disconnect, AppMayCall, OnAcceptClient, OnDisconnectCb,
                      ReleaseClient, NextCallback
  <1>3. ASSUME NEW c \in Conns, AcceptStream(c)
        PROVE  UNCHANGED clients
    BY <1>3 DEF AcceptStream, mgrVars
  <1>4. RecyclerPopSecond \/ SafeRelease => UNCHANGED clients
    BY DEF RecyclerPopSecond, SafeRelease
  <1>5. QED
    BY <1>2, <1>3, <1>4, ManagerFrame

\* DisposeDownStreams walks the main thread's map undisturbed.
THEOREM WalksAlone == Spec => MapStableDuringWalk
  <1>1. IInv /\ [Next]_vars => [wpc = "closing" => UNCHANGED clients]_vars
    BY WalkAlone DEF IInv
  <1>2. QED
    BY <1>1, Inductive, PTL DEF Spec, MapStableDuringWalk

-----------------------------------------------------------------------------
(* Nobody waits in vain.                                                   *)

\* What changes the flag of the disconnect event and the quit flag.
LEMMA FlagFrame ==
    ASSUME [Next]_vars
    PROVE  /\ \/ UNCHANGED connected
              \/ \E c \in Conns : Disconnect(c) \/ OnAcceptClient(c)
                                    \/ OnDisconnectCb(c)
           /\ UNCHANGED quit \/ Finish
  <1>1. CASE MainStep
    BY <1>1 DEF MainStep, OpenAnswered, OnAcceptClient, IgnoreAccept,
           OnDisconnectCb, OnPacketCb, CallbackOnReleased, RunOnceEnd,
           RecyclerPopFirst, RecyclerPopSecond, SafeRelease, CloseAnswered,
           ReleaseClient, ReleaseEnd, Finish, Stop, NextCallback, objVars,
           queueVars
  <1>2. CASE MainChoice
    BY <1>2 DEF MainChoice, OpenTcpServer, SendPacket, Disconnect,
           StartRunOnce, StartRecycle, CloseTcpServer, objVars, queueVars
  <1>3. CASE WorkerStep
    BY <1>3 DEF WorkerStep, OnDisposeClient, LaterOnReleased, WorkerQuit,
           StartDrain, DrainEnd, ExecOpen, ExecClose, ExecDispose, ExecPost,
           ExecFlush, ExecConfirm, DisposeDownStream, CloseEnd, ResultCb,
           Dequeue, objVars, queueVars
  <1>4. CASE NetworkStep
    BY <1>4 DEF NetworkStep, AcceptStream, AcceptLoopFailed, ListenThrows,
           OnGotPacket, TaskFailed, objVars, queueVars
  <1>5. CASE UNCHANGED vars
    BY <1>5 DEF vars, objVars, queueVars
  <1>6. QED
    BY <1>1, <1>2, <1>3, <1>4, <1>5 DEF Next, Ended

\* A disposed client stays disposed.
LEMMA DisposedGrows ==
    ASSUME [Next]_vars
    PROVE  disposed \subseteq disposed'
  <1>1. \A c : DisposeConnection(c) => disposed \subseteq disposed'
    BY DEF DisposeConnection
  <1>2. ASSUME NEW c \in Conns,
               AcceptStream(c) \/ TaskFailed(c) \/ LaterOnReleased(c)
        PROVE  UNCHANGED disposed
    BY <1>2 DEF AcceptStream, TaskFailed, LaterOnReleased, objVars
  <1>3. ASSUME NEW c \in Conns, OnDisposeClient(c) \/ DisposeDownStream(c)
        PROVE  disposed \subseteq disposed'
    BY <1>1, <1>3 DEF OnDisposeClient, DisposeDownStream
  <1>4. ExecDispose => disposed \subseteq disposed'
    BY <1>1 DEF ExecDispose
  <1>5. ExecClose \/ ExecFlush \/ ExecConfirm => UNCHANGED disposed
    BY DEF ExecClose, ExecFlush, ExecConfirm
  <1>6. QED
    BY <1>2, <1>3, <1>4, <1>5, StreamFrame

\* Only an open server adds to the map.
LEMMA ClosedShrinks ==
    ASSUME [Next]_vars, closed
    PROVE  clients' \subseteq clients
  <1>1. \A c : OnRemoveClient(c) => clients' \subseteq clients
    BY DEF OnRemoveClient
  <1>2. ASSUME NEW c \in Conns, Disconnect(c) \/ OnDisconnectCb(c)
                                  \/ ReleaseClient(c)
        PROVE  clients' \subseteq clients
    BY <1>1, <1>2 DEF Disconnect, OnDisconnectCb, ReleaseClient
  <1>3. ASSUME NEW c \in Conns, OnAcceptClient(c)
        PROVE  FALSE
    BY <1>3 DEF OnAcceptClient
  <1>4. ASSUME NEW c \in Conns, AcceptStream(c)
        PROVE  UNCHANGED clients
    BY <1>4 DEF AcceptStream, mgrVars
  <1>5. RecyclerPopSecond \/ SafeRelease => UNCHANGED clients
    BY DEF RecyclerPopSecond, SafeRelease
  <1>6. QED
    BY <1>2, <1>3, <1>4, <1>5, ManagerFrame

\* How the worker's walk goes on.
LEMMA WalkCases ==
    ASSUME [Next]_vars
    PROVE  \/ UNCHANGED <<wpc, todo>>
           \/ ExecClose /\ wpc' = "closing" /\ todo' = clients
           \/ \E c \in Conns : DisposeDownStream(c)
           \/ wpc' # "closing"
  <1>1. ASSUME NEW c \in Conns, CallbackOnReleased(c) \/ LaterOnReleased(c)
        PROVE  UNCHANGED <<wpc, todo>> \/ wpc' # "closing"
    BY <1>1 DEF CallbackOnReleased, LaterOnReleased, NextCallback, Crash
  <1>2. ListenThrows \/ WorkerQuit \/ StartDrain \/ DrainEnd \/ ResultCb
          \/ CloseEnd => wpc' # "closing"
    BY DEF ListenThrows, WorkerQuit, StartDrain, DrainEnd, ResultCb, CloseEnd,
           Crash
  <1>3. ExecOpen \/ ExecDispose \/ ExecPost \/ ExecFlush \/ ExecConfirm =>
            wpc' # "closing"
    BY DEF ExecOpen, ExecDispose, ExecPost, ExecFlush, ExecConfirm
  <1>4. ExecClose => wpc' = "closing" /\ todo' = clients
    BY DEF ExecClose
  <1>5. QED
    BY <1>1, <1>2, <1>3, <1>4, WorkerFrame

\* No step breaks CloseVisitsAll.
LEMMA VisitStep ==
    ASSUME Blocking, CloseVisitsAll, [Next]_vars
    PROVE  CloseVisitsAll'
  <1>1. disposed \subseteq disposed'
    BY DisposedGrows
  <1>2. ASSUME wpc' = "closing"
        PROVE  clients' \ todo' \subseteq disposed'
    <2>1. CASE UNCHANGED <<wpc, todo>>
      <3>1. UNCHANGED clients
        BY <1>2, <2>1, WalkAlone
      <3>2. QED
        BY <1>1, <1>2, <2>1, <3>1 DEF CloseVisitsAll
    <2>2. CASE ExecClose
      BY <2>2 DEF ExecClose, Dequeue, mgrVars
    <2>3. ASSUME NEW c \in Conns, DisposeDownStream(c)
          PROVE  clients' \ todo' \subseteq disposed'
      <3>1. /\ wpc = "closing" /\ todo' = todo \ {c} /\ UNCHANGED clients
            /\ DisposeConnection(c)
        BY <2>3 DEF DisposeDownStream, mgrVars
      <3>2. c \in disposed'
        BY <3>1 DEF DisposeConnection
      <3>3. QED
        BY <1>1, <3>1, <3>2 DEF CloseVisitsAll
    <2>4. QED
      BY <1>2, <2>1, <2>2, <2>3, WalkCases
  <1>3. ASSUME closed'
        PROVE  clients' \subseteq disposed'
    <2>1. CASE closed
      BY <1>1, <2>1, ClosedShrinks DEF CloseVisitsAll
    <2>2. CASE CloseEnd
      BY <2>2 DEF CloseEnd, CloseVisitsAll, objVars, mgrVars
    <2>3. QED
      BY <1>3, <2>1, <2>2, ClosedFrame
  <1>4. QED
    BY <1>2, <1>3 DEF CloseVisitsAll

\* No step breaks FinishIsLast.
LEMMA FinishStep ==
    ASSUME FinishIsLast, [Next]_vars
    PROVE  FinishIsLast'
  <1>1. ASSUME UNCHANGED recycler,
               mpc' \in {"finish", "stopped"} => mpc \in {"finish", "stopped"}
        PROVE  FinishIsLast'
    BY <1>1 DEF FinishIsLast
  <1>2. ASSUME NEW c \in Conns, Disconnect(c) \/ OnAcceptClient(c)
                 \/ OnDisconnectCb(c) \/ ReleaseClient(c)
        PROVE  mpc' \notin {"finish", "stopped"}
    BY <1>2 DEF Disconnect, AppMayCall, OnAcceptClient, OnDisconnectCb,
                ReleaseClient, NextCallback, mainVars
  <1>3. RecyclerPopSecond => mpc' \notin {"finish", "stopped"}
    BY DEF RecyclerPopSecond
  <1>4. SafeRelease => FinishIsLast'
    BY DEF SafeRelease, FinishIsLast
  <1>5. ASSUME NEW c \in Conns, AcceptStream(c)
        PROVE  UNCHANGED <<mpc, recycler>>
    BY <1>5 DEF AcceptStream, mgrVars, mainVars
  <1>6. ASSUME UNCHANGED recycler
        PROVE  FinishIsLast'
    <2>1. ASSUME NEW c \in Conns, CallbackOnReleased(c) \/ LaterOnReleased(c)
                                    \/ RecyclerPopFirst(c)
          PROVE  UNCHANGED mpc \/ mpc' \notin {"finish", "stopped"}
      BY <2>1 DEF CallbackOnReleased, LaterOnReleased, RecyclerPopFirst, Crash
    <2>2. OpenTcpServer \/ OpenAnswered \/ StartRunOnce \/ RunOnceEnd
            \/ StartRecycle \/ CloseTcpServer \/ CloseAnswered \/ ReleaseEnd
            \/ ListenThrows => mpc' \notin {"finish", "stopped"}
      BY DEF OpenTcpServer, OpenAnswered, StartRunOnce, RunOnceEnd,
             StartRecycle, CloseTcpServer, CloseAnswered, ReleaseEnd,
             ListenThrows, Crash
    <2>3. Stop => mpc = "finish"
      BY DEF Stop
    <2>4. ResultCb => UNCHANGED mpc
      BY DEF ResultCb, mainVars
    <2>5. QED
      BY <1>1, <1>3, <1>4, <1>6, <2>1, <2>2, <2>3, <2>4, MainFrame
  <1>7. QED
    BY <1>2, <1>3, <1>4, <1>5, <1>6, ManagerFrame DEF FinishIsLast

\* The last part of WaitsAreServed.
WorkerIsLast ==
    quit \/ wpc = "finished" =>
        mpc \in {"finish", "stopped", "crashed"} /\ recycler = {}

\* No step breaks WorkerIsLast.
LEMMA LastStep ==
    ASSUME WorkerIsLast, FinishIsLast, [Next]_vars
    PROVE  WorkerIsLast'
  <1>1. CASE Finish
    BY <1>1 DEF Finish, WorkerIsLast, FinishIsLast, mgrVars, mainVars, workVars
  <1>2. CASE UNCHANGED quit
    <2>1. WorkerQuit => WorkerIsLast'
      BY DEF WorkerQuit, WorkerIsLast, queueVars, mgrVars, mainVars
    <2>2. ASSUME wpc' = "finished" => wpc = "finished"
          PROVE  WorkerIsLast'
      <3> SUFFICES ASSUME quit \/ wpc = "finished"
                   PROVE  /\ mpc' \in {"finish", "stopped", "crashed"}
                          /\ recycler' = {}
        BY <1>2, <2>2 DEF WorkerIsLast
      <3>1. mpc \in {"finish", "stopped", "crashed"} /\ recycler = {}
        BY DEF WorkerIsLast
      <3>2. recycler' = {}
        <4>1. ASSUME NEW c \in Conns, Disconnect(c) \/ OnAcceptClient(c)
                       \/ OnDisconnectCb(c) \/ ReleaseClient(c)
              PROVE  FALSE
          BY <3>1, <4>1 DEF Disconnect, AppMayCall, OnAcceptClient,
                            OnDisconnectCb, ReleaseClient, NextCallback
        <4>2. ASSUME NEW c \in Conns, AcceptStream(c)
              PROVE  UNCHANGED recycler
          BY <4>2 DEF AcceptStream, mgrVars
        <4>3. RecyclerPopSecond \/ SafeRelease => FALSE
          BY <3>1 DEF RecyclerPopSecond, SafeRelease
        <4>4. QED
          BY <3>1, <4>1, <4>2, <4>3, ManagerFrame
      <3>3. mpc' \in {"finish", "stopped", "crashed"}
        <4>1. ASSUME NEW c \in Conns, CallbackOnReleased(c)
                       \/ LaterOnReleased(c) \/ RecyclerPopFirst(c)
              PROVE  UNCHANGED mpc \/ mpc' = "crashed"
          BY <3>1, <4>1 DEF CallbackOnReleased, LaterOnReleased,
                            RecyclerPopFirst, NextCallback, Crash
        <4>2. OpenTcpServer \/ OpenAnswered \/ StartRunOnce \/ RunOnceEnd
                \/ StartRecycle \/ RecyclerPopSecond \/ SafeRelease
                \/ CloseTcpServer \/ CloseAnswered \/ ReleaseEnd => FALSE
          BY <3>1 DEF OpenTcpServer, OpenAnswered, StartRunOnce, RunOnceEnd,
                 StartRecycle, RecyclerPopSecond, SafeRelease, CloseTcpServer,
                 CloseAnswered, ReleaseEnd
        <4>3. Stop \/ ListenThrows => mpc' \in {"stopped", "crashed"}
          BY DEF Stop, ListenThrows, Crash
        <4>4. ResultCb => UNCHANGED mpc
          BY DEF ResultCb, mainVars
        <4>5. QED
          BY <3>1, <4>1, <4>2, <4>3, <4>4, MainFrame
      <3>4. QED
        BY <3>2, <3>3
    <2>3. ASSUME NEW c \in Conns, CallbackOnReleased(c) \/ LaterOnReleased(c)
                                    \/ DisposeDownStream(c)
          PROVE  wpc' = "finished" => wpc = "finished"
      BY <2>3 DEF CallbackOnReleased, LaterOnReleased, DisposeDownStream, Crash
    <2>4. ListenThrows \/ StartDrain \/ DrainEnd \/ ExecOpen \/ ExecClose
            \/ ExecDispose \/ ExecPost \/ ExecFlush \/ ExecConfirm \/ CloseEnd
            \/ ResultCb => wpc' # "finished"
      BY DEF ListenThrows, StartDrain, DrainEnd, ExecOpen, ExecClose,
             ExecDispose, ExecPost, ExecFlush, ExecConfirm, CloseEnd, ResultCb,
             Crash
    <2>5. QED
      BY <2>1, <2>2, <2>3, <2>4, WorkerFrame
  <1>3. QED
    BY <1>1, <1>2, FlagFrame

\* A command stays in the queue when others are put ...
LEMMA QueuedPut ==
    ASSUME TypeOK, NEW e \in Cmd, workQ' = Append(workQ, e), NEW type, NEW c,
           Queued(type, c) \/ e = [type |-> type, conn |-> c]
    PROVE  Queued(type, c)'
  <1>1. /\ Len(workQ) \in Nat /\ Len(workQ') = Len(workQ) + 1
        /\ workQ'[Len(workQ) + 1] = e
        /\ \A i \in 1..Len(workQ) : workQ'[i] = workQ[i]
    BY PutFacts
  <1>2. CASE Queued(type, c)
    <2>1. PICK i \in 1..Len(workQ) : workQ[i] = [type |-> type, conn |-> c]
      BY <1>2 DEF Queued
    <2>2. i \in 1..Len(workQ')
      BY ONLY <1>1, <2>1
    <2>3. QED
      BY ONLY <1>1, <2>1, <2>2, Zenon DEF Queued
  <1>3. CASE e = [type |-> type, conn |-> c]
    <2>1. Len(workQ) + 1 \in 1..Len(workQ')
      BY ONLY <1>1
    <2>2. QED
      BY ONLY <1>1, <1>3, <2>1, Zenon DEF Queued
  <1>4. QED
    BY <1>2, <1>3

\* ... until the worker takes it.
LEMMA QueuedTake ==
    ASSUME TypeOK, NEW taken, Dequeue(taken), NEW type, NEW c, Queued(type, c)
    PROVE  Queued(type, c)' \/ wcmd' = [type |-> type, conn |-> c]
  <1>1. /\ wcmd' = workQ[1] /\ Len(workQ) \in Nat
        /\ Len(workQ') = Len(workQ) - 1
        /\ \A i \in 1..Len(workQ') : workQ'[i] = workQ[i + 1]
    BY TakeFacts
  <1>2. PICK i \in 1..Len(workQ) : workQ[i] = [type |-> type, conn |-> c]
    BY DEF Queued
  <1>3. CASE i = 1
    BY <1>1, <1>2, <1>3
  <1>4. CASE i # 1
    <2>1. i - 1 \in 1..Len(workQ') /\ (i - 1) + 1 = i
      BY ONLY <1>1, <1>2, <1>4
    <2>2. workQ'[i - 1] = workQ[i]
      BY ONLY <1>1, <2>1
    <2>3. QED
      BY ONLY <1>2, <2>1, <2>2, Zenon DEF Queued
  <1>5. QED
    BY <1>3, <1>4

\* Who touches the promise.
LEMMA AnswerFrame ==
    ASSUME [Next]_vars
    PROVE  \/ UNCHANGED answered
           \/ OpenTcpServer \/ CloseTcpServer \/ ResultCb
  <1>1. ASSUME NEW c \in Conns, CallbackOnReleased(c) \/ RecyclerPopFirst(c)
                                  \/ LaterOnReleased(c)
        PROVE  UNCHANGED answered
    BY <1>1 DEF CallbackOnReleased, RecyclerPopFirst, LaterOnReleased,
                NextCallback, queueVars
  <1>2. OpenAnswered \/ StartRunOnce \/ RunOnceEnd \/ StartRecycle
          \/ RecyclerPopSecond \/ SafeRelease \/ CloseAnswered \/ ReleaseEnd
          \/ Stop \/ ListenThrows => UNCHANGED answered
    BY DEF OpenAnswered, StartRunOnce, RunOnceEnd, StartRecycle,
           RecyclerPopSecond, SafeRelease, CloseAnswered, ReleaseEnd, Stop,
           ListenThrows, queueVars
  <1>3. QED
    BY <1>1, <1>2, MainFrame

\* A promise is kept until it is answered.
LEMMA PromiseStays ==
    ASSUME TypeOK, Blocking, AcceptIsFresh, [Next]_vars, NEW type \in BlockingCmd,
           Promised(type), ~(OpenTcpServer \/ CloseTcpServer)
    PROVE  Promised(type)'
  <1> DEFINE e == [type |-> type, conn |-> NoConn]
  <1>1. answered \in BOOLEAN
    BY DEF TypeOK
  <1>2. CASE answered = TRUE
    <2>1. answered' = TRUE
      BY <1>2, AnswerFrame DEF ResultCb
    <2>2. QED
      BY <2>1 DEF Promised
  <1>3. CASE wcmd = e
    <2>1. wcmd.type \in BlockingCmd /\ wcmd # NoCmd
      BY <1>3 DEF NoCmd, BlockingCmd
    <2>2. wpc # "drain"
      BY <2>1, BlockingParts
    <2>3. ASSUME NEW t, Dequeue(t)
          PROVE  FALSE
      BY <2>2, <2>3 DEF Dequeue
    <2>4. CASE ResultCb
      <3>1. answered' = TRUE
        BY <1>1, <2>1, <2>4 DEF ResultCb
      <3>2. QED
        BY <3>1 DEF Promised
    <2>5. UNCHANGED wcmd \/ ResultCb
      <3>1. ASSUME NEW c \in Conns,
                   \/ SendPacket(c) \/ Disconnect(c) \/ OnAcceptClient(c)
                   \/ IgnoreAccept(c) \/ OnDisconnectCb(c) \/ ReleaseClient(c)
            PROVE  UNCHANGED wcmd
        BY <3>1 DEF SendPacket, Disconnect, OnAcceptClient, IgnoreAccept,
                    OnDisconnectCb, ReleaseClient, NextCallback, workVars
      <3>2. ~(ExecOpen \/ ExecClose \/ ExecDispose \/ ExecPost \/ ExecFlush
                \/ ExecConfirm)
        BY <2>3, ExecDequeues
      <3>3. QED
        BY <3>1, <3>2, WorkQueueFrame
    <2>6. QED
      BY <1>3, <2>4, <2>5 DEF Promised
  <1>4. CASE Queued(type, NoConn)
    <2>1. UNCHANGED workQ => Queued(type, NoConn)'
      BY <1>4 DEF Queued
    <2>2. ASSUME NEW x \in Cmd, Committed(x)
          PROVE  Queued(type, NoConn)'
      BY <1>4, <2>2, QueuedPut DEF Committed
    <2>3. ASSUME NEW c \in Conns, OnAcceptClient(c)
          PROVE  Queued(type, NoConn)'
      BY <1>4, <2>3, AcceptCommits, QueuedPut
    <2>4. ASSUME NEW t, Dequeue(t)
          PROVE  Queued(type, NoConn)' \/ wcmd' = e
      BY <1>4, <2>4, QueuedTake
    <2>5. Queued(type, NoConn)' \/ wcmd' = e
      BY <2>1, <2>2, <2>3, <2>4, QuietQueue, ExecDequeues, StepCases
         DEF streamVars
    <2>6. QED
      BY <2>5 DEF Promised
  <1>5. QED
    BY <1>1, <1>2, <1>3, <1>4 DEF Promised

\* The first parts of WaitsAreServed.
PromisesMade ==
    /\ mpc = "opening" => Promised("OPEN_TCP_SERVER")
    /\ mpc = "closing" => Promised("CLOSE_TCP_SERVER")

\* No step breaks PromisesMade.
LEMMA PromiseStep ==
    ASSUME TypeOK, Blocking, AcceptIsFresh, PromisesMade, [Next]_vars
    PROVE  PromisesMade'
  <1>1. ASSUME NEW type \in BlockingCmd, BlockingCommit(type)
        PROVE  Promised(type)'
    <2> DEFINE e == [type |-> type, conn |-> NoConn]
    <2>1. e \in Cmd /\ workQ' = Append(workQ, e)
      BY <1>1, BlockingCommitType, QueueTypes DEF BlockingCommit, Commit
    <2>2. QED
      BY <2>1, QueuedPut DEF Promised
  <1>2. CASE OpenTcpServer
    BY <1>1, <1>2 DEF OpenTcpServer, PromisesMade, BlockingCmd
  <1>3. CASE CloseTcpServer
    BY <1>1, <1>3 DEF CloseTcpServer, PromisesMade, BlockingCmd
  <1>4. CASE ~(OpenTcpServer \/ CloseTcpServer)
    <2>1. mpc' \in {"opening", "closing"} => UNCHANGED mpc
      <3>1. ASSUME NEW c \in Conns, CallbackOnReleased(c)
                     \/ RecyclerPopFirst(c) \/ LaterOnReleased(c)
            PROVE  UNCHANGED mpc \/ mpc' \notin {"opening", "closing"}
        BY <3>1 DEF CallbackOnReleased, RecyclerPopFirst, LaterOnReleased,
                    Crash
      <3>2. OpenAnswered \/ StartRunOnce \/ RunOnceEnd \/ StartRecycle
              \/ RecyclerPopSecond \/ SafeRelease \/ CloseAnswered
              \/ ReleaseEnd \/ Stop \/ ListenThrows =>
                mpc' \notin {"opening", "closing"}
        BY DEF OpenAnswered, StartRunOnce, RunOnceEnd, StartRecycle,
               RecyclerPopSecond, SafeRelease, CloseAnswered, ReleaseEnd,
               Stop, ListenThrows, Crash
      <3>3. ResultCb => UNCHANGED mpc
        BY DEF ResultCb, mainVars
      <3>4. QED
        BY <1>4, <3>1, <3>2, <3>3, MainFrame
    <2>2. \A type \in BlockingCmd : Promised(type) => Promised(type)'
      BY <1>4, PromiseStays
    <2>3. QED
      BY <2>1, <2>2 DEF PromisesMade, BlockingCmd
  <1>5. QED
    BY <1>2, <1>3, <1>4

\* Who enters the recycler.
LEMMA RecyclerGrows ==
    ASSUME [Next]_vars, NEW d, d \in recycler', d \notin recycler
    PROVE  /\ d \in Conns /\ d \in clients /\ OnRemoveClient(d)
           /\ Disconnect(d) \/ OnDisconnectCb(d) \/ ReleaseClient(d)
  <1>1. ASSUME NEW c \in Conns, OnRemoveClient(c)
        PROVE  d = c /\ c \in clients
    BY <1>1 DEF OnRemoveClient
  <1>2. ASSUME NEW c \in Conns, Disconnect(c) \/ OnDisconnectCb(c)
                                  \/ ReleaseClient(c)
        PROVE  d = c /\ c \in clients /\ OnRemoveClient(c)
    BY <1>1, <1>2 DEF Disconnect, OnDisconnectCb, ReleaseClient
  <1>3. ASSUME NEW c \in Conns, OnAcceptClient(c) \/ AcceptStream(c)
        PROVE  FALSE
    BY <1>3 DEF OnAcceptClient, AcceptStream, mgrVars
  <1>4. RecyclerPopSecond \/ SafeRelease => FALSE
    BY DEF RecyclerPopSecond, SafeRelease
  <1>5. PICK c \in Conns : Disconnect(c) \/ OnDisconnectCb(c) \/ ReleaseClient(c)
    BY <1>3, <1>4, ManagerFrame
  <1>6. QED
    BY <1>2, <1>5

\* The disconnect callback of a live client stays in the trunk queue until
\* OnDisconnectCb takes it.
LEMMA ReportingStays ==
    ASSUME TypeOK, [Next]_vars, NEW d \in Conns, Reporting(d),
           life[d] # "released", ~OnDisconnectCb(d)
    PROVE  Reporting(d)'
  <1> DEFINE cb(type, c) == [type |-> type, conn |-> c]
  <1>1. UNCHANGED trunkQ => Reporting(d)'
    BY DEF Reporting
  <1>2. ASSUME NEW c \in Conns, NEW type, NextCallback(cb(type, c)),
               type # "disconnect" \/ c # d
        PROVE  Reporting(d)'
    BY <1>2, ReportingTake
  <1>3. ASSUME NEW c \in Conns,
               OnAcceptClient(c) \/ IgnoreAccept(c) \/ OnPacketCb(c)
        PROVE  Reporting(d)'
    <2>1. \E type \in {"accept", "packet"} : NextCallback(cb(type, c))
      BY <1>3 DEF OnAcceptClient, IgnoreAccept, OnPacketCb
    <2>2. QED
      BY <1>2, <2>1
  <1>4. ASSUME NEW c \in Conns, OnDisconnectCb(c) \/ CallbackOnReleased(c)
        PROVE  Reporting(d)'
    <2>1. c # d
      BY <1>4 DEF CallbackOnReleased
    <2>2. \E type : NextCallback(cb(type, c))
      BY <1>4 DEF OnDisconnectCb, CallbackOnReleased
    <2>3. QED
      BY <1>2, <2>1, <2>2
  <1>5. ASSUME NEW c \in Conns, NEW type \in ClientCb \cup {"accept"},
               trunkQ' = Append(trunkQ, cb(type, c))
        PROVE  Reporting(d)'
    BY <1>5, ReportingPut
  <1>6. ASSUME NEW c \in Conns,
               \/ AcceptStream(c) \/ OnGotPacket(c) \/ OnDisposeClient(c)
               \/ LaterOnReleased(c) \/ DisposeDownStream(c)
        PROVE  Reporting(d)'
    <2>1. \/ UNCHANGED trunkQ
          \/ \E type \in ClientCb \cup {"accept"} :
                 trunkQ' = Append(trunkQ, cb(type, c))
      BY <1>6 DEF AcceptStream, OnGotPacket, OnDisposeClient, LaterOnReleased,
                  DisposeDownStream, AddClientCb, ClientCb
    <2>2. QED
      BY <1>1, <1>5, <2>1
  <1>7. QED
    BY <1>1, <1>3, <1>4, <1>6, TrunkQueueFrame

\* A client in the recycler that is still connected is reported.
RecycledIsReported == \A c \in recycler : c \in connected => Reporting(c)

\* No step breaks it.
LEMMA RecycledReportStep ==
    ASSUME TypeOK, OneOwner, AcceptIsFresh, DisposedIsReported, ClosedIsFinal,
           CloseVisitsAll, RecycledIsReported, [Next]_vars
    PROVE  RecycledIsReported'
  <1> SUFFICES ASSUME NEW d, d \in recycler', d \in connected'
               PROVE  Reporting(d)'
    BY DEF RecycledIsReported
  <1>1. ~OnDisconnectCb(d) /\ ~Disconnect(d)
    BY DEF OnDisconnectCb, Disconnect, OnDisconnect
  <1>2. CASE d \in recycler
    <2>1. d \in Conns /\ life[d] = "live"
      BY <1>2, LifeTypes DEF OneOwner
    <2>2. d \in connected
      <3>1. ASSUME NEW c \in Conns, OnAcceptClient(c)
            PROVE  d \in connected
        <4>1. life[c] = "offered" /\ connected' = connected \cup {c}
          BY <3>1, AcceptedIsOffered DEF OnAcceptClient, OnConnect
        <4>2. QED
          BY <2>1, <4>1
      <3>2. ASSUME NEW c \in Conns, Disconnect(c) \/ OnDisconnectCb(c)
            PROVE  d \in connected
        BY <3>2 DEF Disconnect, OnDisconnectCb, OnDisconnect
      <3>3. QED
        BY <3>1, <3>2, FlagFrame
    <2>3. Reporting(d)
      BY <1>2, <2>2 DEF RecycledIsReported
    <2>4. QED
      BY <1>1, <2>1, <2>3, ReportingStays
  <1>3. CASE d \notin recycler
    <2>1. d \in clients /\ ReleaseClient(d)
      BY <1>1, <1>3, RecyclerGrows
    <2>2. closed /\ UNCHANGED trunkQ
      BY <2>1, ClosedParts DEF ReleaseClient
    <2>3. d \in disposed
      BY <2>1, <2>2 DEF CloseVisitsAll
    <2>4. Reporting(d)
      BY <2>1, <2>3 DEF DisposedIsReported, Reporting
    <2>5. QED
      BY <2>2, <2>4 DEF Reporting
  <1>4. QED
    BY <1>2, <1>3

\* A client in the recycler is disposed, or its disposal is queued.
RecycledIsDisposed ==
    \A c \in recycler : c \in disposed \/ Queued("DISPOSE_CONNECTION", c)

\* No step breaks it.
LEMMA RecycledDisposalStep ==
    ASSUME TypeOK, AcceptIsFresh, RecycledIsDisposed, [Next]_vars
    PROVE  RecycledIsDisposed'
  <1> SUFFICES ASSUME NEW d, d \in recycler'
               PROVE  d \in disposed' \/ Queued("DISPOSE_CONNECTION", d)'
    BY DEF RecycledIsDisposed
  <1> DEFINE e == [type |-> "DISPOSE_CONNECTION", conn |-> d]
  <1>1. CASE d \notin recycler
    <2>1. d \in Conns /\ d \in clients /\ OnRemoveClient(d)
      BY <1>1, RecyclerGrows
    <2>2. Commit("DISPOSE_CONNECTION", d) /\ "DISPOSE_CONNECTION" \in ClientCmd
      BY <2>1 DEF OnRemoveClient, CommitFor, ClientCmd
    <2>3. e \in Cmd /\ workQ' = Append(workQ, e)
      BY <2>1, <2>2, CommitType, QueueTypes DEF Commit
    <2>4. QED
      BY <2>3, QueuedPut
  <1>2. CASE d \in disposed
    BY <1>2, DisposedGrows
  <1>3. CASE Queued("DISPOSE_CONNECTION", d)
    <2>1. UNCHANGED workQ => Queued("DISPOSE_CONNECTION", d)'
      BY <1>3 DEF Queued
    <2>2. ASSUME NEW x \in Cmd, Committed(x)
          PROVE  Queued("DISPOSE_CONNECTION", d)'
      BY <1>3, <2>2, QueuedPut DEF Committed
    <2>3. ASSUME NEW c \in Conns, OnAcceptClient(c)
          PROVE  Queued("DISPOSE_CONNECTION", d)'
      BY <1>3, <2>3, AcceptCommits, QueuedPut
    <2>4. ASSUME NEW type, Dequeue(type), type # "DISPOSE_CONNECTION"
          PROVE  Queued("DISPOSE_CONNECTION", d)'
      <3>1. wcmd'.type # "DISPOSE_CONNECTION"
        BY <2>4, TakeFacts
      <3>2. wcmd' # e
        BY <3>1
      <3>3. QED
        BY <1>3, <2>4, <3>2, QueuedTake
    <2>5. CASE ExecDispose
      <3>1. Dequeue("DISPOSE_CONNECTION") /\ DisposeConnection(Head(workQ).conn)
        BY <2>5 DEF ExecDispose
      <3>2. wcmd' = Head(workQ) /\ Head(workQ).conn \in disposed'
        BY <3>1 DEF Dequeue, DisposeConnection
      <3>3. Queued("DISPOSE_CONNECTION", d)' \/ wcmd' = e
        BY <1>3, <3>1, QueuedTake
      <3>4. wcmd' = e => d \in disposed'
        BY <3>2
      <3>5. QED
        BY <3>3, <3>4
    <2>6. ExecOpen \/ ExecClose \/ ExecPost \/ ExecFlush \/ ExecConfirm =>
              \E type : Dequeue(type) /\ type # "DISPOSE_CONNECTION"
      <3>1. /\ ExecOpen => Dequeue("OPEN_TCP_SERVER")
            /\ ExecClose => Dequeue("CLOSE_TCP_SERVER")
            /\ ExecPost => Dequeue("POST_PACKET")
            /\ ExecFlush => Dequeue("FLUSH_TCP_SERVER_DOWNSTREAM")
            /\ ExecConfirm => Dequeue("CONFIRM_CLIENT_IS_READY")
        BY Zenon DEF ExecOpen, ExecClose, ExecPost, ExecFlush, ExecConfirm
      <3>2. QED
        BY ONLY <3>1
    <2>7. QED
      BY <2>1, <2>2, <2>3, <2>4, <2>5, <2>6, QuietQueue, StepCases
         DEF streamVars
  <1>4. QED
    BY <1>1, <1>2, <1>3 DEF RecycledIsDisposed

\* The invariant that makes WaitsAreServed inductive.
ServedInv ==
    /\ CloseVisitsAll /\ FinishIsLast /\ WorkerIsLast /\ PromisesMade
    /\ RecycledIsReported /\ RecycledIsDisposed

\* It has WaitsAreServed: what the counters tell is in the queues.
LEMMA ServedSuffices ==
    ASSUME IInv, ServedInv
    PROVE  WaitsAreServed
  <1>1. /\ TypeOK /\ CommandAccounting /\ CallbackAccounting /\ OneOwner
        /\ StreamOwnership
    BY DEF IInv
  <1>2. ASSUME NEW c \in recycler
        PROVE  Releasable(c)
    <2>1. c \in Conns /\ life[c] = "live"
      BY <1>1, LifeTypes DEF OneOwner
    <2>2. /\ frontProduce[c] \in Nat /\ backConsume[c] \in Nat
          /\ backProduce[c] \in Nat /\ frontConsume[c] \in Nat
      BY <1>1, <2>1, CountersNat
    <2>3. Cardinality({}) = 0
      BY FS_EmptySet
    <2>4. CbsOf(c) = {} => IsBackEndClean(c)
      <3>1. backProduce[c] = frontConsume[c] + Cardinality(CbsOf(c))
        BY <1>1, <2>1 DEF CallbackAccounting
      <3>2. QED
        BY ONLY <2>2, <2>3, <3>1 DEF IsBackEndClean
    <2>5. CmdsOf(c) = {} /\ Executing(c) # 1 => IsFrontEndClean(c)
      <3>1. frontProduce[c] = backConsume[c] + Cardinality(CmdsOf(c))
                                + Executing(c)
        BY <1>1, <2>1 DEF CommandAccounting
      <3>2. Executing(c) \in {0, 1}
        BY DEF Executing
      <3>3. QED
        BY ONLY <2>2, <2>3, <3>1, <3>2 DEF IsFrontEndClean
    <2>6. c \in connected => Reporting(c)
      BY DEF ServedInv, RecycledIsReported
    <2>7. ~(c \in disposed /\ c \in flushed) => Queued("DISPOSE_CONNECTION", c)
      BY <1>1 DEF ServedInv, RecycledIsDisposed, StreamOwnership
    <2>8. QED
      BY <2>4, <2>5, <2>6, <2>7 DEF Releasable
  <1>3. PromisesMade /\ WorkerIsLast
    BY DEF ServedInv
  <1>4. QED
    BY <1>2, <1>3 DEF WaitsAreServed, PromisesMade, WorkerIsLast

\* ServedInv is inductive on top of IInv.
LEMMA ServedStep ==
    ASSUME IInv, ServedInv, [Next]_vars
    PROVE  ServedInv'
  <1>1. /\ TypeOK /\ OneOwner /\ AcceptIsFresh /\ DisposedIsReported
        /\ Blocking /\ ClosedIsFinal
    BY DEF IInv
  <1>2. /\ CloseVisitsAll /\ FinishIsLast /\ WorkerIsLast /\ PromisesMade
        /\ RecycledIsReported /\ RecycledIsDisposed
    BY DEF ServedInv
  <1>3. CloseVisitsAll' /\ FinishIsLast' /\ WorkerIsLast' /\ PromisesMade'
    BY <1>1, <1>2, VisitStep, FinishStep, LastStep, PromiseStep
  <1>4. RecycledIsReported' /\ RecycledIsDisposed'
    BY <1>1, <1>2, RecycledReportStep, RecycledDisposalStep
  <1>5. QED
    BY <1>3, <1>4 DEF ServedInv

\* ServedInv holds in every reachable state.
LEMMA Served == Spec => []ServedInv
  <1>1. Init => ServedInv
    BY DEF Init, ServedInv, CloseVisitsAll, FinishIsLast, WorkerIsLast,
           PromisesMade, RecycledIsReported, RecycledIsDisposed
  <1>2. IInv /\ ServedInv /\ [Next]_vars => ServedInv'
    BY ServedStep
  <1>3. QED
    BY <1>1, <1>2, Inductive, PTL DEF Spec

\* BlockingCommit and the wait and recycle loop of OnDelete wait only for what
\* is queued or being done, and the worker does not quit before it is done.
THEOREM NobodyWaitsInVain == Spec => []WaitsAreServed
  <1>1. IInv /\ ServedInv => WaitsAreServed
    BY ServedSuffices
  <1>2. QED
    BY <1>1, Inductive, Served, PTL

-----------------------------------------------------------------------------
(* The life of a client: KjFactory implements ClientLife.                  *)

\* No step breaks ConnectedIsOwned.
LEMMA ConnectedStep ==
    ASSUME ConnectedIsOwned, WalkInRecycler, [Next]_vars
    PROVE  ConnectedIsOwned'
  <1>1. connected' \subseteq clients' \cup recycler'
    <2>1. connected \subseteq clients \cup recycler
      BY DEF ConnectedIsOwned
    <2>2. \A c : OnRemoveClient(c) =>
                    clients \cup recycler \subseteq clients' \cup recycler'
      BY DEF OnRemoveClient
    <2>3. ASSUME NEW c \in Conns, Disconnect(c) \/ OnDisconnectCb(c)
                                    \/ ReleaseClient(c)
          PROVE  /\ OnRemoveClient(c)
                 /\ connected' \subseteq connected
      BY <2>3 DEF Disconnect, OnDisconnectCb, ReleaseClient, OnDisconnect,
                  objVars
    <2>4. ASSUME NEW c \in Conns, OnAcceptClient(c)
          PROVE  connected' \subseteq clients' \cup recycler'
      BY <2>1, <2>4 DEF OnAcceptClient, OnAddClient, OnConnect
    <2>5. ASSUME NEW c \in Conns, AcceptStream(c)
          PROVE  UNCHANGED <<connected, clients, recycler>>
      BY <2>5 DEF AcceptStream, mgrVars
    <2>6. SafeRelease => UNCHANGED <<connected, clients, recycler>>
      BY DEF SafeRelease
    <2>7. ASSUME RecyclerPopSecond
          PROVE  connected' \subseteq clients' \cup recycler'
      <3>1. /\ cur \notin connected /\ UNCHANGED <<connected, clients>>
            /\ recycler \ {cur} \subseteq recycler'
        BY <2>7 DEF RecyclerPopSecond, ConnectedIsOwned, objVars
      <3>2. QED
        BY <2>1, <3>1
    <2>8. QED
      BY <2>1, <2>2, <2>3, <2>4, <2>5, <2>6, <2>7, ManagerFrame, FlagFrame
  <1>2. ASSUME mpc' = "recycle2"
        PROVE  cur' \notin connected'
    <2>1. ASSUME NEW c \in Conns, Disconnect(c) \/ OnAcceptClient(c)
                                    \/ OnDisconnectCb(c)
          PROVE  FALSE
      BY <1>2, <2>1 DEF Disconnect, AppMayCall, OnAcceptClient,
                        OnDisconnectCb, NextCallback, mainVars
    <2>2. UNCHANGED connected
      BY <2>1, FlagFrame
    <2>3. UNCHANGED <<mpc, cur>> => cur' \notin connected'
      BY <1>2, <2>2 DEF ConnectedIsOwned
    <2>4. ASSUME NEW c \in Conns, RecyclerPopFirst(c)
          PROVE  cur' \notin connected'
      BY <1>2, <2>2, <2>4 DEF RecyclerPopFirst
    <2>5. ASSUME NEW c \in Conns, CallbackOnReleased(c) \/ LaterOnReleased(c)
          PROVE  UNCHANGED <<mpc, cur>>
      BY <1>2, <2>5 DEF CallbackOnReleased, LaterOnReleased, NextCallback,
                        Crash
    <2>6. OpenTcpServer \/ OpenAnswered \/ StartRunOnce \/ RunOnceEnd
            \/ StartRecycle \/ RecyclerPopSecond \/ SafeRelease
            \/ CloseTcpServer \/ CloseAnswered \/ ReleaseEnd \/ Stop
            \/ ListenThrows => mpc' # "recycle2"
      BY DEF OpenTcpServer, OpenAnswered, StartRunOnce, RunOnceEnd,
             StartRecycle, RecyclerPopSecond, SafeRelease, CloseTcpServer,
             CloseAnswered, ReleaseEnd, Stop, ListenThrows, Crash
    <2>7. ResultCb => UNCHANGED <<mpc, cur>>
      BY DEF ResultCb, mainVars
    <2>8. QED
      BY <1>2, <2>3, <2>4, <2>5, <2>6, <2>7, MainFrame
  <1>3. QED
    BY <1>1, <1>2 DEF ConnectedIsOwned

\* What ClientLife sees of the state.
lifeVars == <<life, clients, recycler, frontProduce, backConsume, connected,
              disposed>>

\* What changes it.
LEMMA LifeFrame ==
    ASSUME [Next]_vars
    PROVE  \/ UNCHANGED lifeVars
           \/ \E c \in Conns :
                 \/ SendPacket(c) \/ Disconnect(c) \/ OnAcceptClient(c)
                 \/ OnDisconnectCb(c) \/ ReleaseClient(c) \/ AcceptStream(c)
                 \/ OnDisposeClient(c) \/ DisposeDownStream(c)
           \/ RecyclerPopSecond \/ SafeRelease \/ ExecDispose \/ ResultCb
  <1>1. ASSUME NEW c \in Conns,
               IgnoreAccept(c) \/ TaskFailed(c) \/ LaterOnReleased(c)
        PROVE  UNCHANGED lifeVars
    BY <1>1 DEF IgnoreAccept, TaskFailed, LaterOnReleased, NextCallback,
                lifeVars, objVars, countVars, mgrVars
  <1>2. OpenTcpServer \/ CloseTcpServer => UNCHANGED lifeVars
    BY DEF OpenTcpServer, CloseTcpServer, lifeVars, objVars, countVars, mgrVars
  <1>3. ExecOpen \/ ExecClose \/ ExecPost \/ ExecFlush \/ ExecConfirm =>
            UNCHANGED lifeVars
    BY DEF ExecOpen, ExecClose, ExecPost, ExecFlush, ExecConfirm, Dequeue,
           lifeVars, countVars, mgrVars
  <1>4. QED
    BY <1>1, <1>2, <1>3, ManagerFrame, WorkQueueFrame, FlagFrame, StreamFrame
       DEF lifeVars

\* The stages of a client.
LEMMA StageValues ==
    ASSUME TypeOK, OneOwner, NEW c \in Conns
    PROVE  /\ life[c] = "none" => StageOf(c) = "absent"
           /\ life[c] = "offered" => StageOf(c) = "offered"
           /\ c \in clients => StageOf(c) = "serving"
           /\ c \in recycler => StageOf(c) = "retired"
  <1>1. /\ c \in clients => life[c] = "live"
        /\ c \in recycler => life[c] = "live" /\ c \notin clients
    BY DEF OneOwner
  <1>2. QED
    BY ONLY <1>1 DEF StageOf

\* A client that nothing happens to stays in its stage.
LEMMA StageStays ==
    ASSUME NEW d \in Conns, life'[d] = life[d],
           d \in clients' <=> d \in clients, d \in recycler' <=> d \in recycler
    PROVE  StageOf(d)' = StageOf(d)
  BY Zenon DEF StageOf

\* One client changes its stage.
LEMMA StageMoves ==
    ASSUME NEW c \in Conns, NEW from, NEW to, StageOf(c) = from,
           StageOf(c)' = to,
           \A d \in Conns \ {c} : StageOf(d)' = StageOf(d)
    PROVE  Lifetime!Move(c, from, to)
  <1> DEFINE s == [d \in Conns |-> StageOf(d)]
  <1>1. s[c] = from
    OBVIOUS
  <1>2. s' = [d \in Conns |-> StageOf(d)']
    OBVIOUS
  <1>3. s' = [s EXCEPT ![c] = to]
    <2>1. \A d \in Conns : StageOf(d)' = IF d = c THEN to ELSE s[d]
      OBVIOUS
    <2>2. [s EXCEPT ![c] = to] = [d \in Conns |-> IF d = c THEN to ELSE s[d]]
      OBVIOUS
    <2>3. QED
      BY ONLY <1>2, <2>1, <2>2
  <1>4. QED
    BY ONLY <1>1, <1>3 DEF Lifetime!Move

\* Nobody changes its stage, or the references of anybody.
LEMMA LifeSame ==
    ASSUME TRUE
    PROVE  /\ UNCHANGED <<life, clients, recycler>> =>
                 UNCHANGED [d \in Conns |-> StageOf(d)]
           /\ UNCHANGED <<frontProduce, backConsume>> =>
                 UNCHANGED [d \in Conns |-> frontProduce[d] - backConsume[d]]
  BY DEF StageOf

\* Counting a command up or down.
LEMMA RefsCounted ==
    ASSUME NEW f \in [Conns -> Nat], NEW b \in [Conns -> Nat],
           NEW c \in Conns, NEW d \in Conns
    PROVE  /\ Incr(f, c)[d] - b[d] =
                  IF d = c THEN (f[c] - b[c]) + 1 ELSE f[d] - b[d]
           /\ f[d] - Incr(b, c)[d] =
                  IF d = c THEN (f[c] - b[c]) - 1 ELSE f[d] - b[d]
  <1>1. f[d] \in Nat /\ b[d] \in Nat
    OBVIOUS
  <1>2. /\ Incr(f, c)[d] = f[d] + (IF c = d THEN 1 ELSE 0)
        /\ Incr(b, c)[d] = b[d] + (IF c = d THEN 1 ELSE 0)
    BY IncrAll
  <1>3. CASE d = c
    BY ONLY <1>1, <1>2, <1>3
  <1>4. CASE d # c
    BY ONLY <1>1, <1>2, <1>4
  <1>5. QED
    BY ONLY <1>3, <1>4

\* The command being executed holds a reference.
LEMMA RefIsHeld ==
    ASSUME NEW p \in Nat, NEW b \in Nat, NEW n \in Nat, NEW e,
           e = 1, p = b + n + e
    PROVE  p - b > 0
  OBVIOUS

\* A command is counted.
LEMMA RefAcquired ==
    ASSUME TypeOK, NEW c \in Conns, frontProduce' = Incr(frontProduce, c),
           UNCHANGED backConsume
    PROVE  Lifetime!Acquire(c)
  <1> DEFINE r == [d \in Conns |-> frontProduce[d] - backConsume[d]]
  <1>1. frontProduce \in [Conns -> Nat] /\ backConsume \in [Conns -> Nat]
    BY CounterTypes
  <1>2. \A d \in Conns : Incr(frontProduce, c)[d] - backConsume[d] =
            IF d = c THEN (frontProduce[c] - backConsume[c]) + 1
            ELSE frontProduce[d] - backConsume[d]
    BY ONLY <1>1, c \in Conns, RefsCounted
  <1>3. r' = [d \in Conns |-> Incr(frontProduce, c)[d] - backConsume[d]]
    OBVIOUS
  <1>4. [r EXCEPT ![c] = @ + 1] =
            [d \in Conns |->
                IF d = c THEN (frontProduce[c] - backConsume[c]) + 1
                ELSE frontProduce[d] - backConsume[d]]
    OBVIOUS
  <1>5. r' = [r EXCEPT ![c] = @ + 1]
    BY ONLY <1>2, <1>3, <1>4
  <1>6. QED
    BY ONLY <1>5 DEF Lifetime!Acquire

\* AcceptStream offers a client.
LEMMA OfferStep ==
    ASSUME TypeOK, OneOwner, NEW c \in Conns, AcceptStream(c)
    PROVE  Lifetime!Offer(c)
  <1>1. /\ life[c] = "none" /\ life' = [life EXCEPT ![c] = "offered"]
        /\ UNCHANGED <<clients, recycler, frontProduce, backConsume, connected,
                       disposed>>
    BY DEF AcceptStream, countVars, mgrVars
  <1>2. life'[c] = "offered" /\ \A d \in Conns \ {c} : life'[d] = life[d]
    BY <1>1, LifeTypes
  <1>3. StageOf(c) = "absent" /\ StageOf(c)' = "offered"
    BY <1>1, <1>2, StageValues DEF StageOf
  <1>4. \A d \in Conns \ {c} : StageOf(d)' = StageOf(d)
    BY <1>1, <1>2, StageStays
  <1>5. Lifetime!Move(c, "absent", "offered")
    BY <1>3, <1>4, StageMoves
  <1>6. QED
    BY <1>1, <1>5, LifeSame DEF Lifetime!Offer

\* OnAcceptClient creates it.
LEMMA CreateStep ==
    ASSUME TypeOK, OneOwner, AcceptIsFresh, NEW c \in Conns, OnAcceptClient(c)
    PROVE  Lifetime!Create(c)
  <1>1. /\ life[c] = "offered" /\ life'[c] = "live"
        /\ \A d \in Conns \ {c} : life'[d] = life[d]
        /\ clients' = clients \cup {c} /\ UNCHANGED <<recycler, disposed>>
    BY AcceptCommits DEF OnAcceptClient
  <1>2. StageOf(c) = "offered" /\ StageOf(c)' = "serving"
    BY <1>1, StageValues DEF StageOf
  <1>3. \A d \in Conns \ {c} : StageOf(d)' = StageOf(d)
    BY <1>1, StageStays
  <1>4. Lifetime!Move(c, "offered", "serving")
    BY <1>2, <1>3, StageMoves
  <1>5. Lifetime!Acquire(c) /\ connected' = connected \cup {c}
    BY RefAcquired DEF OnAcceptClient, OnConnect, CommitFor, NextCallback
  <1>6. QED
    BY <1>1, <1>4, <1>5 DEF Lifetime!Create

\* SendPacket uses it.
LEMMA UseStep ==
    ASSUME TypeOK, OneOwner, NEW c \in Conns, SendPacket(c)
    PROVE  Lifetime!Use(c)
  <1>1. /\ c \in clients
        /\ UNCHANGED <<life, clients, recycler, connected, disposed>>
    BY DEF SendPacket, objVars, mgrVars
  <1>2. Lifetime!Acquire(c)
    BY RefAcquired DEF SendPacket, CommitFor
  <1>3. StageOf(c) = "serving"
    BY <1>1, StageValues
  <1>4. QED
    BY <1>1, <1>2, <1>3, LifeSame DEF Lifetime!Use

\* Disconnect, OnDisconnectCb and ReleaseClient retire it; a disconnect
\* callback that comes after that only tells the application.
LEMMA RetireStep ==
    ASSUME TypeOK, OneOwner, ConnectedIsOwned, NEW c \in Conns,
           Disconnect(c) \/ OnDisconnectCb(c) \/ ReleaseClient(c)
    PROVE  \/ Lifetime!Retire(c) \/ Lifetime!Disconnect(c)
           \/ UNCHANGED Lifetime!vars
  <1>1. /\ OnRemoveClient(c) /\ connected' \in {connected, connected \ {c}}
        /\ UNCHANGED <<life, backConsume, disposed>>
    BY DEF Disconnect, OnDisconnectCb, ReleaseClient, OnDisconnect,
           NextCallback, objVars
  <1>2. CASE c \in clients
    <2>1. /\ clients' = clients \ {c} /\ recycler' = recycler \cup {c}
          /\ frontProduce' = Incr(frontProduce, c)
      BY <1>1, <1>2 DEF OnRemoveClient, CommitFor
    <2>2. life[c] = "live" /\ StageOf(c) = "serving"
      BY <1>2, StageValues DEF OneOwner
    <2>3. StageOf(c)' = "retired"
      BY <1>1, <2>1, <2>2 DEF StageOf
    <2>4. \A d \in Conns \ {c} : StageOf(d)' = StageOf(d)
      BY <1>1, <2>1, StageStays
    <2>5. Lifetime!Move(c, "serving", "retired")
      BY <2>2, <2>3, <2>4, StageMoves
    <2>6. Lifetime!Acquire(c)
      BY <1>1, <2>1, RefAcquired
    <2>7. Lifetime!Retire(c)
      BY <1>1, <2>5, <2>6 DEF Lifetime!Retire
    <2>8. QED
      BY <2>7
  <1>3. CASE c \notin clients
    <2>1. UNCHANGED <<clients, recycler, frontProduce>>
      BY <1>1, <1>3 DEF OnRemoveClient
    <2>2. CASE UNCHANGED connected
      BY <1>1, <2>1, <2>2, LifeSame DEF Lifetime!vars
    <2>3. CASE connected' = connected \ {c} /\ c \in connected
      <3>1. StageOf(c) = "retired"
        BY <1>3, <2>3, StageValues DEF ConnectedIsOwned
      <3>2. Lifetime!Disconnect(c)
        BY <1>1, <2>1, <2>3, <3>1, LifeSame DEF Lifetime!Disconnect
      <3>3. QED
        BY <3>2
    <2>4. QED
      BY <1>1, <2>2, <2>3
  <1>4. QED
    BY <1>2, <1>3

\* DisposeConnection of a client in the map or the recycler disposes of it.
LEMMA DisposeStep ==
    ASSUME TypeOK, OneOwner, NEW c \in Conns, DisposeConnection(c),
           c \in disposed \/ c \in clients \/ c \in recycler,
           UNCHANGED <<life, clients, recycler, frontProduce, backConsume,
                       connected>>
    PROVE  Lifetime!Dispose(c) \/ UNCHANGED Lifetime!vars
  <1>1. CASE c \in disposed
    BY <1>1, LifeSame DEF DisposeConnection, Lifetime!vars
  <1>2. CASE c \notin disposed
    <2>1. disposed' = disposed \cup {c}
      BY <1>2 DEF DisposeConnection
    <2>2. StageOf(c) \in {"serving", "retired"}
      BY <1>2, StageValues
    <2>3. QED
      BY <2>1, <2>2, LifeSame DEF Lifetime!Dispose
  <1>3. QED
    BY <1>1, <1>2

\* The steps of the worker that dispose of a client.
LEMMA DisposingSteps ==
    ASSUME IInv, [Next]_vars,
           \/ ExecDispose
           \/ \E c \in Conns : OnDisposeClient(c) \/ DisposeDownStream(c)
    PROVE  \/ \E c \in Conns : Lifetime!Dispose(c)
           \/ UNCHANGED Lifetime!vars
  <1>1. /\ TypeOK /\ OneOwner /\ FreshIsClean /\ ReleasedIsClean /\ Blocking
        /\ CommandAccounting /\ CommandIsLive
    BY DEF IInv
  <1>2. ASSUME NEW c \in Conns, OnDisposeClient(c)
        PROVE  Lifetime!Dispose(c) \/ UNCHANGED Lifetime!vars
    <2>1. /\ c \in later /\ life[c] # "released" /\ DisposeConnection(c)
          /\ UNCHANGED <<life, clients, recycler, frontProduce, backConsume,
                         connected>>
      BY <1>2 DEF OnDisposeClient, mgrVars
    <2>2. life[c] = "live"
      BY <1>1, <2>1, LifeTypes DEF FreshIsClean, Life
    <2>3. c \in disposed \/ c \in clients \/ c \in recycler
      BY <1>1, <2>2 DEF OneOwner, ReleasedIsClean
    <2>4. QED
      BY <1>1, <2>1, <2>3, DisposeStep
  <1>3. ASSUME NEW c \in Conns, DisposeDownStream(c)
        PROVE  Lifetime!Dispose(c) \/ UNCHANGED Lifetime!vars
    <2>1. /\ wpc = "closing" /\ c \in todo /\ DisposeConnection(c)
          /\ UNCHANGED <<life, clients, recycler, frontProduce, backConsume,
                         connected>>
      BY <1>3 DEF DisposeDownStream, mgrVars
    <2>2. c \in clients
      BY <1>1, <2>1, BlockingParts
    <2>3. QED
      BY <1>1, <2>1, <2>2, DisposeStep
  <1>4. ASSUME ExecDispose
        PROVE  \/ \E c \in Conns : Lifetime!Dispose(c)
               \/ UNCHANGED Lifetime!vars
    <2> DEFINE c == Head(workQ).conn
    <2>1. Dequeue("DISPOSE_CONNECTION") /\ DisposeConnection(c)
      BY <1>4 DEF ExecDispose
    <2>2. UNCHANGED <<life, clients, recycler, frontProduce, backConsume,
                      connected>>
      BY <2>1 DEF Dequeue, mgrVars, countVars
    <2>3. /\ 1 \in 1..Len(workQ) /\ workQ[1].type \in ClientCmd
          /\ c = workQ[1].conn
      BY <1>1, <2>1, TakeFacts DEF ClientCmd
    <2>4. c \in Conns /\ c \notin safe /\ life[c] = "live"
      BY <1>1, <2>3, UsedIsLive
    <2>5. c \in clients \/ c \in recycler
      BY <1>1, <2>4 DEF OneOwner
    <2> HIDE DEF c
    <2>6. QED
      BY <1>1, <2>1, <2>2, <2>4, <2>5, DisposeStep
  <1>5. QED
    BY <1>2, <1>3, <1>4

\* ResultCb gives a reference back.
LEMMA FinishRefStep ==
    ASSUME TypeOK, CommandAccounting, ResultCb
    PROVE  \/ \E c \in Conns : Lifetime!Finish(c)
           \/ UNCHANGED Lifetime!vars
  <1>1. /\ backConsume' = IF wcmd.type \in ClientCmd
                          THEN Incr(backConsume, wcmd.conn) ELSE backConsume
        /\ UNCHANGED <<life, clients, recycler, frontProduce, connected,
                       disposed>>
    BY DEF ResultCb, objVars, mgrVars
  <1>2. CASE wcmd.type \notin ClientCmd
    BY <1>1, <1>2, LifeSame DEF Lifetime!vars
  <1>3. CASE wcmd.type \in ClientCmd
    <2>1. PICK c \in Conns : c = wcmd.conn
      <3>1. wcmd \in Cmd
        <4>1. wcmd \in Cmd \cup {NoCmd}
          BY DEF TypeOK
        <4>2. NoCmd.type \notin ClientCmd
          BY DEF NoCmd, ClientCmd
        <4>3. QED
          BY ONLY <1>3, <4>1, <4>2
      <3>2. wcmd.conn \in Conns
        BY <1>3, <3>1, CommandFacts DEF ClientCmd, BlockingCmd
      <3>3. QED
        BY <3>2
    <2> DEFINE r == [d \in Conns |-> frontProduce[d] - backConsume[d]]
    <2>2. \A d \in Conns : frontProduce[d] \in Nat /\ backConsume[d] \in Nat
      BY CountersNat
    <2>3. r[c] > 0
      <3>1. frontProduce[c] = backConsume[c] + Cardinality(CmdsOf(c))
                                + Executing(c)
        BY <2>1 DEF CommandAccounting
      <3>2. Executing(c) = 1 /\ Cardinality(CmdsOf(c)) \in Nat
        BY <1>3, <2>1, CountersNat DEF Executing
      <3>3. r[c] = frontProduce[c] - backConsume[c]
        BY <2>1
      <3>4. QED
        <4>1. frontProduce[c] \in Nat /\ backConsume[c] \in Nat
          BY <2>2
        <4>2. frontProduce[c] - backConsume[c] > 0
          BY ONLY <3>1, <3>2, <4>1, RefIsHeld
        <4>3. QED
          BY ONLY <3>3, <4>2
    <2>4. backConsume' = Incr(backConsume, c) /\ frontProduce' = frontProduce
      BY ONLY <1>1, <1>3, <2>1
    <2>5. \A d \in Conns : frontProduce[d] - Incr(backConsume, c)[d] =
              IF d = c THEN (frontProduce[c] - backConsume[c]) - 1
              ELSE frontProduce[d] - backConsume[d]
      <3>1. frontProduce \in [Conns -> Nat] /\ backConsume \in [Conns -> Nat]
        BY CounterTypes
      <3>2. QED
        BY ONLY <3>1, c \in Conns, RefsCounted
    <2>6. /\ r' = [d \in Conns |-> frontProduce[d] - Incr(backConsume, c)[d]]
          /\ [r EXCEPT ![c] = @ - 1] =
                 [d \in Conns |->
                     IF d = c THEN (frontProduce[c] - backConsume[c]) - 1
                     ELSE frontProduce[d] - backConsume[d]]
      BY <2>4
    <2>7. r' = [r EXCEPT ![c] = @ - 1]
      BY ONLY <2>5, <2>6
    <2>8. Lifetime!Finish(c)
      BY <1>1, <2>3, <2>7, LifeSame DEF Lifetime!Finish
    <2>9. QED
      BY <2>1, <2>8
  <1>4. QED
    BY <1>2, <1>3

\* RecyclerPopSecond gives it up; SafeRelease only deletes what was given up.
LEMMA DeleteStep ==
    ASSUME TypeOK, OneOwner, WalkInRecycler, ConnectedIsOwned,
           RecyclerPopSecond
    PROVE  \/ \E c \in Conns : Lifetime!Delete(c)
           \/ UNCHANGED Lifetime!vars
  <1>1. /\ mpc = "recycle2"
        /\ UNCHANGED <<life, clients, frontProduce, backConsume, connected,
                       disposed>>
    BY DEF RecyclerPopSecond, objVars, countVars
  <1>2. PICK c \in Conns : c = cur /\ c \in recycler /\ c \notin connected
    BY <1>1, LifeTypes DEF WalkInRecycler, ConnectedIsOwned
  <1>3. life[c] = "live" /\ c \notin clients
    BY <1>2 DEF OneOwner
  <1>4. CASE UNCHANGED recycler
    BY <1>1, <1>4, LifeSame DEF Lifetime!vars
  <1>5. CASE IsFrontEndClean(c) /\ c \in disposed /\ recycler' = recycler \ {c}
    <2>1. StageOf(c) = "retired"
      BY <1>2, StageValues
    <2>2. StageOf(c)' = "deleted"
      <3>1. life'[c] = "live" /\ c \notin clients' /\ c \notin recycler'
        BY <1>1, <1>3, <1>5
      <3>2. QED
        BY ONLY <3>1 DEF StageOf
    <2>3. \A d \in Conns \ {c} : StageOf(d)' = StageOf(d)
      BY <1>1, <1>5, StageStays
    <2>4. Lifetime!Move(c, "retired", "deleted")
      BY <2>1, <2>2, <2>3, StageMoves
    <2>5. [d \in Conns |-> frontProduce[d] - backConsume[d]][c] = 0
      <3>1. frontProduce[c] \in Nat /\ frontProduce[c] = backConsume[c]
        BY <1>5, CountersNat DEF IsFrontEndClean
      <3>2. QED
        BY <3>1
    <2>6. Lifetime!Delete(c)
      BY <1>1, <1>2, <1>5, <2>4, <2>5, LifeSame DEF Lifetime!Delete
    <2>7. QED
      BY <2>6
  <1>6. QED
    BY <1>2, <1>4, <1>5 DEF RecyclerPopSecond

LEMMA ReleaseStutters ==
    ASSUME TypeOK, OneOwner, SafeRelease
    PROVE  UNCHANGED Lifetime!vars
  <1>1. /\ life' = [c \in Conns |-> IF c \in safe THEN "released" ELSE life[c]]
        /\ UNCHANGED <<clients, recycler, frontProduce, backConsume, connected,
                       disposed>>
    BY DEF SafeRelease, countVars
  <1>2. ASSUME NEW d \in Conns
        PROVE  StageOf(d)' = StageOf(d)
    <2>1. CASE d \notin safe
      BY <1>1, <2>1, StageStays
    <2>2. CASE d \in safe
      <3>1. life[d] = "live" /\ d \notin clients /\ d \notin recycler
        BY <2>2 DEF OneOwner
      <3>2. life'[d] = "released"
        BY <1>1, <2>2
      <3>3. QED
        BY ONLY <3>1, <3>2 DEF StageOf
    <2>3. QED
      BY <2>1, <2>2
  <1>3. UNCHANGED [d \in Conns |-> StageOf(d)]
    BY <1>2
  <1>4. QED
    BY <1>1, <1>3, LifeSame DEF Lifetime!vars

\* Every step is a step of ClientLife, or none that it sees.
LEMMA LifetimeStep ==
    ASSUME IInv, ConnectedIsOwned, [Next]_vars
    PROVE  [Lifetime!Next]_(Lifetime!vars)
  <1>1. TypeOK /\ OneOwner /\ AcceptIsFresh /\ WalkInRecycler
          /\ CommandAccounting
    BY DEF IInv
  <1>2. UNCHANGED lifeVars => UNCHANGED Lifetime!vars
    BY LifeSame DEF lifeVars, Lifetime!vars
  <1>3. ASSUME NEW c \in Conns,
               \/ SendPacket(c) \/ Disconnect(c) \/ OnAcceptClient(c)
               \/ OnDisconnectCb(c) \/ ReleaseClient(c) \/ AcceptStream(c)
        PROVE  \/ Lifetime!Use(c) \/ Lifetime!Create(c) \/ Lifetime!Offer(c)
               \/ Lifetime!Retire(c) \/ Lifetime!Disconnect(c)
               \/ UNCHANGED Lifetime!vars
    BY <1>1, <1>3, UseStep, CreateStep, OfferStep, RetireStep
  <1>4. \/ \E c \in Conns :
              \/ Lifetime!Offer(c) \/ Lifetime!Create(c) \/ Lifetime!Use(c)
              \/ Lifetime!Retire(c) \/ Lifetime!Disconnect(c)
              \/ Lifetime!Finish(c) \/ Lifetime!Dispose(c)
              \/ Lifetime!Delete(c)
        \/ UNCHANGED Lifetime!vars
    BY <1>1, <1>2, <1>3, LifeFrame, DisposingSteps, FinishRefStep, DeleteStep,
       ReleaseStutters
  <1>5. QED
    BY <1>4 DEF Lifetime!Next

\* The two threads, the two counters and the recycler implement ClientLife: a
\* client is deleted only after its last command, its disposal and its
\* disconnect event, and no command is made for one that was given up.
THEOREM LifeImplemented == Spec => LifetimeKept
  <1>1. Init => Lifetime!Init
    <2> SUFFICES ASSUME Init
                 PROVE  Lifetime!Init
      OBVIOUS
    <2>1. \A c \in Conns : /\ life[c] = "none"
                           /\ frontProduce[c] - backConsume[c] = 0
      BY DEF Init
    <2>2. \A c \in Conns : StageOf(c) = "absent"
      BY <2>1 DEF StageOf
    <2>3. QED
      BY <2>1, <2>2 DEF Init, Lifetime!Init
  <1>2. Init => ConnectedIsOwned
    BY DEF Init, ConnectedIsOwned
  <1>3. IInv /\ ConnectedIsOwned /\ [Next]_vars => ConnectedIsOwned'
    BY ConnectedStep DEF IInv
  <1>4. IInv /\ ConnectedIsOwned /\ [Next]_vars =>
            [Lifetime!Next]_(Lifetime!vars)
    BY LifetimeStep
  <1>5. QED
    BY <1>1, <1>2, <1>3, <1>4, Inductive, PTL
       DEF Spec, LifetimeKept, Lifetime!Spec

=============================================================================
