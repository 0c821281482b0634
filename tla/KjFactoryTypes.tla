---------------------------- MODULE KjFactoryTypes ---------------------------
(***************************************************************************)
(* Type correctness of KjFactory, for every set of connections and every   *)
(* bound, with the lemmas about its queues that the other proofs use.      *)
(***************************************************************************)
EXTENDS KjFactory, FiniteSetTheorems, TLAPS

-----------------------------------------------------------------------------
(* Queues.                                                                 *)

\* Appending an element: type, length and elements.
LEMMA AppendFacts ==
    ASSUME NEW S, NEW q \in Seq(S), NEW e \in S
    PROVE  /\ Append(q, e) \in Seq(S)
           /\ Len(Append(q, e)) = Len(q) + 1
           /\ Len(q) \in Nat
           /\ Append(q, e)[Len(q) + 1] = e
           /\ \A i \in 1..Len(q) : Append(q, e)[i] = q[i]
  OBVIOUS

\* Removing the head: type, length and elements.
LEMMA TailFacts ==
    ASSUME NEW S, NEW q \in Seq(S), q # <<>>
    PROVE  /\ Tail(q) \in Seq(S)
           /\ Len(q) \in Nat /\ Len(q) >= 1
           /\ Len(Tail(q)) = Len(q) - 1
           /\ Head(q) = q[1] /\ Head(q) \in S
           /\ \A i \in 1..(Len(q) - 1) : Tail(q)[i] = q[i + 1]
  OBVIOUS

\* The positions that Matching selects are finitely many.
LEMMA MatchingFinite ==
    ASSUME NEW S, NEW q \in Seq(S), NEW c, NEW T
    PROVE  /\ IsFiniteSet(Matching(q, c, T))
           /\ Cardinality(Matching(q, c, T)) \in Nat
  <1>1. Len(q) \in Nat
    OBVIOUS
  <1>2. IsFiniteSet(1..Len(q))
    BY <1>1, FS_Interval
  <1>3. Matching(q, c, T) \in SUBSET (1..Len(q))
    BY DEF Matching
  <1>4. QED
    BY <1>2, <1>3, FS_Subset, FS_CardinalityType

\* Appending an entry adds it to what Matching counts if it matches.
LEMMA MatchingAppend ==
    ASSUME NEW S, NEW q \in Seq(S), NEW e \in S, NEW c, NEW T
    PROVE  Cardinality(Matching(Append(q, e), c, T)) =
               Cardinality(Matching(q, c, T))
                 + (IF e.conn = c /\ e.type \in T THEN 1 ELSE 0)
  <1> DEFINE n == Len(q) + 1
  <1>1. /\ Len(q) \in Nat
        /\ Len(Append(q, e)) = n /\ Append(q, e)[n] = e
        /\ \A i \in 1..Len(q) : Append(q, e)[i] = q[i]
    BY AppendFacts
  <1>2. n \notin Matching(q, c, T)
    BY <1>1 DEF Matching
  <1>3. CASE e.conn = c /\ e.type \in T
    <2>1. Matching(Append(q, e), c, T) = Matching(q, c, T) \cup {n}
      BY <1>1, <1>3 DEF Matching
    <2>2. IsFiniteSet(Matching(q, c, T))
      BY MatchingFinite
    <2>3. Cardinality(Matching(q, c, T) \cup {n}) =
              Cardinality(Matching(q, c, T)) + 1
      BY <1>2, <2>2, FS_AddElement
    <2>4. QED
      BY <1>3, <2>1, <2>3
  <1>4. CASE ~(e.conn = c /\ e.type \in T)
    <2>1. Matching(Append(q, e), c, T) = Matching(q, c, T)
      BY <1>1, <1>4 DEF Matching
    <2>2. QED
      BY <1>4, <2>1, MatchingFinite
  <1>5. QED
    BY <1>3, <1>4

\* Removing the head takes it from what Matching counts if it matched.
LEMMA MatchingTail ==
    ASSUME NEW S, NEW q \in Seq(S), q # <<>>, NEW c, NEW T
    PROVE  Cardinality(Matching(q, c, T)) =
               Cardinality(Matching(Tail(q), c, T))
                 + (IF Head(q).conn = c /\ Head(q).type \in T THEN 1 ELSE 0)
  <1> DEFINE M == Matching(q, c, T)
             R == M \ {1}
             N == Matching(Tail(q), c, T)
             f == [i \in N |-> i + 1]
  <1>1. /\ Tail(q) \in Seq(S)
        /\ Len(q) \in Nat /\ Len(q) >= 1
        /\ Len(Tail(q)) = Len(q) - 1 /\ Head(q) = q[1]
        /\ \A i \in 1..(Len(q) - 1) : Tail(q)[i] = q[i + 1]
    BY TailFacts
  <1>2. f \in Bijection(N, R)
    <2>1. f \in [N -> R]
      BY <1>1 DEF Matching
    <2>2. \A i, j \in N : f[i] = f[j] => i = j
      BY <1>1 DEF Matching
    <2>3. \A k \in R : \E i \in N : f[i] = k
      <3> SUFFICES ASSUME NEW k \in R PROVE \E i \in N : f[i] = k
        OBVIOUS
      <3>1. k \in 2..Len(q) /\ q[k].conn = c /\ q[k].type \in T
        BY <1>1 DEF Matching
      <3>2. k - 1 \in 1..(Len(q) - 1) /\ Tail(q)[k - 1] = q[k]
        BY <1>1, <3>1
      <3>3. k - 1 \in N
        BY <1>1, <3>1, <3>2 DEF Matching
      <3>4. f[k - 1] = k
        BY <3>1, <3>3
      <3>5. QED
        BY <3>3, <3>4
    <2>4. QED
      BY <2>1, <2>2, <2>3 DEF Bijection, Injection, Surjection, IsInjective
  <1>3. IsFiniteSet(N) /\ IsFiniteSet(M)
    BY <1>1, MatchingFinite
  <1>4. Cardinality(R) = Cardinality(N)
    BY <1>2, <1>3, FS_Bijection DEF ExistsBijection
  <1>5. Cardinality(R) = IF 1 \in M THEN Cardinality(M) - 1
                                    ELSE Cardinality(M)
    BY <1>3, FS_RemoveElement
  <1>6. 1 \in M <=> Head(q).conn = c /\ Head(q).type \in T
    BY <1>1 DEF Matching
  <1>7. Cardinality(M) \in Nat /\ Cardinality(N) \in Nat
    BY <1>1, MatchingFinite
  <1>8. QED
    BY <1>4, <1>5, <1>6, <1>7

-----------------------------------------------------------------------------
(* Type correctness.                                                       *)

\* A command of the work queue.
LEMMA CommandFacts ==
    ASSUME NEW x \in Cmd
    PROVE  /\ x.type \in ClientCmd \cup BlockingCmd
                            \cup {"FLUSH_TCP_SERVER_DOWNSTREAM"}
           /\ x.type \notin BlockingCmd => x.conn \in Conns
           /\ x.type \in BlockingCmd => x.conn = NoConn
           /\ x.conn \in Conns \cup {NoConn}
           /\ x = [type |-> x.type, conn |-> x.conn]
  BY DEF Cmd, ClientCmd, BlockingCmd

\* A callback of the trunk queue.
LEMMA CallbackFacts ==
    ASSUME NEW x \in Callback
    PROVE  /\ x.type \in {"accept", "disconnect", "packet"}
           /\ x.conn \in Conns
           /\ x = [type |-> x.type, conn |-> x.conn]
  BY DEF Callback, ClientCb

\* Committing a command about a connection.
LEMMA CommitType ==
    ASSUME NEW c \in Conns, workQ \in Seq(Cmd), NEW type,
           type \in ClientCmd \cup {"FLUSH_TCP_SERVER_DOWNSTREAM"},
           Commit(type, c)
    PROVE  /\ [type |-> type, conn |-> c] \in Cmd
           /\ workQ' \in Seq(Cmd)
           /\ Len(workQ') = Len(workQ) + 1 /\ Len(workQ) \in Nat
           /\ workQ'[Len(workQ) + 1] = [type |-> type, conn |-> c]
           /\ \A i \in 1..Len(workQ) : workQ'[i] = workQ[i]
  <1>1. [type |-> type, conn |-> c] \in Cmd
    BY DEF Cmd, ClientCmd, BlockingCmd
  <1>2. QED
    BY <1>1, AppendFacts DEF Commit

\* Committing a blocking command.
LEMMA BlockingCommitType ==
    ASSUME workQ \in Seq(Cmd), NEW type \in BlockingCmd, BlockingCommit(type)
    PROVE  /\ [type |-> type, conn |-> NoConn] \in Cmd
           /\ workQ' \in Seq(Cmd)
           /\ Len(workQ') = Len(workQ) + 1 /\ Len(workQ) \in Nat
           /\ workQ'[Len(workQ) + 1] = [type |-> type, conn |-> NoConn]
           /\ \A i \in 1..Len(workQ) : workQ'[i] = workQ[i]
           /\ answered' = FALSE
  <1>1. [type |-> type, conn |-> NoConn] \in Cmd
    BY DEF Cmd, ClientCmd, BlockingCmd
  <1>2. QED
    BY <1>1, AppendFacts DEF Commit, BlockingCommit

\* A callback put in the trunk queue.
LEMMA CallbackType ==
    ASSUME NEW c \in Conns, trunkQ \in Seq(Callback),
           NEW type \in ClientCb \cup {"accept"},
           trunkQ' = Append(trunkQ, [type |-> type, conn |-> c])
    PROVE  /\ [type |-> type, conn |-> c] \in Callback
           /\ trunkQ' \in Seq(Callback)
           /\ Len(trunkQ') = Len(trunkQ) + 1 /\ Len(trunkQ) \in Nat
           /\ trunkQ'[Len(trunkQ) + 1] = [type |-> type, conn |-> c]
           /\ \A i \in 1..Len(trunkQ) : trunkQ'[i] = trunkQ[i]
  <1>1. [type |-> type, conn |-> c] \in Callback
    BY DEF Callback, ClientCb
  <1>2. QED
    BY <1>1, AppendFacts

\* A command taken from the work queue.
LEMMA DequeueType ==
    ASSUME workQ \in Seq(Cmd), NEW type, Dequeue(type)
    PROVE  /\ workQ' \in Seq(Cmd)
           /\ wcmd' = workQ[1] /\ wcmd' \in Cmd /\ wcmd'.type = type
           /\ Head(workQ) = workQ[1]
           /\ Len(workQ) \in Nat /\ Len(workQ) >= 1
           /\ Len(workQ') = Len(workQ) - 1
           /\ \A i \in 1..(Len(workQ) - 1) : workQ'[i] = workQ[i + 1]
  BY TailFacts DEF Dequeue

\* A callback taken from the trunk queue.
LEMMA NextCallbackType ==
    ASSUME trunkQ \in Seq(Callback), NEW cb, NextCallback(cb)
    PROVE  /\ trunkQ' \in Seq(Callback)
           /\ cb = trunkQ[1] /\ cb \in Callback
           /\ Len(trunkQ) \in Nat /\ Len(trunkQ) >= 1
           /\ Len(trunkQ') = Len(trunkQ) - 1
           /\ \A i \in 1..(Len(trunkQ) - 1) : trunkQ'[i] = trunkQ[i + 1]
  BY TailFacts DEF NextCallback

\* A turn of RunOnce keeps the queue and the count in their types.
LEMMA NextCallbackStep ==
    ASSUME TypeOK, NEW cb, NextCallback(cb)
    PROVE  trunkQ' \in Seq(Callback) /\ ncount' \in 0..ConsumeWaterline
  <1>1. trunkQ' \in Seq(Callback)
    BY NextCallbackType DEF TypeOK
  <1>2. ncount' \in 0..ConsumeWaterline
    BY BoundsAssumption DEF TypeOK, NextCallback
  <1>3. QED
    BY <1>1, <1>2

\* Counting one more for a connection.
LEMMA IncrFacts ==
    ASSUME NEW f \in [Conns -> Nat], NEW c \in Conns
    PROVE  /\ Incr(f, c) \in [Conns -> Nat]
           /\ Incr(f, c)[c] = f[c] + 1
           /\ \A d \in Conns \ {c} : Incr(f, c)[d] = f[d]
  BY DEF Incr

\* Removing a client from the map.
LEMMA RemoveType ==
    ASSUME TypeOK, NEW c \in Conns, OnRemoveClient(c)
    PROVE  /\ workQ' \in Seq(Cmd) /\ frontProduce' \in [Conns -> Nat]
           /\ clients' \in SUBSET Conns /\ recycler' \in SUBSET Conns
           /\ clientCount' \in Int
  <1>1. CASE c \in clients
    <2>1. Commit("DISPOSE_CONNECTION", c) /\ workQ \in Seq(Cmd)
      BY <1>1 DEF OnRemoveClient, CommitFor, TypeOK
    <2>2. "DISPOSE_CONNECTION" \in ClientCmd
      BY DEF ClientCmd
    <2>3. workQ' \in Seq(Cmd)
      BY <2>1, <2>2, CommitType
    <2>4. Incr(frontProduce, c) \in [Conns -> Nat]
      BY IncrFacts DEF TypeOK
    <2>5. /\ frontProduce' = Incr(frontProduce, c)
          /\ clients' = clients \ {c} /\ recycler' = recycler \cup {c}
          /\ clientCount' = clientCount - 1
      BY <1>1 DEF OnRemoveClient, CommitFor
    <2>6. QED
      BY <2>3, <2>4, <2>5, SMTT(30) DEF TypeOK
  <1>2. CASE c \notin clients
    BY <1>2 DEF TypeOK, OnRemoveClient
  <1>3. QED
    BY <1>1, <1>2

\* Disposing a connection.
LEMMA DisposeType ==
    ASSUME TypeOK, NEW c \in Conns, DisposeConnection(c)
    PROVE  /\ disposed' \in SUBSET Conns /\ flushed' \in SUBSET Conns
           /\ owned' \in SUBSET Conns /\ reading' \in SUBSET Conns
  BY DEF TypeOK, DisposeConnection, FlushStream

\* No step breaks the types.
LEMMA TypeStep ==
    ASSUME TypeOK, [Next]_vars
    PROVE  TypeOK'
  <1>1. CASE OpenTcpServer
    BY <1>1, BlockingCommitType
    DEF TypeOK, OpenTcpServer, objVars, countVars, mgrVars, serverVars,
        workVars, BlockingCmd, MainPc
  <1>2. CASE OpenAnswered
    BY <1>2
    DEF TypeOK, OpenAnswered, objVars, countVars, mgrVars, serverVars,
        queueVars, workVars, MainPc
  <1>3. ASSUME NEW c \in Conns, SendPacket(c)
        PROVE  TypeOK'
    BY <1>3, CommitType, IncrFacts
    DEF TypeOK, SendPacket, CommitFor, objVars, mgrVars, serverVars,
        mainVars, workVars, ClientCmd
  <1>4. ASSUME NEW c \in Conns, Disconnect(c)
        PROVE  TypeOK'
    BY <1>4, RemoveType
    DEF TypeOK, Disconnect, OnDisconnect, serverVars, mainVars, workVars
  <1>5. CASE StartRunOnce
    BY <1>5, BoundsAssumption
    DEF TypeOK, StartRunOnce, objVars, countVars, mgrVars, serverVars,
        queueVars, workVars, MainPc, MainRet
  <1>6. ASSUME NEW c \in Conns, OnAcceptClient(c)
        PROVE  TypeOK'
    <2>1. trunkQ' \in Seq(Callback) /\ ncount' \in 0..ConsumeWaterline
      BY <1>6, NextCallbackStep DEF OnAcceptClient
    <2>2. workQ' \in Seq(Cmd)
      <3>1. Commit("CONFIRM_CLIENT_IS_READY", c) /\ workQ \in Seq(Cmd)
        BY <1>6 DEF TypeOK, OnAcceptClient, CommitFor
      <3>2. "CONFIRM_CLIENT_IS_READY" \in ClientCmd \cup {"FLUSH_TCP_SERVER_DOWNSTREAM"}
        BY DEF ClientCmd
      <3>3. QED
        BY <3>1, <3>2, CommitType
    <2>3. frontProduce' \in [Conns -> Nat]
      BY <1>6, IncrFacts DEF TypeOK, OnAcceptClient, CommitFor
    <2>4. life' \in [Conns -> Life]
      BY <1>6 DEF TypeOK, OnAcceptClient, Life
    <2>5. /\ running' \in SUBSET Conns /\ connected' \in SUBSET Conns
          /\ clients' \in SUBSET Conns /\ clientCount' \in Int
      BY <1>6 DEF TypeOK, OnAcceptClient, OnConnect, OnAddClient
    <2>6. UNCHANGED <<frontConsume, recycler, mpc, wpc, mret, walk, cur, wcmd,
                      todo, later, serverVars, answered, quit, safe, disposed,
                      flushed, owned, reading, backConsume, backProduce>>
      BY <1>6 DEF OnAcceptClient, NextCallback
    <2>7. QED
      BY <2>1, <2>2, <2>3, <2>4, <2>5, <2>6 DEF TypeOK, serverVars
  <1>7. ASSUME NEW c \in Conns, IgnoreAccept(c)
        PROVE  TypeOK'
    <2>1. trunkQ' \in Seq(Callback) /\ ncount' \in 0..ConsumeWaterline
      BY <1>7, NextCallbackStep DEF IgnoreAccept
    <2>2. workQ' \in Seq(Cmd)
      <3>1. Commit("FLUSH_TCP_SERVER_DOWNSTREAM", c) /\ workQ \in Seq(Cmd)
        BY <1>7 DEF TypeOK, IgnoreAccept
      <3>2. "FLUSH_TCP_SERVER_DOWNSTREAM" \in ClientCmd \cup {"FLUSH_TCP_SERVER_DOWNSTREAM"}
        BY DEF ClientCmd
      <3>3. QED
        BY <3>1, <3>2, CommitType
    <2>3. QED
      BY <1>7, <2>1, <2>2
      DEF TypeOK, IgnoreAccept, NextCallback, serverVars
  <1>8. ASSUME NEW c \in Conns, OnDisconnectCb(c)
        PROVE  TypeOK'
    <2>1. trunkQ' \in Seq(Callback) /\ ncount' \in 0..ConsumeWaterline
      BY <1>8, NextCallbackStep DEF OnDisconnectCb
    <2>2. /\ workQ' \in Seq(Cmd) /\ frontProduce' \in [Conns -> Nat]
          /\ clients' \in SUBSET Conns /\ recycler' \in SUBSET Conns
          /\ clientCount' \in Int
      BY <1>8, RemoveType DEF OnDisconnectCb
    <2>3. QED
      BY <1>8, <2>1, <2>2, IncrFacts
      DEF TypeOK, OnDisconnectCb, NextCallback, OnDisconnect, serverVars
  <1>9. ASSUME NEW c \in Conns, OnPacketCb(c)
        PROVE  TypeOK'
    <2>1. trunkQ' \in Seq(Callback) /\ ncount' \in 0..ConsumeWaterline
      BY <1>9, NextCallbackStep DEF OnPacketCb
    <2>3. QED
      BY <1>9, <2>1, IncrFacts
      DEF TypeOK, OnPacketCb, NextCallback, serverVars
  <1>10. ASSUME NEW c \in Conns, CallbackOnReleased(c)
        PROVE  TypeOK'
    <2>1. trunkQ' \in Seq(Callback) /\ ncount' \in 0..ConsumeWaterline
      BY <1>10, NextCallbackStep DEF CallbackOnReleased
    <2>2. PICK cb : NextCallback(cb)
      BY <1>10 DEF CallbackOnReleased
    <2>3. mpc' \in MainPc /\ wpc' \in WorkPc
      BY <1>10 DEF TypeOK, CallbackOnReleased, Crash, MainPc, WorkPc
    <2>4. UNCHANGED <<life, running, connected, frontProduce, frontConsume,
                      workQ, clients, clientCount, recycler>>
      BY <1>10 DEF CallbackOnReleased
    <2>5. QED
      BY <2>1, <2>2, <2>3, <2>4 DEF TypeOK, NextCallback, serverVars
  <1>11. CASE RunOnceEnd
    BY <1>11, BoundsAssumption
    DEF TypeOK, RunOnceEnd, objVars, countVars, mgrVars, serverVars,
        queueVars, workVars, MainPc, MainRet
  <1>12. CASE StartRecycle
    BY <1>12
    DEF TypeOK, StartRecycle, objVars, countVars, mgrVars, serverVars,
        queueVars, workVars, MainPc, MainRet
  <1>13. ASSUME NEW c \in Conns, RecyclerPopFirst(c)
        PROVE  TypeOK'
    BY <1>13
    DEF TypeOK, RecyclerPopFirst, objVars, countVars, mgrVars, serverVars,
        queueVars, workVars, MainPc
  <1>14. CASE RecyclerPopSecond
    BY <1>14
    DEF TypeOK, RecyclerPopSecond, objVars, countVars, serverVars,
        queueVars, workVars, MainPc
  <1>15. CASE SafeRelease
    BY <1>15
    DEF TypeOK, SafeRelease, countVars, serverVars, queueVars, workVars,
        MainPc, MainRet, Life
  <1>16. CASE CloseTcpServer
    BY <1>16, BlockingCommitType
    DEF TypeOK, CloseTcpServer, objVars, countVars, mgrVars, serverVars,
        workVars, BlockingCmd, MainPc
  <1>17. CASE CloseAnswered
    BY <1>17
    DEF TypeOK, CloseAnswered, objVars, countVars, mgrVars, serverVars,
        queueVars, workVars, MainPc
  <1>18. ASSUME NEW c \in Conns, ReleaseClient(c)
        PROVE  TypeOK'
    BY <1>18, RemoveType
    DEF TypeOK, ReleaseClient, objVars, serverVars, mainVars, workVars
  <1>19. CASE ReleaseEnd
    BY <1>19
    DEF TypeOK, ReleaseEnd, objVars, countVars, mgrVars, serverVars,
        queueVars, workVars, MainPc, MainRet
  <1>20. CASE Finish
    BY <1>20
    DEF TypeOK, Finish, objVars, countVars, mgrVars, serverVars, mainVars,
        workVars
  <1>21. CASE Stop
    BY <1>21
    DEF TypeOK, Stop, objVars, countVars, mgrVars, serverVars, queueVars,
        workVars, MainPc
  <1>22. ASSUME NEW c \in Conns, AcceptStream(c)
        PROVE  TypeOK'
    BY <1>22, CallbackType
    DEF TypeOK, AcceptStream, countVars, mgrVars, mainVars, workVars,
        ClientCb, Life
  <1>23. CASE AcceptLoopFailed
    BY <1>23
    DEF TypeOK, AcceptLoopFailed, objVars, countVars, mgrVars, queueVars,
        mainVars, workVars
  <1>24. CASE ListenThrows
    BY <1>24
    DEF TypeOK, ListenThrows, Crash, objVars, countVars, mgrVars,
        serverVars, queueVars, MainPc, WorkPc
  <1>25. ASSUME NEW c \in Conns, OnGotPacket(c)
        PROVE  TypeOK'
    BY <1>25, CallbackType, IncrFacts
    DEF TypeOK, OnGotPacket, AddClientCb, objVars, mgrVars, serverVars,
        mainVars, workVars, ClientCb
  <1>26. ASSUME NEW c \in Conns, TaskFailed(c)
        PROVE  TypeOK'
    BY <1>26
    DEF TypeOK, TaskFailed, countVars, mgrVars, serverVars, queueVars,
        mainVars
  <1>27. ASSUME NEW c \in Conns, OnDisposeClient(c)
        PROVE  TypeOK'
    BY <1>27, DisposeType, CallbackType, IncrFacts
    DEF TypeOK, OnDisposeClient, AddClientCb, mgrVars, serverVars, mainVars,
        ClientCb
  <1>28. ASSUME NEW c \in Conns, LaterOnReleased(c)
        PROVE  TypeOK'
    <2>1. trunkQ' \in Seq(Callback)
      BY <1>28, CallbackType DEF TypeOK, LaterOnReleased, ClientCb
    <2>2. later' \in SUBSET Conns /\ mpc' \in MainPc /\ wpc' \in WorkPc
      BY <1>28 DEF TypeOK, LaterOnReleased, Crash, MainPc, WorkPc
    <2>3. UNCHANGED <<objVars, countVars, mgrVars, serverVars, workQ, answered,
                      quit, mret, ncount, walk, cur, wcmd, todo>>
      BY <1>28 DEF LaterOnReleased
    <2>4. QED
      BY <2>1, <2>2, <2>3
      DEF TypeOK, objVars, countVars, mgrVars, serverVars
  <1>29. CASE WorkerQuit
    BY <1>29
    DEF TypeOK, WorkerQuit, objVars, countVars, mgrVars, serverVars,
        queueVars, mainVars, WorkPc
  <1>30. CASE StartDrain
    BY <1>30
    DEF TypeOK, StartDrain, objVars, countVars, mgrVars, serverVars,
        queueVars, mainVars, WorkPc
  <1>31. CASE DrainEnd
    BY <1>31
    DEF TypeOK, DrainEnd, objVars, countVars, mgrVars, serverVars,
        queueVars, mainVars, WorkPc
  <1>32. CASE ExecOpen
    BY <1>32, DequeueType, CommandFacts
    DEF TypeOK, ExecOpen, Dequeue, countVars, mgrVars, mainVars, WorkPc
  <1>33. CASE ExecClose
    BY <1>33, DequeueType, CommandFacts
    DEF TypeOK, ExecClose, Dequeue, countVars, mgrVars, mainVars, WorkPc
  <1>34. CASE ExecDispose
    <2>1. /\ Dequeue("DISPOSE_CONNECTION")
          /\ DisposeConnection(Head(workQ).conn)
      BY <1>34 DEF ExecDispose
    <2>2. /\ workQ' \in Seq(Cmd) /\ wcmd' \in Cmd
          /\ Head(workQ).conn \in Conns
      <3>1. /\ workQ' \in Seq(Cmd) /\ wcmd' \in Cmd
            /\ Head(workQ) = wcmd' /\ wcmd'.type = "DISPOSE_CONNECTION"
        BY <2>1, DequeueType DEF TypeOK
      <3>2. "DISPOSE_CONNECTION" \notin BlockingCmd
        BY DEF BlockingCmd
      <3>3. QED
        BY <3>1, <3>2, CommandFacts
    <2>3. /\ disposed' \in SUBSET Conns /\ flushed' \in SUBSET Conns
          /\ owned' \in SUBSET Conns /\ reading' \in SUBSET Conns
      BY <2>1, <2>2, DisposeType
    <2>4. QED
      BY <1>34, <2>2, <2>3
      DEF TypeOK, ExecDispose, Dequeue, countVars, mgrVars, mainVars, WorkPc
  <1>35. CASE ExecPost
    BY <1>35, DequeueType, CommandFacts
    DEF TypeOK, ExecPost, Dequeue, countVars, mgrVars, mainVars, WorkPc
  <1>36. CASE ExecFlush
    BY <1>36, DequeueType, CommandFacts
    DEF TypeOK, ExecFlush, Dequeue, countVars, mgrVars, mainVars, WorkPc
  <1>37. CASE ExecConfirm
    <2>1. Dequeue("CONFIRM_CLIENT_IS_READY")
      BY <1>37 DEF ExecConfirm
    <2>2. /\ workQ' \in Seq(Cmd) /\ wcmd' \in Cmd
          /\ Head(workQ).conn \in Conns
      <3>1. /\ workQ' \in Seq(Cmd) /\ wcmd' \in Cmd
            /\ Head(workQ) = wcmd' /\ wcmd'.type = "CONFIRM_CLIENT_IS_READY"
        BY <2>1, DequeueType DEF TypeOK
      <3>2. "CONFIRM_CLIENT_IS_READY" \notin BlockingCmd
        BY DEF BlockingCmd
      <3>3. QED
        BY <3>1, <3>2, CommandFacts
    <2>3. QED
      BY <1>37, <2>2
      DEF TypeOK, ExecConfirm, Dequeue, countVars, mgrVars, mainVars, WorkPc
  <1>38. ASSUME NEW c \in Conns, DisposeDownStream(c)
        PROVE  TypeOK'
    BY <1>38, DisposeType, CallbackType, IncrFacts
    DEF TypeOK, DisposeDownStream, AddClientCb, mgrVars, serverVars,
        mainVars, ClientCb
  <1>39. CASE CloseEnd
    BY <1>39
    DEF TypeOK, CloseEnd, objVars, countVars, mgrVars, queueVars, mainVars,
        WorkPc
  <1>40. CASE ResultCb
    <2>1. backConsume' \in [Conns -> Nat]
      <3>1. CASE wcmd.type \in ClientCmd
        <4>1. wcmd.conn \in Conns
          <5>1. wcmd \in Cmd
            BY <3>1 DEF TypeOK, NoCmd, ClientCmd
          <5>2. wcmd.type \notin BlockingCmd
            BY <3>1 DEF ClientCmd, BlockingCmd
          <5>3. QED
            BY <5>1, <5>2, CommandFacts
        <4>2. QED
          BY <1>40, <3>1, <4>1, IncrFacts DEF TypeOK, ResultCb
      <3>2. CASE wcmd.type \notin ClientCmd
        BY <1>40, <3>2 DEF TypeOK, ResultCb
      <3>3. QED
        BY <3>1, <3>2
    <2>2. QED
      BY <1>40, <2>1
      DEF TypeOK, ResultCb, objVars, mgrVars, serverVars, mainVars, WorkPc
  <1>41. CASE UNCHANGED vars
    BY <1>41
    DEF TypeOK, vars, objVars, countVars, mgrVars, serverVars, queueVars,
        mainVars, workVars
  <1>42. QED
    BY <1>1, <1>2, <1>3, <1>4, <1>5, <1>6, <1>7, <1>8, <1>9, <1>10, <1>11, <1>12, <1>13, <1>14,
       <1>15, <1>16, <1>17, <1>18, <1>19, <1>20, <1>21, <1>22, <1>23, <1>24, <1>25, <1>26, <1>27,
       <1>28, <1>29, <1>30, <1>31, <1>32, <1>33, <1>34, <1>35, <1>36, <1>37, <1>38, <1>39, <1>40, <1>41
    DEF Next, MainStep, MainChoice, WorkerStep, NetworkStep, Ended

\* The initial state has the types.
LEMMA TypeInit ==
    ASSUME Init
    PROVE  TypeOK
  <1>1. /\ life \in [Conns -> Life]
        /\ frontProduce \in [Conns -> Nat] /\ backConsume \in [Conns -> Nat]
        /\ backProduce \in [Conns -> Nat] /\ frontConsume \in [Conns -> Nat]
    BY DEF Init, Life
  <1>2. /\ workQ \in Seq(Cmd) /\ trunkQ \in Seq(Callback)
        /\ mpc \in MainPc /\ mret \in MainRet /\ wpc \in WorkPc
    BY DEF Init, MainPc, MainRet, WorkPc
  <1>3. ncount \in 0..ConsumeWaterline
    BY BoundsAssumption DEF Init
  <1>4. /\ running = {} /\ connected = {} /\ disposed = {} /\ flushed = {}
        /\ owned = {} /\ reading = {} /\ clients = {} /\ clientCount = 0
        /\ recycler = {} /\ safe = {} /\ streamDict = {}
        /\ walk = {} /\ cur = NoConn /\ wcmd = NoCmd /\ todo = {}
        /\ later = {}
    BY DEF Init
  <1>5. /\ listening \in BOOLEAN /\ closed \in BOOLEAN
        /\ answered \in BOOLEAN /\ quit \in BOOLEAN
    BY DEF Init
  <1>6. QED
    BY <1>1, <1>2, <1>3, <1>4, <1>5 DEF TypeOK

\* Every behaviour of the two threads keeps the types, and no RunOnce of the
\* trunk queue runs more callbacks than its waterline allows.
THEOREM TypeCorrect == Spec => []TypeOK
  <1>1. Init => TypeOK
    BY TypeInit
  <1>2. TypeOK /\ [Next]_vars => TypeOK'
    BY TypeStep
  <1>3. QED
    BY <1>1, <1>2, PTL DEF Spec

=============================================================================
