----------------------------- MODULE TrunkQueue -----------------------------
(***************************************************************************)
(* How the main thread learns of the callbacks that the worker adds.       *)
(*                                                                         *)
(*   src/src/base/CamelReaderWriterQueueWL.cpp    the queue, its waterline *)
(*   src/src/tcp/kj/ConnFactoryTrunkQueue.cpp     Add and its opcode byte  *)
(*   src/src/tcp/kj/KjConnFactoryBase.cpp         who calls RunOnce        *)
(*                                                                         *)
(* Add enqueues a callback and then writes one byte to a pipe.  The main   *)
(* thread sleeps until there are bytes, takes as many as its buffer holds, *)
(* and runs callbacks up to a waterline.  Nothing else wakes it: a callback*)
(* left over without a byte waits for the next Add.                        *)
(*                                                                         *)
(* What a callback does is not looked at here, so the queue is its length. *)
(* The pipe, and the loop that reads it, belong to servercore, which is not*)
(* in the repository: a byte written is read once, and a read takes at     *)
(* least one byte.  The sleep of 15 ms above the produce waterline only    *)
(* delays the worker.                                                      *)
(***************************************************************************)
EXTENDS Integers

CONSTANTS
    Waterline,   \* RWQUEUE_CONSUME_WATERLINE (2048; 128 in debug builds)
    ReadSize,    \* sizeof(_trunkOpCodeRecvBuf) (1024)
    MaxWaiting,  \* bound: callbacks in the queue
    MaxBytes     \* bound: bytes in the pipe

\* Release builds; debug builds violate the last conjunct.
ASSUME WaterlineAssumption ==
    /\ Waterline \in Nat /\ ReadSize \in Nat /\ ReadSize > 0
    /\ MaxWaiting \in Nat /\ MaxBytes \in Nat
    /\ ReadSize <= Waterline

VARIABLES
    waiting,   \* callbacks in _callbacks
    bytes,     \* opcodes in the pipe
    adding,    \* is the worker in Add, before the write?
    main,      \* the main thread: idle, in RunOnce, or in OnDelete
    byHand,    \* has OnDelete begun?
    amount,    \* bytes that the read before this RunOnce took
    ncount,    \* callbacks that this RunOnce ran
    closed     \* _close

trunkVars == <<waiting, bytes, adding, main, byHand, amount, ncount, closed>>

TrunkInit ==
    /\ waiting = 0 /\ bytes = 0 /\ adding = FALSE
    /\ main = "idle" /\ byHand = FALSE
    /\ amount = 0 /\ ncount = 0
    /\ closed = FALSE

-----------------------------------------------------------------------------
(* The worker.                                                             *)

\* CCamelReaderWriterQueueWL::Add: a closed queue drops the callback.
Enqueue ==
    /\ ~adding
    /\ waiting < MaxWaiting
    /\ waiting' = IF closed THEN waiting ELSE waiting + 1
    /\ adding' = TRUE
    /\ UNCHANGED <<bytes, main, byHand, amount, ncount, closed>>

\* The rest of CConnFactoryTrunkQueue::Add, whatever the queue returned.  It
\* writes a byte and calls PipeNotify; the model counts on one wake-up only.
Notify ==
    /\ adding
    /\ bytes < MaxBytes
    /\ bytes' = bytes + 1
    /\ adding' = FALSE
    /\ UNCHANGED <<waiting, main, byHand, amount, ncount, closed>>

-----------------------------------------------------------------------------
(* The main thread.                                                        *)

\* The pipe's read loop got n bytes and calls RunOnce.
Wake(n) ==
    /\ main = "idle" /\ ~byHand
    /\ n <= bytes
    /\ bytes' = bytes - n
    /\ main' = "run" /\ amount' = n /\ ncount' = 0
    /\ UNCHANGED <<waiting, adding, byHand, closed>>

\* OnDelete: the read loop does not run any more.
OnDelete ==
    /\ main = "idle" /\ ~byHand
    /\ byHand' = TRUE
    /\ UNCHANGED <<waiting, bytes, adding, main, amount, ncount, closed>>

\* The wait and recycle loop of OnDelete.
RunByHand ==
    /\ main = "idle" /\ byHand /\ ~closed
    /\ main' = "run" /\ amount' = 0 /\ ncount' = 0
    /\ UNCHANGED <<waiting, bytes, adding, byHand, closed>>

\* Mutant: stops one callback before the waterline.
GoesOnTooShort == ~closed /\ ncount + 1 < Waterline /\ waiting > 0

\* The condition of RunOnce's loop.
GoesOn == ~closed /\ ncount < Waterline /\ waiting > 0

RunCallback ==
    /\ main = "run" /\ GoesOn
    /\ waiting' = waiting - 1 /\ ncount' = ncount + 1
    /\ UNCHANGED <<bytes, adding, main, byHand, amount, closed>>

RunEnds ==
    /\ main = "run" /\ ~GoesOn
    /\ main' = "idle" /\ amount' = 0 /\ ncount' = 0
    /\ UNCHANGED <<waiting, bytes, adding, byHand, closed>>

\* The end of OnDelete.
Close ==
    /\ main = "idle" /\ byHand /\ ~closed
    /\ closed' = TRUE
    /\ UNCHANGED <<waiting, bytes, adding, main, byHand, amount, ncount>>

MainNext ==
    \/ \E n \in 1..ReadSize : Wake(n)
    \/ OnDelete \/ RunByHand \/ RunCallback \/ RunEnds \/ Close

TrunkNext == Enqueue \/ Notify \/ MainNext

TrunkSpec == TrunkInit /\ [][TrunkNext]_trunkVars

-----------------------------------------------------------------------------
(* Properties.                                                             *)

\* Every variable keeps its type; RunOnce runs at most Waterline callbacks.
TrunkTypeOK ==
    /\ waiting \in Nat /\ bytes \in Nat /\ adding \in BOOLEAN
    /\ main \in {"idle", "run"} /\ byHand \in BOOLEAN
    /\ amount \in 0..ReadSize /\ ncount \in 0..Waterline
    /\ closed \in BOOLEAN

\* Callbacks that the current RunOnce still has to run for the bytes taken.
Due == IF main = "run" /\ amount > ncount THEN amount - ncount ELSE 0

\* No callback is ever left without something that will run it: the queue is
\* no longer than the bytes in the pipe, the byte the worker is about to
\* write and the callbacks that RunOnce owes, although one RunOnce stops at
\* the waterline and one read may take many bytes.
Signalled == waiting <= bytes + Due + (IF adding THEN 1 ELSE 0)

=============================================================================
