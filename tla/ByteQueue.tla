----------------------------- MODULE ByteQueue ------------------------------
(***************************************************************************)
(* What a stream buffer promises: a queue of bytes.  Its user asks for     *)
(* room, writes into it, and puts some or all of what it wrote at the end  *)
(* of the queue; it takes from the front.  Nothing is lost, doubled or     *)
(* reordered, and room is given only within the limit.                     *)
(*                                                                         *)
(* A byte is its position in the stream of all bytes ever put.             *)
(***************************************************************************)
EXTENDS Integers, Sequences

CONSTANT Limit   \* what the queue may hold at first

VARIABLES
    queue,    \* the bytes put and not yet taken, oldest first
    room,     \* how many bytes the user may put now
    limit,    \* what the queue may hold
    arrived   \* how many bytes were put in all

vars == <<queue, room, limit, arrived>>

\* n bytes of the stream.
Stretch(from, n) == [i \in 1..n |-> from + i - 1]

Init == queue = <<>> /\ room = 0 /\ limit = Limit /\ arrived = 0

\* Room is asked for; the limit may grow to give it.
Offer ==
    /\ room = 0
    /\ limit' >= limit
    /\ room' \in 1..(limit' - Len(queue))
    /\ UNCHANGED <<queue, arrived>>

\* The room is given up, even if it was not filled.
Put(n) ==
    /\ queue' = queue \o Stretch(arrived, n)
    /\ arrived' = arrived + n
    /\ room' = 0
    /\ UNCHANGED limit

Take(n) ==
    /\ queue' = SubSeq(queue, n + 1, Len(queue))
    /\ UNCHANGED <<room, limit, arrived>>

Clear ==
    /\ queue' = <<>> /\ room' = 0
    /\ UNCHANGED <<limit, arrived>>

Next ==
    \/ Offer \/ Clear
    \/ \E n \in 0..room : Put(n)
    \/ \E n \in 0..Len(queue) : Take(n)

Spec == Init /\ [][Next]_vars

=============================================================================
