------------------------------- MODULE BipBuf -------------------------------
(***************************************************************************)
(* The stream buffer of src/src/base/bip_buf.c: one contiguous region A of *)
(* committed bytes and at most one reservation behind it, in memory twice  *)
(* as large as the capacity, so that region A is moved only now and then.  *)
(*                                                                         *)
(* A byte is the position it has in the stream of bytes ever committed, so *)
(* that the order of the bytes can be stated; "taken" is the position of   *)
(* the first byte of region A.  _committed_sum, a statistic nothing reads, *)
(* is left out, and so is the freeing of memory.                           *)
(***************************************************************************)
EXTENDS Integers

CONSTANTS
    Capacity,     \* what bip_buf_create was called with
    MaxCapacity,  \* bound: the buffer is not expanded beyond it
    MaxBytes      \* bound: bytes committed in all

ASSUME SizesAssumption == /\ Capacity \in Nat \ {0}
                          /\ MaxCapacity \in Capacity..2^30
                          /\ MaxBytes \in Nat

VARIABLES
    capacity,       \* _available_capacity
    mem,            \* _buffer
    aStart, aEnd,   \* region A
    rStart, rEnd,   \* region Reserve
    taken           \* bytes that have left region A

vars == <<capacity, mem, aStart, aEnd, rStart, rEnd, taken>>

Junk == -1          \* memory nobody has written
Byte == Nat \cup {Junk}

Memory(n) == 0..(n + n - 1)    \* the addresses of a buffer of capacity n

\* bip_buf_get_committed_size, bip_buf_get_reservation_size
Committed == aEnd - aStart
Reserved  == rEnd - rStart
Free      == capacity - Committed

\* next_power_of_two, for sums that stay below 2^30: MCBipBuf compares it
\* with the shifts.
PowersOfTwo == {2^k : k \in 0..30}

NextPowerOfTwo(x) ==
    CHOOSE p \in PowersOfTwo :
        p >= x /\ \A q \in PowersOfTwo : q >= x => p <= q

Init ==
    /\ capacity = Capacity
    /\ mem = [i \in Memory(Capacity) |-> Junk]
    /\ aStart = 0 /\ aEnd = 0 /\ rStart = 0 /\ rEnd = 0
    /\ taken = 0

\* Mutant: wraps when the space behind region A would just do.
PlaceTooLate(n) ==
    /\ \/ /\ Committed = 0
          /\ aStart' = 0 /\ aEnd' = 0 /\ UNCHANGED mem
       \/ /\ Committed > 0 /\ capacity + capacity - aEnd + 1 < n
          /\ aStart' = 0 /\ aEnd' = Committed
          /\ mem' = [i \in Memory(capacity) |->
                        IF i < Committed THEN mem[aStart + i] ELSE mem[i]]
       \/ /\ Committed > 0 /\ capacity + capacity - aEnd + 1 >= n
          /\ UNCHANGED <<aStart, aEnd, mem>>
    /\ UNCHANGED capacity

\* Mutant: wraps as soon as the first half of the memory is used.
PlaceTooEarly(n) ==
    /\ \/ /\ Committed = 0
          /\ aStart' = 0 /\ aEnd' = 0 /\ UNCHANGED mem
       \/ /\ Committed > 0 /\ capacity - aEnd < n
          /\ aStart' = 0 /\ aEnd' = Committed
          /\ mem' = [i \in Memory(capacity) |->
                        IF i < Committed THEN mem[aStart + i] ELSE mem[i]]
       \/ /\ Committed > 0 /\ capacity - aEnd >= n
          /\ UNCHANGED <<aStart, aEnd, mem>>
    /\ UNCHANGED capacity

\* Make room for n bytes behind region A: wrap A when it lies too far back.
Place(n) ==
    /\ \/ /\ Committed = 0
          /\ aStart' = 0 /\ aEnd' = 0 /\ UNCHANGED mem
       \/ /\ Committed > 0 /\ capacity + capacity - aEnd < n
          /\ aStart' = 0 /\ aEnd' = Committed
          /\ mem' = [i \in Memory(capacity) |->
                        IF i < Committed THEN mem[aStart + i] ELSE mem[i]]
       \/ /\ Committed > 0 /\ capacity + capacity - aEnd >= n
          /\ UNCHANGED <<aStart, aEnd, mem>>
    /\ UNCHANGED capacity

\* Mutant: the copy forgets where region A began.
ExpandFromZero(n) ==
    /\ capacity' = NextPowerOfTwo(capacity + n)
    /\ mem' = [i \in Memory(capacity') |->
                  IF i < Committed THEN mem[i] ELSE Junk]
    /\ aStart' = 0 /\ aEnd' = Committed

\* Mutant: the new memory is as large as the capacity, not twice.
ExpandNotDoubled(n) ==
    /\ capacity' = NextPowerOfTwo(capacity + n)
    /\ mem' = [i \in 0..(capacity' - 1) |->
                  IF i < Committed THEN mem[aStart + i] ELSE Junk]
    /\ aStart' = 0 /\ aEnd' = Committed

\* Move region A to the start of a new, larger buffer.
Expand(n) ==
    /\ capacity' = NextPowerOfTwo(capacity + n)
    /\ mem' = [i \in Memory(capacity') |->
                  IF i < Committed THEN mem[aStart + i] ELSE Junk]
    /\ aStart' = 0 /\ aEnd' = Committed

Claim(n) == rStart' = aEnd' /\ rEnd' = aEnd' + n

\* bip_buf_reserve: all of the free space; NULL when reserved or full.
Reserve ==
    /\ Reserved = 0 /\ Free # 0
    /\ Place(Free)
    /\ Claim(Free)
    /\ UNCHANGED taken

\* When bip_buf_force_reserve does not return NULL.
MayForce(n) == Reserved = 0 /\ n # 0 /\ Free # 0

\* bip_buf_force_reserve
ForceReserve(n) ==
    /\ MayForce(n)
    /\ capacity + n <= MaxCapacity
    /\ \/ n > Free /\ Expand(n)
       \/ n <= Free /\ Place(n)
    /\ Claim(n)
    /\ UNCHANGED taken

Clip(n, most) == IF n > most THEN most ELSE n

\* The caller wrote the first bytes of the reservation.
Written(n) ==
    [i \in Memory(capacity) |->
        IF i \in rStart..(rStart + n - 1)
        THEN taken + Committed + (i - rStart) ELSE mem[i]]

\* The caller wrote into its reservation and calls bip_buf_commit.
Commit(n) ==
    /\ taken + Committed + Clip(n, Reserved) <= MaxBytes
    /\ IF Reserved > 0
       THEN /\ aEnd' = rStart + Clip(n, Reserved)
            /\ mem' = Written(Clip(n, Reserved))
       ELSE UNCHANGED <<aEnd, mem>>
    /\ rStart' = 0 /\ rEnd' = 0
    /\ UNCHANGED <<capacity, aStart, taken>>

\* bip_buf_decommit
Decommit(n) ==
    /\ aStart' = aStart + Clip(n, Committed)
    /\ taken' = taken + Clip(n, Committed)
    /\ UNCHANGED <<capacity, mem, aEnd, rStart, rEnd>>

\* bip_buf_reset: the committed bytes are dropped.
Reset ==
    /\ aStart' = 0 /\ aEnd' = 0 /\ rStart' = 0 /\ rEnd' = 0
    /\ taken' = taken + Committed
    /\ UNCHANGED <<capacity, mem>>

Next ==
    \/ Reserve \/ Reset
    \/ \E n \in 0..MaxCapacity : ForceReserve(n) \/ Commit(n) \/ Decommit(n)

Spec == Init /\ [][Next]_vars

-----------------------------------------------------------------------------
(* Properties.                                                             *)

\* Every variable keeps its type, and the memory is twice the capacity.
TypeOK ==
    /\ capacity \in Nat /\ capacity > 0
    /\ mem \in [Memory(capacity) -> Byte]
    /\ aStart \in Nat /\ aEnd \in Nat /\ rStart \in Nat /\ rEnd \in Nat
    /\ taken \in Nat

\* Region A and the reservation lie behind each other inside the memory and
\* hold no more than the capacity: what bip_buf_reserve offers to a read may
\* be written, whatever was committed and decommitted before.
InBounds ==
    /\ aStart <= aEnd /\ aEnd <= capacity + capacity
    /\ rStart <= rEnd /\ rEnd <= capacity + capacity
    /\ Committed + Reserved <= capacity
    /\ IF Reserved = 0 THEN rStart = 0 /\ rEnd = 0 ELSE rStart = aEnd

\* The contiguous block holds the committed bytes that were not taken yet,
\* in the order they were committed, after any wrap and expansion.
Fifo == \A i \in 0..(Committed - 1) : mem[aStart + i] = taken + i

\* Committed bytes, read from the memory: what bip_buf_get_contiguous_block
\* gives to the reader.
Contents == [i \in 1..Committed |-> mem[aStart + i - 1]]

\* The two regions, the wraps and the expansions do what a queue of bytes
\* does: a commit appends what was written to the reservation, a decommit
\* drops from the front.
Queue == INSTANCE ByteQueue WITH
             Limit <- Capacity, queue <- Contents, room <- Reserved,
             limit <- capacity, arrived <- taken + Committed

ActsAsQueue == Queue!Spec

\* The memcpy that wraps region A never copies between overlapping blocks.
WrapIsDisjoint ==
    [][aStart > 0 /\ aStart' = 0 /\ aEnd' > 0 /\ capacity' = capacity
         => Committed <= aStart]_vars

=============================================================================
