---------------------------- MODULE BipBufProofs ----------------------------
(***************************************************************************)
(* Proofs about BipBuf: for every capacity, expansion and number of bytes, *)
(* the regions stay inside the memory, the contiguous block holds the      *)
(* bytes in the order they were committed, a wrap copies between disjoint  *)
(* blocks, and the buffer implements ByteQueue.                            *)
(***************************************************************************)
EXTENDS BipBuf, NaturalsInduction, WellFoundedInduction, SequenceTheorems,
        TLAPS

\* The inductive invariant: the bounds are needed to know where a byte is,
\* the types to calculate.
IInv == TypeOK /\ InBounds /\ Fifo

\* The region of m from s to e holds the bytes of the stream from t on.
Holds(m, s, e, t) == \A i \in 0..(e - s - 1) : m[s + i] = t + i

\* The memory m after k bytes were written behind the region from s to e.
Extended(m, c, s, e, k, t) ==
    [j \in Memory(c) |-> IF j \in e..(e + k - 1)
                         THEN t + (e - s) + (j - e) ELSE m[j]]

\* A nonempty set of natural numbers has a least element.
LEMMA LeastNumber ==
    ASSUME NEW S, S \subseteq Nat, S # {}
    PROVE  \E p \in S : \A q \in S : p <= q
  <1>1. PICK p \in S : \A q \in S : ~(<<q, p>> \in OpToRel(<, Nat))
    BY NatLessThanWellFounded, WFMin
  <1>2. ASSUME NEW q \in S PROVE p <= q
    <2>1. p \in Nat /\ q \in Nat
      OBVIOUS
    <2>2. ~(q < p)
      BY <1>1, <2>1 DEF OpToRel
    <2>3. QED
      BY <2>1, <2>2
  <1>3. QED
    BY <1>2

\* The expanded capacity has room for what was asked for.
LEMMA NextPowerFacts ==
    ASSUME NEW x \in Nat, x <= 2^30
    PROVE  NextPowerOfTwo(x) \in Nat /\ NextPowerOfTwo(x) >= x
  <1>1. PowersOfTwo \subseteq Nat /\ 2^30 \in PowersOfTwo
    BY DEF PowersOfTwo
  <1>2. {p \in PowersOfTwo : p >= x} # {}
    BY <1>1
  <1>3. \E p \in PowersOfTwo :
            p >= x /\ \A q \in PowersOfTwo : q >= x => p <= q
    BY <1>1, <1>2, LeastNumber
  <1>4. QED
    BY <1>1, <1>3 DEF NextPowerOfTwo

\* A step of the buffer by its action.
LEMMA InvInit == ASSUME Init PROVE IInv
  BY SizesAssumption DEF Init, IInv, TypeOK, InBounds, Fifo, Byte, Junk,
     Memory, Committed, Reserved

\* Making room keeps the bytes and leaves n free addresses behind them.
LEMMA PlaceFacts ==
    ASSUME IInv, NEW n \in Nat, n <= Free, Place(n)
    PROVE  /\ capacity' = capacity
           /\ aStart' \in Nat /\ aEnd' \in Nat /\ aStart' <= aEnd'
           /\ aEnd' - aStart' = Committed
           /\ aEnd' + n <= capacity + capacity
           /\ mem' \in [Memory(capacity) -> Byte]
           /\ \A i \in 0..(Committed - 1) : mem'[aStart' + i] = taken + i
  <1>1. CASE Committed = 0
    BY <1>1 DEF Place, IInv, TypeOK, InBounds, Free, Committed
  <1>2. CASE Committed > 0 /\ capacity + capacity - aEnd < n
    <2>1. /\ aStart' = 0 /\ aEnd' = Committed /\ capacity' = capacity
          /\ mem' = [i \in Memory(capacity) |->
                        IF i < Committed THEN mem[aStart + i] ELSE mem[i]]
      BY <1>2 DEF Place, IInv, TypeOK, Committed
    <2>2. Committed \in Nat /\ Committed + n <= capacity
      BY <1>2 DEF IInv, TypeOK, Free, Committed
    <2>3. \A i \in 0..(Committed - 1) :
              i \in Memory(capacity) /\ aStart + i \in Memory(capacity)
      BY DEF IInv, TypeOK, InBounds, Memory, Committed
    <2>4. \A i \in 0..(Committed - 1) : mem'[i] = taken + i
      BY <2>1, <2>2, <2>3 DEF IInv, TypeOK, Fifo
    <2>5. mem' \in [Memory(capacity) -> Byte]
      <3>1. ASSUME NEW i \in Memory(capacity), i < Committed
            PROVE  i \in 0..(Committed - 1)
        BY <2>2, <3>1 DEF Memory, IInv, TypeOK
      <3>2. QED
        BY <2>1, <2>3, <3>1 DEF IInv, TypeOK
    <2>6. QED
      BY <2>1, <2>2, <2>4, <2>5 DEF IInv, TypeOK
  <1>3. CASE Committed > 0 /\ capacity + capacity - aEnd >= n
    BY <1>3 DEF Place, IInv, TypeOK, InBounds, Committed, Fifo
  <1>4. QED
    BY <1>1, <1>2, <1>3 DEF IInv, TypeOK, InBounds, Committed

\* A region of k bytes at the start of a buffer of capacity d.
LEMMA ExpandNumbers ==
    ASSUME NEW k \in Nat, NEW c \in Nat, NEW d \in Nat, NEW n \in Nat,
           k <= c, d >= c + n
    PROVE  /\ k + n <= d /\ k + n <= d + d
           /\ \A i \in 0..(k - 1) : i \in Memory(d)
  BY DEF Memory

\* Expanding keeps the bytes too.
LEMMA ExpandFacts ==
    ASSUME IInv, NEW n \in Nat, capacity + n <= MaxCapacity, Expand(n)
    PROVE  /\ capacity' \in Nat /\ capacity' > 0 /\ capacity' >= capacity + n
           /\ aStart' = 0 /\ aEnd' = Committed
           /\ mem' \in [Memory(capacity') -> Byte]
           /\ \A i \in 0..(Committed - 1) : mem'[i] = taken + i
  <1>1. capacity + n \in Nat /\ capacity + n <= 2^30
    BY SizesAssumption DEF IInv, TypeOK
  <1>2. /\ capacity' = NextPowerOfTwo(capacity + n)
        /\ aStart' = 0 /\ aEnd' = Committed
        /\ mem' = [i \in Memory(capacity') |->
                      IF i < Committed THEN mem[aStart + i] ELSE Junk]
    BY DEF Expand
  <1>3. /\ capacity' \in Nat /\ capacity' > 0
        /\ capacity' >= capacity + n /\ capacity' >= capacity
    <2>1. capacity' \in Nat /\ capacity' >= capacity + n
      BY <1>1, <1>2, NextPowerFacts
    <2>2. capacity \in Nat /\ capacity > 0
      BY DEF IInv, TypeOK
    <2>3. QED
      BY <2>1, <2>2
  <1>4. Committed \in Nat /\ Committed <= capacity
    BY DEF IInv, TypeOK, InBounds, Committed, Reserved
  <1>5. \A i \in 0..(Committed - 1) :
            i \in Memory(capacity') /\ aStart + i \in Memory(capacity)
    <2>1. \A i \in 0..(Committed - 1) : aStart + i \in Memory(capacity)
      BY DEF IInv, TypeOK, InBounds, Memory, Committed
    <2>2. capacity \in Nat
      BY DEF IInv, TypeOK
    <2>3. \A i \in 0..(Committed - 1) : i \in Memory(capacity')
      BY <1>3, <1>4, <2>2, ExpandNumbers
    <2>4. QED
      BY <2>1, <2>3
  <1>6. \A i \in 0..(Committed - 1) : mem'[i] = taken + i
    BY <1>2, <1>4, <1>5 DEF IInv, TypeOK, Fifo
  <1>7. mem' \in [Memory(capacity') -> Byte]
    <2>1. ASSUME NEW i \in Memory(capacity'), i < Committed
          PROVE  i \in 0..(Committed - 1)
      BY <1>3, <1>4, <2>1 DEF Memory
    <2>2. QED
      BY <1>2, <1>5, <2>1 DEF IInv, TypeOK, Byte, Junk
  <1>8. QED
    BY <1>2, <1>3, <1>6, <1>7

\* The arithmetic of a reservation of n bytes behind a region from s to e.
LEMMA ClaimNumbers ==
    ASSUME NEW c \in Nat, NEW s \in Nat, NEW e \in Nat, NEW n \in Nat,
           n # 0, s <= e, (e - s) + n <= c, e + n <= c + c
    PROVE  /\ e + n \in Nat /\ e <= e + n /\ (e + n) - e = n
           /\ e <= c + c /\ (e - s) + ((e + n) - e) <= c
           /\ (e + n) - e # 0
  OBVIOUS

\* A reservation behind region A, once there is room for it.
LEMMA ClaimKeeps ==
    ASSUME NEW n \in Nat, n # 0, Claim(n), taken \in Nat, taken' = taken,
           capacity' \in Nat, capacity' > 0,
           aStart' \in Nat, aEnd' \in Nat, aStart' <= aEnd',
           aEnd' - aStart' = Committed, Committed + n <= capacity',
           aEnd' + n <= capacity' + capacity',
           mem' \in [Memory(capacity') -> Byte],
           \A i \in 0..(Committed - 1) : mem'[aStart' + i] = taken + i
    PROVE  IInv'
  <1>1. rStart' = aEnd' /\ rEnd' = aEnd' + n
    BY DEF Claim
  <1>2. /\ rEnd' \in Nat /\ aEnd' <= rEnd' /\ rEnd' - aEnd' # 0
        /\ aEnd' <= capacity' + capacity'
        /\ (aEnd' - aStart') + (rEnd' - aEnd') <= capacity'
    BY <1>1, ClaimNumbers
  <1>3. TypeOK'
    BY <1>1, <1>2 DEF TypeOK
  <1>4. InBounds'
    BY <1>1, <1>2 DEF InBounds, Committed, Reserved
  <1>5. Fifo'
    <2>1. Committed' = Committed
      BY DEF Committed
    <2>2. QED
      BY <2>1 DEF Fifo
  <1>6. QED
    BY <1>3, <1>4, <1>5 DEF IInv

LEMMA ReserveStep == ASSUME IInv, Reserve PROVE IInv'
  <1>1. /\ Free \in Nat /\ Free # 0 /\ Committed \in Nat
        /\ Committed + Free = capacity /\ capacity \in Nat /\ capacity > 0
        /\ taken \in Nat
    BY DEF IInv, TypeOK, InBounds, Reserve, Free, Committed, Reserved
  <1>2. Place(Free) /\ Claim(Free) /\ taken' = taken
    BY DEF Reserve
  <1>3. HIDE DEF Free, Committed
  <1>4. QED
    BY <1>1, <1>2, PlaceFacts, ClaimKeeps

LEMMA ForceReserveStep ==
    ASSUME IInv, NEW n \in Nat, ForceReserve(n)
    PROVE  IInv'
  <1>1. /\ n # 0 /\ Claim(n) /\ taken' = taken
        /\ (n > Free /\ Expand(n)) \/ (n <= Free /\ Place(n))
        /\ capacity + n <= MaxCapacity
    BY DEF ForceReserve, MayForce
  <1>2. /\ Committed \in Nat /\ Committed <= capacity
        /\ Free = capacity - Committed
        /\ capacity \in Nat /\ capacity > 0 /\ taken \in Nat
    BY DEF IInv, TypeOK, InBounds, Free, Committed, Reserved
  <1>3. CASE n > Free /\ Expand(n)
    <2>1. /\ capacity' \in Nat /\ capacity' > 0 /\ capacity' >= capacity + n
          /\ aStart' = 0 /\ aEnd' = Committed
          /\ mem' \in [Memory(capacity') -> Byte]
          /\ \A i \in 0..(Committed - 1) : mem'[i] = taken + i
      BY <1>1, <1>3, ExpandFacts
    <2>2. /\ aStart' \in Nat /\ aEnd' \in Nat /\ aStart' <= aEnd'
          /\ aEnd' - aStart' = Committed /\ Committed + n <= capacity'
          /\ aEnd' + n <= capacity' + capacity'
      <3>1. /\ capacity' \in Nat /\ capacity' >= capacity + n
            /\ aStart' = 0 /\ aEnd' = Committed
        BY <2>1
      <3>2. Committed + n <= capacity' /\ Committed + n <= capacity' + capacity'
        BY <1>2, <3>1, ExpandNumbers
      <3>3. aStart' \in Nat /\ aEnd' \in Nat /\ aStart' <= aEnd'
        BY <1>2, <3>1
      <3>4. aEnd' - aStart' = Committed
        BY <1>2, <3>1
      <3>5. aEnd' + n <= capacity' + capacity'
        BY <3>1, <3>2
      <3>6. QED
        BY <3>2, <3>3, <3>4, <3>5
    <2>3. \A i \in 0..(Committed - 1) : mem'[aStart' + i] = taken + i
      BY <1>2, <2>1
    <2>4. QED
      BY <1>1, <1>2, <2>1, <2>2, <2>3, ClaimKeeps
  <1>4. CASE n <= Free /\ Place(n)
    <2>1. Committed + n <= capacity
      BY <1>2, <1>4
    <2>2. QED
      BY <1>1, <1>2, <1>4, <2>1, PlaceFacts, ClaimKeeps
  <1>5. QED
    BY <1>1, <1>3, <1>4

\* k bytes written behind a region from s to e extend it in order.
LEMMA WrittenBytes ==
    ASSUME NEW c \in Nat, NEW s \in Nat, NEW e \in Nat, NEW k \in Nat,
           NEW t \in Nat, s <= e, e + k <= c + c,
           NEW m \in [Memory(c) -> Byte], Holds(m, s, e, t)
    PROVE  /\ Extended(m, c, s, e, k, t) \in [Memory(c) -> Byte]
           /\ Holds(Extended(m, c, s, e, k, t), s, e + k, t)
  <1> DEFINE w == Extended(m, c, s, e, k, t)
  <1>1. \A j \in e..(e + k - 1) : t + (e - s) + (j - e) \in Nat
    OBVIOUS
  <1>2. w \in [Memory(c) -> Byte]
    BY <1>1 DEF Byte, Extended
  <1>3. ASSUME NEW i \in 0..(e + k - s - 1) PROVE w[s + i] = t + i
    <2>1. s + i \in Memory(c)
      BY DEF Memory
    <2>2. CASE s + i < e
      <3>1. i \in 0..(e - s - 1) /\ s + i \notin e..(e + k - 1)
        BY <2>2
      <3>2. QED
        BY <2>1, <3>1 DEF Holds, Extended
    <2>3. CASE s + i >= e
      <3>1. /\ s + i \in e..(e + k - 1)
            /\ t + (e - s) + ((s + i) - e) = t + i
        BY <2>3
      <3>2. QED
        BY <2>1, <3>1 DEF Extended
    <2>4. QED
      BY <2>2, <2>3
  <1>4. QED
    BY <1>2, <1>3 DEF Holds

LEMMA ClipNumbers ==
    ASSUME NEW n \in Nat, NEW most \in Nat
    PROVE  Clip(n, most) \in Nat /\ Clip(n, most) <= most
  BY DEF Clip

\* The bounds after a commit of k of the bytes reserved from e to r.
LEMMA CommitNumbers ==
    ASSUME NEW c \in Nat, NEW s \in Nat, NEW e \in Nat, NEW r \in Nat,
           NEW k \in Nat, k <= r - e, s <= e, e <= r, r <= c + c,
           (e - s) + (r - e) <= c
    PROVE  /\ e + k \in Nat /\ s <= e + k /\ e + k <= c + c
           /\ ((e + k) - s) + (0 - 0) <= c
  OBVIOUS

LEMMA CommitStep == ASSUME IInv, NEW n \in Nat, Commit(n) PROVE IInv'
  <1>1. /\ capacity' = capacity /\ aStart' = aStart /\ taken' = taken
        /\ rStart' = 0 /\ rEnd' = 0
        /\ IF Reserved > 0
           THEN /\ aEnd' = rStart + Clip(n, Reserved)
                /\ mem' = Written(Clip(n, Reserved))
           ELSE aEnd' = aEnd /\ mem' = mem
    BY DEF Commit
  <1>2. /\ capacity \in Nat /\ capacity > 0 /\ taken \in Nat
        /\ aStart \in Nat /\ aEnd \in Nat /\ rStart \in Nat /\ rEnd \in Nat
        /\ aStart <= aEnd /\ aEnd <= capacity + capacity
        /\ rStart <= rEnd /\ rEnd <= capacity + capacity
        /\ (aEnd - aStart) + (rEnd - rStart) <= capacity
        /\ mem \in [Memory(capacity) -> Byte]
        /\ Holds(mem, aStart, aEnd, taken)
    BY DEF IInv, TypeOK, InBounds, Fifo, Committed, Reserved, Holds
  <1>3. CASE Reserved > 0
    <2>1. PICK k \in Nat : k = Clip(n, Reserved) /\ k <= rEnd - rStart
      BY <1>2, <1>3, ClipNumbers DEF Reserved
    <2>2. rStart = aEnd
      BY <1>3 DEF IInv, InBounds
    <2>3. /\ aEnd' = aEnd + k /\ aEnd + k \in Nat /\ aStart <= aEnd + k
          /\ aEnd + k <= capacity + capacity
          /\ ((aEnd + k) - aStart) + (0 - 0) <= capacity
      BY <1>1, <1>2, <1>3, <2>1, <2>2, CommitNumbers
    <2>4. mem' = Extended(mem, capacity, aStart, aEnd, k, taken)
      BY <1>1, <1>3, <2>1, <2>2 DEF Written, Committed, Extended
    <2>5. /\ mem' \in [Memory(capacity) -> Byte]
          /\ Holds(mem', aStart, aEnd + k, taken)
      BY <1>2, <2>3, <2>4, WrittenBytes
    <2>6. TypeOK'
      BY <1>1, <1>2, <2>3, <2>5 DEF TypeOK
    <2>7. InBounds'
      BY <1>1, <1>2, <2>3 DEF InBounds, Committed, Reserved
    <2>8. Fifo'
      <3>1. Holds(mem', aStart', aEnd', taken')
        BY <1>1, <2>3, <2>5
      <3>2. QED
        BY <3>1 DEF Fifo, Committed, Holds
    <2>9. QED
      BY <2>6, <2>7, <2>8 DEF IInv
  <1>4. CASE ~(Reserved > 0)
    <2>1. aEnd' = aEnd /\ mem' = mem /\ rStart = 0 /\ rEnd = 0
      BY <1>1, <1>2, <1>4 DEF IInv, InBounds, Reserved
    <2>2. QED
      BY <1>1, <2>1 DEF IInv, TypeOK, InBounds, Fifo, Committed, Reserved
  <1>5. QED
    BY <1>3, <1>4

\* The arithmetic of taking k bytes from the front of a region.
LEMMA DecommitNumbers ==
    ASSUME NEW s \in Nat, NEW e \in Nat, NEW k \in Nat, s <= e, k <= e - s,
           NEW c \in Nat, NEW d \in Nat, (e - s) + d <= c,
           NEW t \in Nat, NEW m, Holds(m, s, e, t)
    PROVE  /\ s + k \in Nat /\ s + k <= e /\ (e - (s + k)) + d <= c
           /\ Holds(m, s + k, e, t + k)
  <1>1. ASSUME NEW i \in 0..(e - (s + k) - 1)
        PROVE  m[(s + k) + i] = (t + k) + i
    <2>1. /\ k + i \in 0..(e - s - 1)
          /\ s + (k + i) = (s + k) + i /\ t + (k + i) = (t + k) + i
      OBVIOUS
    <2>2. m[s + (k + i)] = t + (k + i)
      BY <2>1 DEF Holds
    <2>3. QED
      BY <2>1, <2>2
  <1>2. QED
    BY <1>1 DEF Holds

LEMMA DecommitStep == ASSUME IInv, NEW n \in Nat, Decommit(n) PROVE IInv'
  <1>1. /\ aStart \in Nat /\ aEnd \in Nat /\ aStart <= aEnd
        /\ capacity \in Nat /\ taken \in Nat /\ Reserved \in Nat
        /\ (aEnd - aStart) + Reserved <= capacity
        /\ Holds(mem, aStart, aEnd, taken)
    BY DEF IInv, TypeOK, InBounds, Fifo, Committed, Reserved, Holds
  <1>2. PICK k \in Nat : k = Clip(n, Committed) /\ k <= aEnd - aStart
    BY <1>1, ClipNumbers DEF Committed
  <1>3. /\ aStart' = aStart + k /\ taken' = taken + k
        /\ UNCHANGED <<capacity, mem, aEnd, rStart, rEnd>>
    BY <1>2 DEF Decommit
  <1>4. /\ aStart + k \in Nat /\ aStart + k <= aEnd
        /\ (aEnd - (aStart + k)) + Reserved <= capacity
        /\ Holds(mem, aStart + k, aEnd, taken + k)
    BY <1>1, <1>2, DecommitNumbers
  <1>5. TypeOK'
    BY <1>1, <1>3, <1>4 DEF IInv, TypeOK
  <1>6. InBounds'
    BY <1>3, <1>4 DEF IInv, InBounds, Committed, Reserved
  <1>7. Fifo'
    <2>1. Holds(mem', aStart', aEnd', taken')
      BY <1>3, <1>4
    <2>2. QED
      BY <2>1 DEF Fifo, Committed, Holds
  <1>8. QED
    BY <1>5, <1>6, <1>7 DEF IInv

LEMMA ResetStep == ASSUME IInv, Reset PROVE IInv'
  BY DEF IInv, TypeOK, InBounds, Fifo, Committed, Reserved, Reset

LEMMA InvStep == ASSUME IInv, [Next]_vars PROVE IInv'
  <1>1. CASE \E n \in 0..MaxCapacity :
                 ForceReserve(n) \/ Commit(n) \/ Decommit(n)
    <2>1. PICK n \in 0..MaxCapacity :
                 ForceReserve(n) \/ Commit(n) \/ Decommit(n)
      BY <1>1
    <2>2. n \in Nat
      BY SizesAssumption
    <2>3. QED
      BY <2>1, <2>2, ForceReserveStep, CommitStep, DecommitStep
  <1>2. CASE UNCHANGED vars
    BY <1>2 DEF vars, IInv, TypeOK, InBounds, Fifo, Committed, Reserved
  <1>3. QED
    BY <1>1, <1>2, ReserveStep, ResetStep DEF Next

-----------------------------------------------------------------------------
(* Theorems.                                                               *)

\* The inductive invariant holds in every reachable state.
THEOREM Inductive == Spec => []IInv
  BY InvInit, InvStep, PTL DEF Spec

\* Every variable keeps its type, also across bip_buf_expand.
THEOREM TypesKept == Spec => []TypeOK
  <1>1. IInv => TypeOK
    BY DEF IInv
  <1>2. QED
    BY Inductive, <1>1, PTL

\* Whatever is reserved lies inside the memory, behind region A.
THEOREM StaysInBounds == Spec => []InBounds
  <1>1. IInv => InBounds
    BY DEF IInv
  <1>2. QED
    BY Inductive, <1>1, PTL

\* The contiguous block is the committed bytes in the order of their commit.
THEOREM KeepsOrder == Spec => []Fifo
  <1>1. IInv => Fifo
    BY DEF IInv
  <1>2. QED
    BY Inductive, <1>1, PTL

\* A wrap is needed only when region A lies in the second half.
LEMMA PlaceNumbers ==
    ASSUME NEW s \in Nat, NEW e \in Nat, NEW c \in Nat, s <= e,
           e - s <= c, NEW n \in Nat, n <= c - (e - s), c + c - e < n
    PROVE  e - s <= s
  OBVIOUS

\* The memcpy of a wrap copies between disjoint blocks.
THEOREM WrapsSafely == Spec => WrapIsDisjoint
  <1> DEFINE A == aStart > 0 /\ aStart' = 0 /\ aEnd' > 0
                    /\ capacity' = capacity => Committed <= aStart
  <1>1. ASSUME IInv, [Next]_vars PROVE [A]_vars
    <2>1. /\ aStart \in Nat /\ aEnd \in Nat /\ aStart <= aEnd
          /\ capacity \in Nat /\ aEnd - aStart <= capacity
          /\ Committed = aEnd - aStart /\ Free = capacity - (aEnd - aStart)
      BY <1>1 DEF IInv, TypeOK, InBounds, Committed, Reserved, Free
    <2>2. ASSUME NEW n \in Nat, n <= Free, Place(n) PROVE A
      BY <2>1, <2>2, PlaceNumbers DEF Place
    <2>3. ASSUME NEW n \in Nat, ForceReserve(n) PROVE A
      <3>1. CASE n <= Free /\ Place(n)
        BY <2>2, <3>1
      <3>2. CASE n > Free /\ Expand(n)
        <4>1. capacity' = NextPowerOfTwo(capacity + n) /\ n # 0
          BY <2>3, <3>2 DEF Expand, ForceReserve, MayForce
        <4>2. capacity + n \in Nat /\ capacity + n <= 2^30
          BY <2>1, <2>3, SizesAssumption DEF ForceReserve
        <4>3. capacity' \in Nat /\ capacity' >= capacity + n
          BY <4>1, <4>2, NextPowerFacts
        <4>4. capacity' # capacity
          BY <2>1, <4>1, <4>3
        <4>5. QED
          BY <4>4
      <3>3. QED
        BY <2>3, <3>1, <3>2 DEF ForceReserve
    <2>4. ASSUME NEW n \in Nat, Decommit(n) PROVE A
      <3>1. PICK k \in Nat : k = Clip(n, Committed)
        BY <2>1, ClipNumbers
      <3>2. aStart' = aStart + k
        BY <2>4, <3>1 DEF Decommit
      <3>3. QED
        BY <2>1, <3>2
    <2>5. ASSUME NEW n \in Nat, Commit(n) PROVE A
      BY <2>5 DEF Commit
    <2>6. CASE Reserve
      <3>1. Free \in Nat /\ Place(Free)
        BY <2>1, <2>6 DEF Reserve
      <3>2. QED
        BY <2>2, <3>1
    <2>7. CASE Reset
      BY <2>7 DEF Reset
    <2>8. CASE \E n \in 0..MaxCapacity :
                   ForceReserve(n) \/ Commit(n) \/ Decommit(n)
      <3>1. PICK n \in 0..MaxCapacity :
                   ForceReserve(n) \/ Commit(n) \/ Decommit(n)
        BY <2>8
      <3>2. n \in Nat
        BY SizesAssumption
      <3>3. QED
        BY <2>3, <2>4, <2>5, <3>1, <3>2
    <2>9. QED
      BY <1>1, <2>6, <2>7, <2>8 DEF Next
  <1>2. QED
    BY Inductive, <1>1, PTL DEF Spec, WrapIsDisjoint

-----------------------------------------------------------------------------
\* A stretch of the stream is a sequence.
LEMMA StretchFacts ==
    ASSUME NEW t \in Nat, NEW n \in Nat
    PROVE  /\ Queue!Stretch(t, n) \in Seq(Nat)
           /\ Len(Queue!Stretch(t, n)) = n
           /\ \A i \in 1..n : Queue!Stretch(t, n)[i] = t + i - 1
  <1>1. \A i \in 1..n : t + i - 1 \in Nat
    OBVIOUS
  <1>2. Queue!Stretch(t, n) \in [1..n -> Nat]
    BY <1>1 DEF Queue!Stretch
  <1>3. Queue!Stretch(t, n) \in Seq(Nat)
    BY <1>2, IsASeq
  <1>4. DOMAIN Queue!Stretch(t, n) = 1..n
    BY DEF Queue!Stretch
  <1>5. QED
    BY <1>3, <1>4, LenProperties DEF Queue!Stretch

\* A region that holds bytes of the stream, read from the memory.
LEMMA ContentsFacts ==
    ASSUME NEW m, NEW s \in Nat, NEW e \in Nat, s <= e, NEW t \in Nat,
           Holds(m, s, e, t)
    PROVE  [i \in 1..(e - s) |-> m[s + i - 1]] = Queue!Stretch(t, e - s)
  <1>1. ASSUME NEW i \in 1..(e - s)
        PROVE  m[s + i - 1] = t + i - 1
    <2>1. /\ i - 1 \in 0..(e - s - 1)
          /\ s + (i - 1) = s + i - 1 /\ t + (i - 1) = t + i - 1
      OBVIOUS
    <2>2. m[s + (i - 1)] = t + (i - 1)
      BY <2>1 DEF Holds
    <2>3. QED
      BY <2>1, <2>2
  <1>2. QED
    BY <1>1 DEF Queue!Stretch

\* Two stretches that meet.
LEMMA StretchConcat ==
    ASSUME NEW t \in Nat, NEW a \in Nat, NEW n \in Nat
    PROVE  Queue!Stretch(t, a) \o Queue!Stretch(t + a, n)
             = Queue!Stretch(t, a + n)
  <1> DEFINE p == Queue!Stretch(t, a)
             q == Queue!Stretch(t + a, n)
             r == Queue!Stretch(t, a + n)
  <1>1. /\ p \in Seq(Nat) /\ Len(p) = a
        /\ \A i \in 1..a : p[i] = t + i - 1
    BY StretchFacts
  <1>2. /\ q \in Seq(Nat) /\ Len(q) = n
        /\ \A i \in 1..n : q[i] = (t + a) + i - 1
    <2>1. t + a \in Nat
      OBVIOUS
    <2>2. QED
      BY <2>1, StretchFacts
  <1>3. /\ r \in Seq(Nat) /\ Len(r) = a + n
        /\ \A i \in 1..(a + n) : r[i] = t + i - 1
    <2>1. a + n \in Nat
      OBVIOUS
    <2>2. QED
      BY <2>1, StretchFacts
  <1> HIDE DEF p, q, r
  <1>4. /\ p \o q \in Seq(Nat) /\ Len(p \o q) = a + n
        /\ \A i \in 1..(a + n) : (p \o q)[i] = IF i <= a THEN p[i] ELSE q[i - a]
    BY <1>1, <1>2, ConcatProperties
  <1>5. ASSUME NEW i \in 1..(a + n)
        PROVE  (p \o q)[i] = r[i]
    <2>1. CASE i <= a
      BY <1>1, <1>3, <1>4, <2>1
    <2>2. CASE ~(i <= a)
      <3>1. i - a \in 1..n /\ (t + a) + (i - a) - 1 = t + i - 1
        BY <2>2
      <3>2. QED
        BY <1>2, <1>3, <1>4, <2>2, <3>1
    <2>3. QED
      BY <2>1, <2>2
  <1>6. p \o q = r
    BY <1>3, <1>4, <1>5, SeqEqual
  <1>7. QED
    BY <1>6 DEF p, q, r

\* A stretch without its first bytes.
LEMMA StretchDrop ==
    ASSUME NEW t \in Nat, NEW a \in Nat, NEW k \in Nat, k <= a
    PROVE  SubSeq(Queue!Stretch(t, a), k + 1, Len(Queue!Stretch(t, a)))
             = Queue!Stretch(t + k, a - k)
  <1> DEFINE p == Queue!Stretch(t, a)
             r == Queue!Stretch(t + k, a - k)
             q == SubSeq(p, k + 1, a)
  <1>1. Len(p) = a /\ \A i \in 1..a : p[i] = t + i - 1
    BY StretchFacts
  <1>2. /\ r \in Seq(Nat) /\ Len(r) = a - k
        /\ \A i \in 1..(a - k) : r[i] = (t + k) + i - 1
    <2>1. t + k \in Nat /\ a - k \in Nat
      OBVIOUS
    <2>2. QED
      BY <2>1, StretchFacts
  <1>3. \A i \in (k + 1)..a : p[i] \in Nat
    BY <1>1
  <1> HIDE DEF p, r
  <1>4. /\ q \in Seq(Nat)
        /\ Len(q) = IF k + 1 <= a THEN a - (k + 1) + 1 ELSE 0
        /\ \A i \in 1..(a - (k + 1) + 1) : q[i] = p[(k + 1) + i - 1]
    <2>1. k + 1 \in Int /\ a \in Int
      OBVIOUS
    <2>2. QED
      BY <1>3, <2>1, SubSeqProperties
  <1> HIDE DEF q
  <1>5. Len(q) = a - k
    BY ONLY <1>4, k \in Nat, a \in Nat, k <= a
  <1>6. ASSUME NEW i \in 1..(a - k)
        PROVE  q[i] = r[i]
    <2>1. /\ i \in 1..(a - (k + 1) + 1) /\ (k + 1) + i - 1 \in 1..a
          /\ t + ((k + 1) + i - 1) - 1 = (t + k) + i - 1
      OBVIOUS
    <2>2. QED
      BY <1>1, <1>2, <1>4, <2>1
  <1>7. q = r
    BY <1>2, <1>4, <1>5, <1>6, SeqEqual
  <1>8. QED
    BY <1>1, <1>7 DEF p, q, r

\* Arithmetic of the stretches.
LEMMA Differs ==
    ASSUME NEW a \in Nat, NEW b \in Nat, a <= b
    PROVE  b - a \in Nat
  OBVIOUS

LEMMA Cancels ==
    ASSUME NEW a \in Nat, NEW n \in Nat
    PROVE  (a + n) - a = n
  OBVIOUS

LEMMA Fits ==
    ASSUME NEW k \in Nat, NEW n \in Nat, NEW c \in Nat, n # 0, k + n <= c
    PROVE  n \in 1..(c - k)
  OBVIOUS

\* Where the bytes are, before and after a step.
LEMMA QueueIs ==
    ASSUME IInv, IInv'
    PROVE  /\ Committed \in Nat /\ Committed' \in Nat /\ Reserved \in Nat
           /\ taken \in Nat /\ taken' \in Nat
           /\ Contents = Queue!Stretch(taken, Committed)
           /\ Contents' = Queue!Stretch(taken', Committed')
  <1>1. /\ aStart \in Nat /\ aEnd \in Nat /\ aStart <= aEnd /\ taken \in Nat
        /\ Holds(mem, aStart, aEnd, taken)
    BY DEF IInv, TypeOK, InBounds, Fifo, Committed, Holds
  <1>2. /\ aStart' \in Nat /\ aEnd' \in Nat /\ aStart' <= aEnd'
        /\ taken' \in Nat /\ Holds(mem', aStart', aEnd', taken')
    BY DEF IInv, TypeOK, InBounds, Fifo, Committed, Holds
  <1>3. Contents = Queue!Stretch(taken, Committed)
    BY <1>1, ContentsFacts DEF Contents, Committed
  <1>4. Contents' = Queue!Stretch(taken', Committed')
    BY <1>2, ContentsFacts DEF Contents, Committed
  <1>5. Committed \in Nat /\ Committed' \in Nat
    <2>1. aEnd - aStart \in Nat
      BY <1>1, Differs
    <2>2. aEnd' - aStart' \in Nat
      BY <1>2, Differs
    <2>3. QED
      BY ONLY <2>1, <2>2 DEF Committed
  <1>6. Reserved \in Nat
    BY DEF IInv, TypeOK, InBounds, Reserved
  <1>7. QED
    BY <1>1, <1>2, <1>3, <1>4, <1>5, <1>6

\* A reservation offers room.
LEMMA OfferStep ==
    ASSUME IInv, IInv', Reserved = 0, NEW n \in Nat, n # 0, Claim(n),
           UNCHANGED taken, Committed' = Committed, capacity' >= capacity,
           Committed + n <= capacity'
    PROVE  Queue!Offer
  <1>1. /\ Committed \in Nat /\ taken \in Nat
        /\ Contents = Queue!Stretch(taken, Committed)
        /\ Contents' = Queue!Stretch(taken', Committed')
    BY QueueIs
  <1>2. Contents' = Contents /\ Len(Contents) = Committed
    BY <1>1, StretchFacts
  <1>3. Reserved' = n
    <2>1. aEnd' \in Nat /\ rStart' = aEnd' /\ rEnd' = aEnd' + n
      BY DEF Claim, IInv, TypeOK
    <2>2. (aEnd' + n) - aEnd' = n
      BY <2>1, Cancels
    <2>3. Reserved' = rEnd' - rStart'
      BY DEF Reserved
    <2>4. QED
      BY ONLY <2>1, <2>2, <2>3
  <1>4. capacity' \in Nat
    BY DEF IInv, TypeOK
  <1>5. n \in 1..(capacity' - Committed)
    BY <1>1, <1>4, Fits
  <1>6. (taken + Committed)' = taken + Committed
    OBVIOUS
  <1>7. QED
    BY <1>2, <1>3, <1>5, <1>6 DEF Queue!Offer

\* bip_buf_reserve and bip_buf_force_reserve offer room.
LEMMA ReserveOffers ==
    ASSUME IInv, IInv', Reserve \/ \E n \in Nat : ForceReserve(n)
    PROVE  Queue!Offer
  <1>1. /\ Committed \in Nat /\ Free = capacity - Committed
        /\ capacity \in Nat /\ Free \in Nat
    BY DEF IInv, TypeOK, InBounds, Free, Committed, Reserved
  <1>2. ASSUME NEW n \in Nat, n <= Free, Place(n), n # 0, Claim(n),
               UNCHANGED taken, Reserved = 0
        PROVE  Queue!Offer
    <2>1. capacity' = capacity /\ Committed' = Committed
      BY <1>2, PlaceFacts DEF Committed
    <2>2. capacity' >= capacity /\ Committed + n <= capacity'
      <3> HIDE DEF Committed, Free
      <3>1. QED
        BY ONLY <1>1, <1>2, <2>1
    <2>3. QED
      BY <1>2, <2>1, <2>2, OfferStep
  <1>3. ASSUME Reserve
        PROVE  Queue!Offer
    BY <1>1, <1>2, <1>3 DEF Reserve
  <1>4. ASSUME NEW n \in Nat, ForceReserve(n), n > Free, Expand(n)
        PROVE  Queue!Offer
    <2>1. /\ Reserved = 0 /\ n # 0 /\ Claim(n) /\ UNCHANGED taken
          /\ capacity + n <= MaxCapacity
      BY <1>4 DEF ForceReserve, MayForce
    <2>2. /\ capacity' \in Nat /\ capacity' >= capacity + n
          /\ aStart' = 0 /\ aEnd' = Committed
      BY <1>4, <2>1, ExpandFacts
    <2>3. Committed' = Committed
      <3>1. Committed' = aEnd' - aStart'
        BY DEF Committed
      <3>2. QED
        BY <1>1, <2>2, <3>1
    <2>4. capacity' >= capacity /\ Committed + n <= capacity'
      <3>1. Committed <= capacity
        BY <1>1
      <3> HIDE DEF Committed
      <3>2. QED
        BY ONLY <1>1, <2>2, <3>1, n \in Nat
    <2>5. QED
      BY <2>1, <2>3, <2>4, OfferStep
  <1>5. ASSUME NEW n \in Nat, ForceReserve(n)
        PROVE  Queue!Offer
    <2>1. /\ Reserved = 0 /\ n # 0 /\ Claim(n) /\ UNCHANGED taken
          /\ (n > Free /\ Expand(n)) \/ (n <= Free /\ Place(n))
      BY <1>5 DEF ForceReserve, MayForce
    <2>2. QED
      BY <1>2, <1>4, <1>5, <2>1
  <1>6. QED
    BY <1>3, <1>5

\* bip_buf_commit puts at most what was reserved.
LEMMA CommitPuts ==
    ASSUME IInv, IInv', NEW n \in Nat, Commit(n)
    PROVE  (\E k \in 0..Reserved : Queue!Put(k)) \/ UNCHANGED Queue!vars
  <1>1. /\ Committed \in Nat /\ taken \in Nat /\ Reserved \in Nat
        /\ Contents = Queue!Stretch(taken, Committed)
        /\ Contents' = Queue!Stretch(taken', Committed')
    BY QueueIs
  <1>2. /\ UNCHANGED <<capacity, aStart, taken>> /\ rStart' = 0 /\ rEnd' = 0
        /\ Reserved > 0 => aEnd' = rStart + Clip(n, Reserved)
        /\ ~(Reserved > 0) => UNCHANGED <<aEnd, mem>>
    BY DEF Commit
  <1>3. Reserved' = 0
    BY <1>2 DEF Reserved
  <1>4. CASE Reserved > 0
    <2>1. PICK k \in Nat : k = Clip(n, Reserved) /\ k <= Reserved
      BY <1>1, ClipNumbers
    <2>2. /\ aStart \in Nat /\ aEnd \in Nat /\ rStart = aEnd
      BY <1>4 DEF IInv, TypeOK, InBounds
    <2>3. Committed' = Committed + k
      <3>1. aEnd' = aEnd + k /\ aStart' = aStart
        BY <1>2, <1>4, <2>1, <2>2
      <3>2. QED
        BY ONLY <2>1, <2>2, <3>1 DEF Committed
    <2>4. k \in 0..Reserved
      BY <1>1, <2>1
    <2>5. Contents' = Contents \o Queue!Stretch(taken + Committed, k)
      <3>1. Contents' = Queue!Stretch(taken, Committed + k)
        BY <1>1, <1>2, <2>3
      <3>2. Queue!Stretch(taken, Committed) \o Queue!Stretch(taken + Committed, k)
              = Queue!Stretch(taken, Committed + k)
        <4>1. taken \in Nat /\ Committed \in Nat /\ k \in Nat
          BY <1>1
        <4>2. QED
          BY ONLY <4>1, StretchConcat, Zenon
      <3>3. QED
        BY ONLY <1>1, <3>1, <3>2
    <2>6. (taken + Committed)' = (taken + Committed) + k
      <3>1. (taken + Committed)' = taken + (Committed + k)
        BY <1>2, <2>3
      <3> HIDE DEF Committed
      <3>2. taken + (Committed + k) = (taken + Committed) + k
        BY ONLY <1>1, <2>1
      <3>3. QED
        BY <3>1, <3>2
    <2>7. Queue!Put(k)
      BY <1>2, <1>3, <2>5, <2>6 DEF Queue!Put
    <2>8. QED
      BY <2>4, <2>7
  <1>5. CASE ~(Reserved > 0)
    <2>1. UNCHANGED <<aEnd, mem>> /\ Reserved = 0
      BY <1>1, <1>2, <1>5
    <2>2. UNCHANGED Committed
      BY <1>2, <2>1 DEF Committed
    <2>3. UNCHANGED Contents
      BY <1>2, <2>1, <2>2 DEF Contents
    <2>4. QED
      BY <1>2, <1>3, <2>1, <2>2, <2>3 DEF Queue!vars
  <1>6. QED
    BY <1>4, <1>5

\* bip_buf_decommit takes from the front.
LEMMA DecommitTakes ==
    ASSUME IInv, IInv', NEW n \in Nat, Decommit(n)
    PROVE  \E k \in 0..Len(Contents) : Queue!Take(k)
  <1>1. /\ Committed \in Nat /\ taken \in Nat
        /\ Contents = Queue!Stretch(taken, Committed)
        /\ Contents' = Queue!Stretch(taken', Committed')
    BY QueueIs
  <1>2. PICK k \in Nat : k = Clip(n, Committed) /\ k <= Committed
    BY <1>1, ClipNumbers
  <1>3. /\ aStart' = aStart + k /\ taken' = taken + k
        /\ UNCHANGED <<capacity, aEnd, rStart, rEnd>>
    BY <1>2 DEF Decommit
  <1>4. Len(Contents) = Committed
    BY <1>1, StretchFacts
  <1>5. Committed' = Committed - k
    <2>1. aStart \in Nat /\ aEnd \in Nat
      BY DEF IInv, TypeOK
    <2>2. QED
      BY ONLY <1>2, <1>3, <2>1 DEF Committed
  <1>6. Contents' = SubSeq(Contents, k + 1, Len(Contents))
    <2>1. Contents' = Queue!Stretch(taken + k, Committed - k)
      BY <1>1, <1>3, <1>5
    <2>2. SubSeq(Queue!Stretch(taken, Committed), k + 1,
                 Len(Queue!Stretch(taken, Committed)))
            = Queue!Stretch(taken + k, Committed - k)
      <3>1. taken \in Nat /\ Committed \in Nat /\ k \in Nat /\ k <= Committed
        BY <1>1, <1>2
      <3>2. QED
        BY ONLY <3>1, StretchDrop, Zenon
    <2>3. QED
      BY ONLY <1>1, <2>1, <2>2
  <1>7. (taken + Committed)' = taken + Committed
    <2>1. (taken + Committed)' = (taken + k) + (Committed - k)
      BY <1>3, <1>5
    <2> HIDE DEF Committed
    <2>2. (taken + k) + (Committed - k) = taken + Committed
      BY ONLY <1>1, <1>2
    <2>3. QED
      BY <2>1, <2>2
  <1>8. Reserved' = Reserved
    BY <1>3 DEF Reserved
  <1>9. Queue!Take(k)
    BY <1>3, <1>6, <1>7, <1>8 DEF Queue!Take
  <1>10. k \in 0..Len(Contents)
    BY <1>1, <1>2, <1>4
  <1>11. QED
    BY <1>9, <1>10

\* bip_buf_reset clears.
LEMMA ResetClears ==
    ASSUME IInv, IInv', Reset
    PROVE  Queue!Clear
  <1>1. /\ aStart' = 0 /\ aEnd' = 0 /\ rStart' = 0 /\ rEnd' = 0
        /\ taken' = taken + Committed /\ UNCHANGED capacity
    BY DEF Reset
  <1>2. Committed' = 0 /\ Reserved' = 0
    BY <1>1 DEF Committed, Reserved
  <1>3. Contents' = <<>>
    <2>1. Contents' = [i \in 1..0 |-> mem'[aStart' + i - 1]]
      BY <1>2 DEF Contents
    <2>2. QED
      BY <2>1
  <1>4. (taken + Committed)' = taken + Committed
    <2>1. taken \in Nat /\ Committed \in Nat
      BY QueueIs
    <2>2. QED
      BY <1>1, <1>2, <2>1
  <1>5. QED
    BY <1>1, <1>2, <1>3, <1>4 DEF Queue!Clear

\* The buffer implements a queue of bytes, for every capacity and across every
\* wrap, expansion and reset.
THEOREM IsQueue == Spec => ActsAsQueue
  <1>1. Init => Queue!Init
    <2> SUFFICES ASSUME Init
                 PROVE  Queue!Init
      OBVIOUS
    <2>1. Committed = 0 /\ Reserved = 0
      BY DEF Init, Committed, Reserved
    <2>2. Contents = <<>>
      BY <2>1 DEF Contents
    <2>3. QED
      BY <2>1, <2>2 DEF Init, Queue!Init
  <1>2. IInv /\ IInv' /\ [Next]_vars => [Queue!Next]_(Queue!vars)
    <2> SUFFICES ASSUME IInv, IInv', [Next]_vars
                 PROVE  [Queue!Next]_(Queue!vars)
      OBVIOUS
    <2>1. CASE \E n \in 0..MaxCapacity :
                   ForceReserve(n) \/ Commit(n) \/ Decommit(n)
      <3>1. PICK n \in 0..MaxCapacity :
                   ForceReserve(n) \/ Commit(n) \/ Decommit(n)
        BY <2>1
      <3>2. n \in Nat
        BY SizesAssumption
      <3>3. \/ Queue!Offer
            \/ \E k \in 0..Reserved : Queue!Put(k)
            \/ \E k \in 0..Len(Contents) : Queue!Take(k)
            \/ UNCHANGED Queue!vars
        BY <3>1, <3>2, ReserveOffers, CommitPuts, DecommitTakes
      <3>4. QED
        BY <3>3 DEF Queue!Next
    <2>2. CASE Reserve
      BY <2>2, ReserveOffers DEF Queue!Next
    <2>3. CASE Reset
      BY <2>3, ResetClears DEF Queue!Next
    <2>4. CASE UNCHANGED vars
      BY <2>4 DEF vars, Queue!vars, Contents, Committed, Reserved
    <2>5. QED
      BY <2>1, <2>2, <2>3, <2>4 DEF Next
  <1>3. QED
    BY <1>1, <1>2, Inductive, PTL DEF Spec, ActsAsQueue, Queue!Spec

=============================================================================
