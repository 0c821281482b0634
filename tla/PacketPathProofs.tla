-------------------------- MODULE PacketPathProofs --------------------------
(***************************************************************************)
(* PacketPath, for every set of packets, every page size and every buffer: *)
(* the callbacks that wait are always signalled, the parser is always at a *)
(* page boundary, and Framing implements Channel.                          *)
(*                                                                         *)
(* TrunkInv is inductive for the queue.  FramingInv is inductive for the   *)
(* framing: it adds to the properties what the stream holds (PagesInv: the *)
(* pages follow each other without a gap, each the next piece of its       *)
(* packet) and what the receive buffer must hold for the page that the     *)
(* parser comes to next (ExpectInv).                                       *)
(***************************************************************************)
EXTENDS PacketPath, SequenceTheorems, TLAPS

-----------------------------------------------------------------------------
(* The queue.                                                              *)

\* Only OnDelete closes the queue, and not from inside RunOnce.
ClosedIsIdle == closed => main = "idle" /\ byHand

TrunkInv == TrunkTypeOK /\ ClosedIsIdle /\ Signalled

\* Every step of the worker's Add and of the main thread keeps TrunkInv.
LEMMA TrunkStep == TrunkInv /\ [TrunkNext]_trunkVars => TrunkInv'
<1> SUFFICES ASSUME TrunkInv, [TrunkNext]_trunkVars PROVE TrunkInv'
  OBVIOUS
<1> USE WaterlineAssumption DEF TrunkInv, TrunkTypeOK, ClosedIsIdle
<1>1. CASE Enqueue
  BY <1>1 DEF Enqueue, Signalled, Due
<1>2. CASE Notify
  <2>1. adding = TRUE /\ adding' = FALSE
    BY <1>2 DEF Notify
  <2>2. Due' = Due /\ Due \in Nat
    BY <1>2 DEF Notify, Due
  <2>3. Signalled'
    BY <1>2, <2>1, <2>2 DEF Notify, Signalled
  <2>4. adding' \in BOOLEAN
    BY <1>2, Zenon DEF Notify
  <2> QED
    BY <1>2, <2>3, <2>4 DEF Notify
<1>3. ASSUME NEW n \in 1..ReadSize, Wake(n) PROVE TrunkInv'
  BY <1>3 DEF Wake, Signalled, Due
<1>4. CASE OnDelete
  BY <1>4 DEF OnDelete, Signalled, Due
<1>5. CASE RunByHand
  BY <1>5 DEF RunByHand, Signalled, Due
<1>6. CASE RunCallback
  BY <1>6 DEF RunCallback, GoesOn, Signalled, Due
<1>7. CASE RunEnds
  BY <1>7 DEF RunEnds, GoesOn, Signalled, Due
<1>8. CASE Close
  BY <1>8 DEF Close, Signalled, Due
<1>9. CASE UNCHANGED trunkVars
  BY <1>9 DEF trunkVars, Signalled, Due
<1> QED
  BY <1>1, <1>2, <1>3, <1>4, <1>5, <1>6, <1>7, <1>8, <1>9
  DEF TrunkNext, MainNext

\* Framing's steps leave the queue alone or add one callback.
LEMMA PathStepIsTrunkStep == [PathNext]_pathVars => [TrunkNext]_trunkVars
<1> SUFFICES ASSUME [PathNext]_pathVars PROVE [TrunkNext]_trunkVars
  OBVIOUS
<1>1. CASE Outside
  BY <1>1 DEF Outside
<1>2. CASE Decode
  BY <1>2 DEF Decode
<1>3. CASE OnGotPacket
  BY <1>3 DEF OnGotPacket, TrunkNext
<1>4. CASE OnIsolatedError
  BY <1>4 DEF OnIsolatedError, TrunkNext
<1>5. CASE OnLowLevelConnect
  BY <1>5 DEF OnLowLevelConnect, TrunkNext
<1>6. CASE Notify
  BY <1>6 DEF TrunkNext
<1>7. CASE Main
  BY <1>7 DEF Main, TrunkNext
<1>8. CASE UNCHANGED pathVars
  BY <1>8 DEF pathVars
<1> QED
  BY <1>1, <1>2, <1>3, <1>4, <1>5, <1>6, <1>7, <1>8 DEF PathNext, Worker

\* The queue starts empty, with no byte in the pipe.
LEMMA TrunkStart == TrunkInit => TrunkInv
<1> SUFFICES ASSUME TrunkInit PROVE TrunkInv
  OBVIOUS
<1>1. TrunkTypeOK
  <2>1. adding \in BOOLEAN /\ byHand \in BOOLEAN /\ closed \in BOOLEAN
    BY Zenon DEF TrunkInit
  <2>2. /\ waiting \in Nat /\ bytes \in Nat /\ main \in {"idle", "run"}
        /\ amount \in 0..ReadSize /\ ncount \in 0..Waterline
    BY WaterlineAssumption DEF TrunkInit
  <2> QED
    BY <2>1, <2>2 DEF TrunkTypeOK
<1>2. Due = 0
  BY DEF TrunkInit, Due
<1>3. Signalled
  BY <1>2 DEF TrunkInit, Signalled
<1>4. ClosedIsIdle
  BY DEF TrunkInit, ClosedIsIdle
<1> QED
  BY <1>1, <1>3, <1>4 DEF TrunkInv

\* TrunkInv holds of every state of the packet path.
THEOREM TrunkInvariant == PathSpec => []TrunkInv
<1>1. PathInit => TrunkInv
  BY TrunkStart DEF PathInit
<1>2. TrunkInv /\ [PathNext]_pathVars => TrunkInv'
  BY TrunkStep, PathStepIsTrunkStep
<1> QED
  BY <1>1, <1>2, PTL DEF PathSpec

\* RunOnce leaves no callback behind that no byte of the pipe announces: one
\* that waits is due to a byte, to the run that goes on, or to an Add that
\* has not sent its byte yet.
THEOREM NoneForgotten == PathSpec => []Signalled
<1>1. TrunkInv => Signalled
  BY DEF TrunkInv
<1> QED
  BY <1>1, TrunkInvariant, PTL

-----------------------------------------------------------------------------
(* The pages.                                                              *)

\* The quotient and what is left of it.
LEMMA DivBounds ==
    ASSUME NEW a \in Nat, NEW R \in Nat, R > 0
    PROVE  /\ a \div R \in Nat
           /\ (a \div R) * R <= a /\ a < (a \div R) * R + R
OBVIOUS

\* A number below the modulus is kept.
LEMMA ModBounds ==
    ASSUME NEW a \in Nat, NEW m \in Nat, m > 0
    PROVE  a % m \in Nat /\ a % m <= a /\ (a < m => a % m = a)
OBVIOUS

\* The number of pages is the length divided by a page's room, rounded up.
LEMMA Ceiling ==
    ASSUME NEW len \in Nat, len > 0, NEW R \in Nat, R > 0,
           NEW n, n = (len + R - 1) \div R
    PROVE  n \in Nat /\ n >= 1 /\ n * R - R < len /\ len <= n * R
<1>1. n \in Nat /\ n * R <= len + R - 1 /\ len + R - 1 < n * R + R
  BY DivBounds
<1>2. n # 0
  BY <1>1
<1> QED
  BY <1>1, <1>2

\* More pages take more room.
LEMMA Monotone ==
    ASSUME NEW i \in Nat, NEW j \in Nat, NEW R \in Nat, i <= j
    PROVE  i * R \in Nat /\ j * R \in Nat /\ i * R <= j * R
OBVIOUS

PageRecord == [at : Nat, pkt : Nat, from : Nat, size : Nat,
               start : BOOLEAN, end : BOOLEAN]

\* The byte behind page g.
PageEnd(g) == g.at + Lead + g.size

\* A page is a piece of its packet; only the last one may be short.
PieceOf(g, ps, room) ==
    /\ g.pkt \in 1..Len(ps)
    /\ g.size \in 1..room
    /\ g.start <=> g.from = 0
    /\ g.from + g.size <= Length(ps[g.pkt])
    /\ g.end <=> g.from + g.size = Length(ps[g.pkt])
    /\ ~g.end => g.size = room

\* Page h continues where g ends.
Follows(g, h) ==
    /\ h.at = PageEnd(g)
    /\ g.end => h.pkt = g.pkt + 1 /\ h.from = 0
    /\ ~g.end => h.pkt = g.pkt /\ h.from = g.from + g.size

Pieces == \A i \in 1..Len(pages) : PieceOf(pages[i], posted, Room)
Bounded == \A i \in 1..Len(pages) : PageEnd(pages[i]) <= total
Ordered == \A i, j \in 1..Len(pages) :
               i < j => PageEnd(pages[i]) <= pages[j].at
Chained == \A i \in 1..Len(pages) :
               i + 1 <= Len(pages) => Follows(pages[i], pages[i + 1])
First == IF pages = <<>> THEN total = 0 /\ posted = <<>>
         ELSE pages[1].at = 0 /\ pages[1].pkt = 1 /\ pages[1].from = 0
Last == pages # <<>> =>
            LET z == pages[Len(pages)]
            IN  z.end /\ z.pkt = Len(posted) /\ PageEnd(z) = total

\* What Post has sent: whole packets, one page behind the other.
PagesInv ==
    /\ pages \in Seq(PageRecord)
    /\ Pieces /\ Bounded /\ Ordered /\ Chained /\ First /\ Last

\* A page has room for data, and no packet is empty.
LEMMA Sizes ==
    ASSUME pageMax \in PageSizes, NEW p \in Packet
    PROVE  /\ Room \in Nat /\ Room > 0 /\ Room < SizeMod
           /\ pageMax \in Nat /\ pageMax = Room + Lead
           /\ Length(p) \in Nat /\ Length(p) > 0
BY SizesAssumption, NamesFit DEF Room, Length, Lead, SizeMod

\* What the loop of Post sends, page by page.
LEMMA NewPages ==
    ASSUME pageMax \in PageSizes, total \in Nat, posted \in Seq(Packet),
           NEW p \in Packet, NEW n, n = Count(Length(p)), NEW i \in 1..n,
           NEW g, g = Page(Len(posted) + 1, Length(p), i)
    PROVE  /\ n \in Nat /\ n >= 1
           /\ g \in PageRecord
           /\ PieceOf(g, Append(posted, p), Room)
           /\ PageEnd(g) <= total + Length(p) + n * Lead
           /\ i = 1 => g.at = total /\ g.from = 0
           /\ i = n => g.end /\ PageEnd(g) = total + Length(p) + n * Lead
           /\ g.pkt = Len(posted) + 1 /\ g.at = total + (i - 1) * pageMax
           /\ g.from = (i - 1) * Room /\ (i # n => g.size = Room /\ ~g.end)
<1> DEFINE len == Length(p)
           ps == Append(posted, p)
<1>1. /\ Room \in Nat /\ Room > 0 /\ pageMax \in Nat
      /\ pageMax = Room + Lead /\ len \in Nat /\ len > 0
  BY Sizes
<1>2. n = (len + Room - 1) \div Room
  BY DEF Count
<1>3. /\ g.at = total + (i - 1) * pageMax /\ g.pkt = Len(posted) + 1
      /\ g.from = (i - 1) * Room
      /\ g.size = Least(Room, len - (i - 1) * Room)
      /\ g.start \in BOOLEAN /\ g.end \in BOOLEAN
      /\ g.start <=> i = 1
      /\ g.end <=> i = n
  BY DEF Page
<1> HIDE DEF len
<1>4. n \in Nat /\ n >= 1 /\ i \in Nat /\ i >= 1 /\ i <= n
  <2>1. n \in Nat /\ n >= 1
    BY ONLY <1>1, <1>2, Ceiling
  <2> QED
    BY ONLY <2>1, i \in 1..n
<1>5. /\ g.from \in Nat /\ g.size \in 1..Room
      /\ g.from + g.size <= len
      /\ i = n <=> g.from + g.size = len
      /\ i # n => g.size = Room
      /\ g.from = 0 <=> i = 1
  <2>1. n * Room - Room < len /\ len <= n * Room
    BY ONLY <1>1, <1>2, Ceiling
  <2>2. (i - 1) * Room = i * Room - Room /\ (n - 1) * Room = n * Room - Room
    BY ONLY <1>1, <1>4
  <2>3. i * Room <= n * Room /\ i * Room \in Nat /\ n * Room \in Nat
    BY ONLY <1>1, <1>4, Monotone
  <2>4. i # n => i * Room <= n * Room - Room
    <3>1. i # n => i * Room <= (n - 1) * Room
      BY ONLY <1>1, <1>4, Monotone
    <3> QED
      BY ONLY <2>2, <3>1
  <2>5. Room <= i * Room /\ (i # 1 => Room + Room <= i * Room)
    <3>1. 1 * Room <= i * Room /\ (i # 1 => 2 * Room <= i * Room)
      BY ONLY <1>1, <1>4, Monotone
    <3> QED
      BY ONLY <1>1, <3>1
  <2>6. i = 1 => i * Room = Room
    BY ONLY <1>1
  <2>7. g.from = i * Room - Room
    BY ONLY <1>3, <2>2
  <2>8. g.size = Least(Room, len - (i * Room - Room))
    BY ONLY <1>3, <2>2
  <2> DEFINE x == i * Room
             y == n * Room
  <2>9. /\ x \in Nat /\ y \in Nat /\ y - Room < len /\ len <= y /\ x <= y
        /\ i # n => x <= y - Room
        /\ i = n => x = y
        /\ Room <= x /\ (i # 1 => Room + Room <= x) /\ (i = 1 => x = Room)
        /\ g.from = x - Room /\ g.size = Least(Room, len - (x - Room))
    BY ONLY <2>1, <2>3, <2>4, <2>5, <2>6, <2>7, <2>8
  <2> HIDE DEF x, y
  <2> QED
    BY ONLY <1>1, <1>4, <2>9 DEF Least
<1>6. (i - 1) * pageMax = (i - 1) * Room + (i - 1) * Lead
  BY ONLY <1>1, <1>4 DEF Lead
<1>7. (i - 1) * Room \in Nat /\ (i - 1) * Lead \in Nat
      /\ (i - 1) * Lead + Lead <= n * Lead
      /\ (i = n => (i - 1) * Lead + Lead = n * Lead)
  <2>1. (i - 1) * Room \in Nat
    BY <1>3, <1>5
  <2>2. (i - 1) * Lead \in Nat /\ (i - 1) * Lead + Lead <= n * Lead
        /\ (i = n => (i - 1) * Lead + Lead = n * Lead)
    BY ONLY <1>4 DEF Lead
  <2> QED
    BY <2>1, <2>2
<1>8. g.at \in Nat
  BY <1>3, <1>6, <1>7
<1>9. g \in PageRecord
  <2>1. g = [at |-> g.at, pkt |-> g.pkt, from |-> g.from, size |-> g.size,
             start |-> g.start, end |-> g.end]
    BY DEF Page
  <2>2. g.size \in Nat /\ Len(posted) \in Nat
    BY <1>1, <1>5
  <2> QED
    BY ONLY <1>3, <1>5, <1>8, <2>1, <2>2 DEF PageRecord
<1>10. ps[g.pkt] = p /\ Len(ps) = Len(posted) + 1 /\ g.pkt \in 1..Len(ps)
  BY <1>3
<1>11. PieceOf(g, ps, Room)
  <2>1. Length(ps[g.pkt]) = len
    BY <1>10 DEF len
  <2> QED
    BY ONLY <1>3, <1>5, <1>10, <2>1 DEF PieceOf
<1>12. PageEnd(g) = total + ((i - 1) * Lead + Lead) + (g.from + g.size)
  <2> DEFINE x == (i - 1) * Room
             y == (i - 1) * Lead
  <2>1. x \in Nat /\ y \in Nat /\ g.at = total + (x + y) /\ g.from = x
    BY ONLY <1>3, <1>6, <1>7
  <2> HIDE DEF x, y
  <2>2. g.size \in Nat
    BY ONLY <1>1, <1>5
  <2>3. PageEnd(g) = total + (y + Lead) + (x + g.size)
    BY <2>1, <2>2 DEF PageEnd, Lead
  <2> QED
    BY ONLY <2>1, <2>3 DEF y
<1>13. /\ PageEnd(g) <= total + len + n * Lead
       /\ i = n => PageEnd(g) = total + len + n * Lead
  <2> DEFINE y == (i - 1) * Lead
             z == n * Lead
  <2>1. /\ y \in Nat /\ z \in Nat /\ y + Lead <= z /\ (i = n => y + Lead = z)
        /\ PageEnd(g) = total + (y + Lead) + (g.from + g.size)
    BY ONLY <1>4, <1>7, <1>12 DEF Lead
  <2> HIDE DEF y, z
  <2>2. g.size \in Nat
    BY ONLY <1>1, <1>5
  <2>3. /\ PageEnd(g) <= total + len + z
        /\ i = n => PageEnd(g) = total + len + z
    BY ONLY total \in Nat, <1>1, <1>5, <2>1, <2>2 DEF Lead
  <2> QED
    BY ONLY <2>3 DEF z
<1>14. i = 1 => g.at = total /\ g.from = 0
  <2>1. i = 1 => (i - 1) * pageMax = 0
    BY ONLY <1>1
  <2> QED
    BY ONLY total \in Nat, <1>3, <1>5, <2>1
<1>15. i # n => g.size = Room /\ ~g.end
  BY ONLY <1>3, <1>5
<1> QED
  BY ONLY <1>3, <1>4, <1>9, <1>11, <1>13, <1>14, <1>15 DEF len, ps

\* Posting appends the pages of one more packet.
LEMMA PostPages ==
    ASSUME pageMax \in PageSizes, total \in Nat, posted \in Seq(Packet),
           PagesInv, NEW p \in Packet, Post(p)
    PROVE  /\ PagesInv'
           /\ total' \in Nat /\ total' > total
           /\ Len(pages') > Len(pages)
           /\ \A i \in 1..Len(pages) : pages'[i] = pages[i]
           /\ LET g == pages'[Len(pages) + 1]
              IN  g.at = total /\ g.from = 0 /\ g.pkt = Len(posted) + 1
<1> DEFINE n == Count(Length(p))
           k == Len(posted) + 1
           new == [i \in 1..n |-> Page(k, Length(p), i)]
           L == Len(pages)
<1>1. /\ Room \in Nat /\ Room > 0 /\ pageMax \in Nat
      /\ pageMax = Room + Lead /\ Length(p) \in Nat /\ Length(p) > 0
  BY Sizes
<1>2. /\ posted' = Append(posted, p) /\ Len(posted') = k
      /\ pages' = pages \o new
      /\ total' = total + Length(p) + n * Lead
      /\ Room' = Room
      /\ pageMax' = pageMax
  <2>1. posted' = Append(posted, p) /\ pageMax' = pageMax
    BY DEF Post
  <2>2. Len(posted') = k
    BY <2>1
  <2>3. pages' = pages \o [i \in 1..n |-> Page(Len(posted'), Length(p), i)]
    BY DEF Post
  <2>4. pages' = pages \o new
    BY <2>2, <2>3
  <2>5. total' = total + Length(p) + n * Lead
    BY DEF Post
  <2>6. Room' = Room
    BY <2>1 DEF Room
  <2> QED
    BY <2>1, <2>2, <2>4, <2>5, <2>6
<1>3. n \in Nat /\ n >= 1
  BY ONLY <1>1, Ceiling DEF Count
<1>4. ASSUME NEW i \in 1..n
      PROVE  LET g == new[i]
             IN  /\ g \in PageRecord
                 /\ PieceOf(g, posted', Room)
                 /\ PageEnd(g) <= total'
                 /\ i = 1 => g.at = total /\ g.from = 0
                 /\ i = n => g.end /\ PageEnd(g) = total'
                 /\ g.pkt = k /\ g.at = total + (i - 1) * pageMax
                 /\ g.from = (i - 1) * Room
                 /\ i # n => g.size = Room /\ ~g.end
  <2>1. new[i] = Page(k, Length(p), i)
    OBVIOUS
  <2> HIDE DEF new
  <2> QED
    BY <1>2, <2>1, NewPages
<1> HIDE DEF n, new
<1>5. new \in Seq(PageRecord) /\ Len(new) = n
  <2>1. \A i \in 1..n : new[i] \in PageRecord
    BY <1>4
  <2>2. new = [i \in 1..n |-> new[i]]
    BY DEF new
  <2> QED
    BY <1>3, <2>1, <2>2
<1>6. /\ pages' \in Seq(PageRecord) /\ Len(pages') = L + n /\ L \in Nat
      /\ \A i \in 1..L : pages'[i] = pages[i]
      /\ \A i \in 1..n : pages'[L + i] = new[i]
  <2>1. pages \in Seq(PageRecord)
    BY DEF PagesInv
  <2>2. /\ pages' \in Seq(PageRecord) /\ Len(pages') = L + n
        /\ \A i \in 1..(L + n) :
               pages'[i] = IF i <= L THEN pages[i] ELSE new[i - L]
    BY ONLY <1>2, <1>5, <2>1, ConcatProperties
  <2>3. L \in Nat
    BY <2>1
  <2> HIDE DEF L
  <2> QED
    BY ONLY <1>3, <2>2, <2>3
<1> HIDE DEF L
<1>7. total' \in Nat /\ total' > total
  <2>1. n * Lead \in Nat
    BY ONLY <1>3 DEF Lead
  <2> QED
    BY ONLY total \in Nat, <1>1, <1>2, <2>1
<1>8. \A i \in 1..(L + n) : i \in 1..L \/ (i - L \in 1..n /\ i = L + (i - L))
  BY ONLY <1>3, <1>6
<1>9. \A i \in 1..(L + n) : i > L => pages'[i] = new[i - L] /\ i - L \in 1..n
  <2> SUFFICES ASSUME NEW i \in 1..(L + n), i > L
               PROVE  pages'[i] = new[i - L] /\ i - L \in 1..n
    OBVIOUS
  <2>1. i - L \in 1..n /\ L + (i - L) = i
    BY ONLY <1>3, <1>6, i > L, i \in 1..(L + n)
  <2>2. pages'[L + (i - L)] = new[i - L]
    BY ONLY <1>6, <2>1
  <2> QED
    BY ONLY <2>1, <2>2
<1>10. Pieces'
  <2> SUFFICES ASSUME NEW i \in 1..(L + n)
               PROVE  PieceOf(pages'[i], posted', Room)
    BY <1>2, <1>6 DEF Pieces
  <2>1. CASE i \in 1..L
    <3>1. PieceOf(pages[i], posted, Room) /\ pages[i] \in PageRecord
      BY <2>1 DEF PagesInv, Pieces, L
    <3>2. pages[i].pkt \in 1..Len(posted)
      BY ONLY <3>1 DEF PieceOf
    <3>3. posted'[pages[i].pkt] = posted[pages[i].pkt]
      BY <1>2, <3>2
    <3>4. pages[i].pkt \in 1..Len(posted')
      BY <1>2, <3>2
    <3> QED
      BY ONLY <1>2, <1>6, <2>1, <3>1, <3>3, <3>4 DEF PieceOf
  <2>2. CASE i > L
    BY ONLY <1>4, <1>9, <2>2, i \in 1..(L + n)
  <2> QED
    BY <1>6, <2>1, <2>2
<1>11. \A i \in 1..L : /\ pages[i] \in PageRecord /\ pages[i].at \in Nat
                       /\ PageEnd(pages[i]) \in Nat
                       /\ PageEnd(pages[i]) <= total
  <2>1. pages \in Seq(PageRecord) /\ Bounded
    BY DEF PagesInv
  <2>2. \A i \in 1..L : pages[i] \in PageRecord /\ PageEnd(pages[i]) <= total
    BY ONLY <2>1 DEF Bounded, L
  <2>3. \A i \in 1..L : pages[i].at \in Nat /\ pages[i].size \in Nat
    BY ONLY <2>2 DEF PageRecord
  <2> QED
    BY ONLY <2>2, <2>3 DEF PageEnd, Lead
<1>12. \A i \in 1..n : /\ new[i].at \in Nat /\ new[i].size \in Nat
                       /\ PageEnd(new[i]) \in Nat
                       /\ new[i].at >= total
                       /\ i # 1 => new[i].at > total
  <2> SUFFICES ASSUME NEW i \in 1..n
               PROVE  /\ new[i].at \in Nat /\ new[i].size \in Nat
                      /\ PageEnd(new[i]) \in Nat
                      /\ new[i].at >= total
                      /\ i # 1 => new[i].at > total
    OBVIOUS
  <2>1. new[i] \in PageRecord /\ new[i].at = total + (i - 1) * pageMax
    BY ONLY <1>4, i \in 1..n
  <2>2. new[i].at \in Nat /\ new[i].size \in Nat
    BY ONLY <2>1 DEF PageRecord
  <2>3. (i - 1) * pageMax \in Nat /\ (i # 1 => (i - 1) * pageMax >= pageMax)
    <3>1. i # 1 => 1 * pageMax <= (i - 1) * pageMax
      BY ONLY <1>1, <1>3, i \in 1..n, Monotone
    <3>2. (i - 1) * pageMax \in Nat
      BY ONLY <1>1, <1>3, i \in 1..n, Monotone
    <3> QED
      BY ONLY <1>1, <3>1, <3>2
  <2>4. pageMax > 0
    BY ONLY <1>1 DEF Lead
  <2> DEFINE x == (i - 1) * pageMax
  <2>5. x \in Nat /\ (i # 1 => x >= pageMax) /\ new[i].at = total + x
    BY ONLY <2>1, <2>3
  <2> HIDE DEF x
  <2> QED
    BY ONLY total \in Nat, <1>1, <2>2, <2>4, <2>5 DEF PageEnd, Lead
<1>13. \A i \in 1..n : i # n => /\ PageEnd(new[i]) = total + i * pageMax
                                /\ i + 1 \in 1..n
                                /\ Follows(new[i], new[i + 1])
  <2> SUFFICES ASSUME NEW i \in 1..n, i # n
               PROVE  /\ PageEnd(new[i]) = total + i * pageMax
                      /\ i + 1 \in 1..n
                      /\ Follows(new[i], new[i + 1])
    OBVIOUS
  <2>1. i \in Nat /\ i + 1 \in 1..n /\ (i + 1) - 1 = i
    BY ONLY <1>3, i \in 1..n, i # n
  <2>2. /\ new[i].at = total + (i - 1) * pageMax /\ new[i].size = Room
        /\ ~new[i].end /\ new[i].pkt = k /\ new[i].from = (i - 1) * Room
    BY ONLY <1>4, i \in 1..n, i # n
  <2>3. /\ new[i + 1].at = total + i * pageMax /\ new[i + 1].pkt = k
        /\ new[i + 1].from = i * Room
    BY ONLY <1>4, <2>1
  <2>4. /\ (i - 1) * pageMax = i * pageMax - pageMax
        /\ (i - 1) * Room = i * Room - Room
        /\ i * pageMax \in Nat /\ i * Room \in Nat
    BY ONLY <1>1, <2>1, Monotone
  <2> DEFINE x == i * pageMax
             y == i * Room
  <2>5. /\ x \in Nat /\ y \in Nat
        /\ new[i].at = total + (x - pageMax) /\ new[i].from = y - Room
        /\ new[i + 1].at = total + x /\ new[i + 1].from = y
    BY ONLY <2>2, <2>3, <2>4
  <2> HIDE DEF x, y
  <2>6. PageEnd(new[i]) = total + x
    <3>1. new[i].size = Room
      BY ONLY <2>2
    <3> QED
      BY ONLY total \in Nat, <1>1, <2>5, <3>1 DEF PageEnd, Lead
  <2>7. new[i + 1].from = new[i].from + new[i].size
    BY ONLY <1>1, <2>2, <2>5
  <2>8. Follows(new[i], new[i + 1])
    BY ONLY <2>2, <2>3, <2>5, <2>6, <2>7, Zenon DEF Follows
  <2>9. PageEnd(new[i]) = total + i * pageMax
    BY ONLY <2>6 DEF x
  <2> QED
    BY ONLY <2>1, <2>8, <2>9
<1>14. Bounded'
  <2> SUFFICES ASSUME NEW i \in 1..(L + n)
               PROVE  PageEnd(pages'[i]) <= total'
    BY <1>6 DEF Bounded, PageEnd
  <2>1. CASE i \in 1..L
    BY ONLY total \in Nat, <1>6, <1>7, <1>11, <2>1
  <2>2. CASE i > L
    BY ONLY <1>4, <1>9, <2>2, i \in 1..(L + n)
  <2> QED
    BY <1>6, <2>1, <2>2
<1>15. ASSUME NEW a \in 1..n, NEW b \in 1..n, a < b
       PROVE  PageEnd(new[a]) <= new[b].at
  <2>1. a # n /\ a \in Nat /\ b - 1 \in Nat /\ a <= b - 1
    BY ONLY <1>3, a \in 1..n, b \in 1..n, a < b
  <2>2. PageEnd(new[a]) = total + a * pageMax
    BY ONLY <1>13, <2>1, a \in 1..n
  <2>3. new[b].at = total + (b - 1) * pageMax
    BY ONLY <1>4, b \in 1..n
  <2>4. /\ a * pageMax \in Nat /\ (b - 1) * pageMax \in Nat
        /\ a * pageMax <= (b - 1) * pageMax
    BY ONLY <1>1, <2>1, Monotone
  <2> DEFINE x == a * pageMax
             y == (b - 1) * pageMax
  <2>5. /\ x \in Nat /\ y \in Nat /\ x <= y
        /\ PageEnd(new[a]) = total + x /\ new[b].at = total + y
    BY ONLY <2>2, <2>3, <2>4
  <2> HIDE DEF x, y
  <2> QED
    BY ONLY <2>5, total \in Nat
<1>16. Ordered'
  <2> SUFFICES ASSUME NEW i \in 1..(L + n), NEW j \in 1..(L + n), i < j
               PROVE  PageEnd(pages'[i]) <= pages'[j].at
    BY <1>6 DEF Ordered, PageEnd
  <2>1. CASE j \in 1..L
    <3>1. i \in 1..L
      BY ONLY <1>3, <1>6, <2>1, i \in 1..(L + n), i < j
    <3>2. PageEnd(pages[i]) <= pages[j].at
      BY <2>1, <3>1 DEF PagesInv, Ordered, L
    <3> QED
      BY ONLY <1>6, <2>1, <3>1, <3>2
  <2>2. CASE i \in 1..L /\ j > L
    <3>1. PageEnd(pages[i]) <= total /\ PageEnd(pages[i]) \in Nat
      BY ONLY <1>11, <2>2
    <3>2. pages'[j].at \in Nat /\ pages'[j].at >= total
      BY ONLY <1>9, <1>12, <2>2, j \in 1..(L + n)
    <3>3. pages'[i] = pages[i]
      BY ONLY <1>6, <2>2
    <3> QED
      BY ONLY <3>1, <3>2, <3>3, total \in Nat
  <2>3. CASE i > L
    <3>1. j > L /\ i - L < j - L
      BY ONLY <1>3, <1>6, <2>3, i \in 1..(L + n), j \in 1..(L + n), i < j
    <3>2. /\ pages'[i] = new[i - L] /\ i - L \in 1..n
          /\ pages'[j] = new[j - L] /\ j - L \in 1..n
      BY ONLY <1>9, <2>3, <3>1, i \in 1..(L + n), j \in 1..(L + n)
    <3> QED
      BY ONLY <1>15, <3>1, <3>2
  <2> QED
    BY ONLY <1>3, <1>6, <2>1, <2>2, <2>3, i \in 1..(L + n), j \in 1..(L + n)
<1>17. L + 1 \in 1..(L + n) /\ pages'[L + 1] = new[1] /\ 1 \in 1..n
       /\ pages'[L + n] = new[n] /\ n \in 1..n
  BY ONLY <1>3, <1>6
<1>18. Chained'
  <2> SUFFICES ASSUME NEW i \in 1..(L + n), i + 1 <= L + n
               PROVE  Follows(pages'[i], pages'[i + 1])
    BY <1>6 DEF Chained, Follows, PageEnd
  <2>1. CASE i + 1 <= L
    <3>1. i \in 1..L /\ i + 1 \in 1..L
      BY ONLY <1>3, <1>6, <2>1, i \in 1..(L + n)
    <3>2. Follows(pages[i], pages[i + 1])
      BY <2>1, <3>1 DEF PagesInv, Chained, L
    <3> QED
      BY ONLY <1>6, <3>1, <3>2
  <2>2. CASE i = L
    <3>1. L \in 1..L
      BY ONLY <1>3, <1>6, <2>2, i \in 1..(L + n)
    <3>2. /\ pages[L].end /\ pages[L].pkt = Len(posted)
          /\ PageEnd(pages[L]) = total
      <4>1. pages # <<>>
        BY <3>1 DEF L
      <4> QED
        BY <4>1 DEF PagesInv, Last, L
    <3>3. new[1].at = total /\ new[1].from = 0 /\ new[1].pkt = k
      BY ONLY <1>4, <1>17
    <3>4. Follows(pages[L], new[1])
      BY ONLY <3>2, <3>3 DEF Follows
    <3> QED
      BY ONLY <1>6, <1>17, <2>2, <3>1, <3>4
  <2>3. CASE i > L
    <3>1. /\ i + 1 > L /\ i - L # n /\ (i + 1) - L = (i - L) + 1
          /\ i + 1 \in 1..(L + n)
      BY ONLY <1>3, <1>6, <2>3, i \in 1..(L + n), i + 1 <= L + n
    <3>2. /\ pages'[i] = new[i - L] /\ i - L \in 1..n
          /\ pages'[i + 1] = new[(i - L) + 1]
      BY ONLY <1>9, <2>3, <3>1, i \in 1..(L + n)
    <3> QED
      BY ONLY <1>13, <3>1, <3>2
  <2> QED
    BY ONLY <1>3, <1>6, <2>1, <2>2, <2>3, i \in 1..(L + n)
<1>19. pages' # <<>>
  BY <1>3, <1>6
<1>20. First'
  <2>1. CASE L = 0
    <3>1. pages = <<>>
      BY <2>1 DEF L, PagesInv
    <3>2. total = 0 /\ posted = <<>>
      BY <3>1 DEF PagesInv, First
    <3>3. k = 1
      BY <3>2
    <3>4. pages'[1] = new[1]
      BY ONLY <1>17, <2>1
    <3>5. new[1].at = total /\ new[1].from = 0 /\ new[1].pkt = k
      BY ONLY <1>4, <1>17
    <3> QED
      BY <1>19, <3>2, <3>3, <3>4, <3>5 DEF First
  <2>2. CASE L # 0
    <3>1. 1 \in 1..L /\ pages # <<>>
      BY <1>6, <2>2 DEF L
    <3> QED
      BY <1>6, <1>19, <3>1 DEF PagesInv, First
  <2> QED
    BY <2>1, <2>2
<1>21. Last'
  <2>1. new[n].end /\ new[n].pkt = k /\ PageEnd(new[n]) = total'
    BY ONLY <1>4, <1>17
  <2>2. pages'[Len(pages')] = new[n]
    BY ONLY <1>6, <1>17
  <2> QED
    BY ONLY <1>2, <2>1, <2>2 DEF Last, PageEnd
<1>22. PagesInv'
  BY <1>6, <1>10, <1>14, <1>16, <1>18, <1>20, <1>21 DEF PagesInv
<1>23. new[1].at = total /\ new[1].from = 0 /\ new[1].pkt = k
  BY ONLY <1>4, <1>17
<1> QED
  BY <1>3, <1>6, <1>7, <1>17, <1>22, <1>23 DEF L

-----------------------------------------------------------------------------
(* The parser.                                                             *)

\* Where the next page that is not passed over begins.
Target == IF state = "skip" THEN pos + leading.size ELSE pos

\* Before byte "from" of packet k: m is the page size, l the last packet that
\* arrived, b the receive buffer.
Ready(m, k, from, l, b) ==
    IF m <= Capacity
    THEN /\ l = k - 1
         /\ b = IF from = 0 THEN NoBuf
                ELSE [pkt |-> k, size |-> from, good |-> TRUE]
    ELSE l < k /\ b = NoBuf

\* The receive buffer is ready for the page that the parser comes to.
Expect ==
    \/ \E j \in 1..Len(pages) :
           /\ pages[j].at = Target
           /\ Ready(pageMax, pages[j].pkt, pages[j].from, last, recvBuf)
    \/ Target = total /\ Ready(pageMax, Len(posted) + 1, 0, last, recvBuf)

\* The page whose body is awaited fits the stream buffer.
BodyInv ==
    state = "body" =>
        /\ Lead + leading.size <= Capacity
        /\ \E i \in 1..Len(pages) :
               pages[i].at = pos /\ LeadingOf(pages[i]) = leading

\* Only a peer whose pages do not fit has pages skipped, and a read that
\* ends while one is skipped leaves something to skip.
SkipInv ==
    state = "skip" => /\ leading.size >= 1 /\ pageMax > Capacity
                      /\ step = "decode" => pos < read

\* A read is offered room.
RoomInv == step \in {"read", "down"} => Remains < Capacity

\* DecodeStream throws for a page whose body it has, and drops the packet.
ThrownInv == step = "thrown" => state = "body" /\ recvBuf = NoBuf

\* Until DecodeStream throws, the parser is where a page begins.
ExpectInv == step # "thrown" => Expect

\* The inductive invariant of the framing.
FramingInv ==
    /\ TypeOK /\ PagesInv
    /\ BodyInv /\ SkipInv /\ RoomInv /\ ThrownInv /\ ExpectInv
    /\ ThrowsForCause

\* A page of the stream.
LEMMA PageFacts ==
    ASSUME TypeOK, PagesInv, NEW i \in 1..Len(pages), NEW g, g = pages[i]
    PROVE  /\ g \in PageRecord
           /\ g.at \in Nat /\ g.pkt \in Nat /\ g.from \in Nat /\ g.size \in Nat
           /\ g.start \in BOOLEAN /\ g.end \in BOOLEAN
           /\ PieceOf(g, posted, Room)
           /\ PageEnd(g) <= total /\ PageEnd(g) \in Nat
           /\ Room \in Nat /\ Room < SizeMod /\ pageMax = Room + Lead
           /\ g.size >= 1 /\ g.size <= Room
<1>1. g \in PageRecord /\ PieceOf(g, posted, Room) /\ PageEnd(g) <= total
  BY DEF PagesInv, Pieces, Bounded
<1>2. /\ g.at \in Nat /\ g.pkt \in Nat /\ g.from \in Nat /\ g.size \in Nat
      /\ g.start \in BOOLEAN /\ g.end \in BOOLEAN
  BY ONLY <1>1, Zenon DEF PageRecord
<1>3. PageEnd(g) \in Nat
  BY ONLY <1>2 DEF PageEnd, Lead
<1>4. /\ g.pkt \in 1..Len(posted) /\ posted \in Seq(Packet)
      /\ pageMax \in PageSizes
  BY <1>1 DEF PieceOf, TypeOK
<1>5. posted[g.pkt] \in Packet
  BY <1>4
<1>6. Room \in Nat /\ Room < SizeMod /\ pageMax = Room + Lead
  BY <1>4, <1>5, Sizes
<1>7. g.size \in 1..Room
  BY ONLY <1>1 DEF PieceOf
<1> QED
  BY ONLY <1>1, <1>2, <1>3, <1>6, <1>7

\* No two pages begin at one byte.
LEMMA SameStart ==
    ASSUME TypeOK, PagesInv,
           NEW i \in 1..Len(pages), NEW j \in 1..Len(pages),
           pages[i].at = pages[j].at
    PROVE  i = j
<1>1. ASSUME NEW a \in 1..Len(pages), NEW b \in 1..Len(pages), a < b
      PROVE  pages[a].at # pages[b].at
  <2>1. PageEnd(pages[a]) <= pages[b].at
    BY <1>1 DEF PagesInv, Ordered
  <2>2. pages[a].at \in Nat /\ pages[b].at \in Nat /\ pages[a].size \in Nat
    BY PageFacts
  <2> QED
    BY ONLY <2>1, <2>2, SMTT(30) DEF PageEnd, Lead
<1>2. i \in Int /\ j \in Int
  BY DEF PagesInv
<1> QED
  BY <1>1, <1>2

\* Behind page i begins the next one, or all that was sent is passed.
LEMMA Advance ==
    ASSUME TypeOK, PagesInv, NEW i \in 1..Len(pages), UNCHANGED sender,
           Target' = PageEnd(pages[i]),
           pages[i].end => Ready(pageMax, pages[i].pkt + 1, 0, last', recvBuf'),
           ~pages[i].end => Ready(pageMax, pages[i].pkt,
                                  pages[i].from + pages[i].size, last', recvBuf')
    PROVE  Expect'
<1>1. pages' = pages /\ total' = total /\ posted' = posted /\ pageMax' = pageMax
  BY DEF sender
<1>2. CASE i = Len(pages)
  <2>1. /\ pages[i].end /\ pages[i].pkt = Len(posted)
        /\ PageEnd(pages[i]) = total
    <3>1. pages # <<>>
      BY DEF PagesInv
    <3> QED
      BY <1>2, <3>1 DEF PagesInv, Last
  <2>2. Ready(pageMax, Len(posted) + 1, 0, last', recvBuf')
    BY <2>1
  <2> QED
    BY ONLY <1>1, <2>1, <2>2, Target' = PageEnd(pages[i]) DEF Expect, Ready
<1>3. CASE i # Len(pages)
  <2>1. i + 1 \in 1..Len(pages)
    BY <1>3 DEF PagesInv
  <2>2. Follows(pages[i], pages[i + 1])
    BY <2>1 DEF PagesInv, Chained
  <2>3. pages[i + 1].at = PageEnd(pages[i])
    BY ONLY <2>2 DEF Follows
  <2>4. pages[i].end \in BOOLEAN
    BY PageFacts
  <2>5. Ready(pageMax, pages[i + 1].pkt, pages[i + 1].from, last', recvBuf')
    BY <2>2, <2>4 DEF Follows
  <2> QED
    BY ONLY <1>1, <2>1, <2>3, <2>5, Target' = PageEnd(pages[i])
    DEF Expect, Ready
<1> QED
  BY <1>2, <1>3

\* The page at which the parser stands is the one it expects.
LEMMA Here ==
    ASSUME TypeOK, PagesInv, Expect, NEW i \in 1..Len(pages),
           pages[i].at = Target
    PROVE  Ready(pageMax, pages[i].pkt, pages[i].from, last, recvBuf)
<1>1. CASE Target = total
  <2>1. /\ pages[i].at \in Nat /\ pages[i].size \in Nat
        /\ PageEnd(pages[i]) <= total /\ total \in Nat
    BY PageFacts DEF TypeOK
  <2> QED
    BY ONLY <1>1, <2>1, pages[i].at = Target DEF PageEnd, Lead
<1>2. CASE \E j \in 1..Len(pages) :
               /\ pages[j].at = Target
               /\ Ready(pageMax, pages[j].pkt, pages[j].from, last, recvBuf)
  BY <1>2, SameStart
<1> QED
  BY <1>1, <1>2 DEF Expect

-----------------------------------------------------------------------------
(* One lemma for each step.                                                *)

\* Post adds pages behind those that the parser has seen.
LEMMA PostStep ==
    ASSUME FramingInv, NEW p \in Packet, Post(p)
    PROVE  FramingInv'
<1>1. /\ TypeOK /\ PagesInv /\ BodyInv /\ SkipInv /\ RoomInv /\ ThrownInv
      /\ ExpectInv /\ ThrowsForCause
  BY DEF FramingInv
<1>2. /\ pageMax \in PageSizes /\ posted \in Seq(Packet) /\ total \in Nat
      /\ pos \in Nat /\ read \in pos..total
  BY <1>1 DEF TypeOK
<1>3. /\ PagesInv' /\ total' \in Nat /\ total' > total
      /\ Len(pages') > Len(pages)
      /\ \A i \in 1..Len(pages) : pages'[i] = pages[i]
      /\ pages'[Len(pages) + 1].at = total
      /\ pages'[Len(pages) + 1].from = 0
      /\ pages'[Len(pages) + 1].pkt = Len(posted) + 1
  BY <1>1, <1>2, PostPages
<1>4. /\ posted' = Append(posted, p)
      /\ UNCHANGED <<pageMax, read, pos, step, state, leading, recvBuf, last,
                     got>>
  BY DEF Post, parser
<1>5. /\ Len(pages) \in Nat /\ Len(pages') \in Nat
      /\ DOMAIN pages' = 1..Len(pages')
  BY <1>1, <1>3 DEF PagesInv
<1>6. /\ posted' \in Seq(Packet) /\ Len(posted') = Len(posted) + 1
      /\ Len(posted) \in Nat
      /\ \A i \in 1..Len(posted) : posted'[i] = posted[i]
  BY ONLY <1>2, <1>4, p \in Packet
<1>7. TypeOK'
  <2>1. \A i \in DOMAIN pages' : pages'[i].size \in 1..(pageMax' - Lead)
    BY <1>3, <1>5 DEF PagesInv, Pieces, PieceOf, Room
  <2>2. read' \in pos'..total' /\ pos' \in Nat
    BY ONLY <1>2, <1>3, <1>4
  <2>3. last' \in 0..Len(posted')
    BY <1>1, <1>4, <1>6 DEF TypeOK
  <2>4. Remains' <= Capacity
    BY <1>1, <1>4 DEF TypeOK, Remains
  <2> QED
    BY <1>1, <1>3, <1>4, <1>6, <2>1, <2>2, <2>3, <2>4 DEF TypeOK
<1>8. \A i \in 1..Len(pages) : i \in 1..Len(pages')
  BY ONLY <1>3, <1>5
<1>9. BodyInv'
  BY <1>1, <1>3, <1>4, <1>8 DEF BodyInv, LeadingOf
<1>10. SkipInv' /\ RoomInv' /\ ThrownInv'
  BY <1>1, <1>4 DEF SkipInv, RoomInv, ThrownInv, Remains
<1>11. ExpectInv'
  <2> SUFFICES ASSUME step' # "thrown" PROVE Expect'
    BY DEF ExpectInv
  <2>1. Expect
    BY <1>1, <1>4 DEF ExpectInv
  <2>2. Target' = Target
    BY <1>4 DEF Target
  <2>3. CASE Target = total /\ Ready(pageMax, Len(posted) + 1, 0, last, recvBuf)
    <3>1. Len(pages) + 1 \in 1..Len(pages')
      BY ONLY <1>3, <1>5
    <3> QED
      BY ONLY <1>3, <1>4, <2>2, <2>3, <3>1 DEF Expect, Ready
  <2>4. ASSUME NEW j \in 1..Len(pages), pages[j].at = Target,
               Ready(pageMax, pages[j].pkt, pages[j].from, last, recvBuf)
        PROVE  Expect'
    <3>1. j \in 1..Len(pages') /\ pages'[j] = pages[j]
      BY <1>3, <1>8
    <3> QED
      BY ONLY <1>4, <2>2, <2>4, <3>1 DEF Expect, Ready
  <2> QED
    BY <2>1, <2>3, <2>4 DEF Expect
<1>12. ThrowsForCause'
  <2> SUFFICES ASSUME step' = "thrown", pageMax' <= Capacity
               PROVE  \E i \in 1..Len(posted') :
                          \/ posted'[i].name % NameMod = 0
                          \/ Length(posted'[i]) > RecvCap
    BY <1>6 DEF ThrowsForCause, Length
  <2>1. PICK i \in 1..Len(posted) :
            posted[i].name % NameMod = 0 \/ Length(posted[i]) > RecvCap
    BY <1>1, <1>2, <1>4 DEF ThrowsForCause
  <2>2. i \in 1..Len(posted') /\ posted'[i] = posted[i]
    BY <1>6
  <2> QED
    BY ONLY <2>1, <2>2
<1> QED
  BY <1>3, <1>7, <1>9, <1>10, <1>11, <1>12 DEF FramingInv

\* What a step that sends nothing keeps.
LEMMA SenderIdle ==
    ASSUME FramingInv, UNCHANGED sender
    PROVE  /\ PagesInv'
           /\ pageMax' \in PageSizes
           /\ posted' \in Seq(Packet) /\ total' \in Nat
           /\ \A i \in DOMAIN pages' : pages'[i].size \in 1..(pageMax' - Lead)
<1>1. pages' = pages /\ total' = total /\ posted' = posted /\ pageMax' = pageMax
  BY DEF sender
<1>2. PagesInv'
  BY <1>1 DEF FramingInv, PagesInv, Pieces, Bounded, Ordered, Chained, First,
              Last, Room, PageEnd, Follows, PieceOf, Length
<1> QED
  BY <1>1, <1>2 DEF FramingInv, TypeOK

\* Steps that leave the parser where it is.
LEMMA Standing ==
    ASSUME FramingInv, UNCHANGED <<sender, pos, parser, recvBuf, last, got>>,
           step # "thrown", step' # "thrown"
    PROVE  PagesInv' /\ BodyInv' /\ ThrownInv' /\ ExpectInv' /\ ThrowsForCause'
<1>1. /\ pages' = pages /\ total' = total /\ posted' = posted
      /\ pageMax' = pageMax /\ pos' = pos /\ state' = state
      /\ leading' = leading /\ recvBuf' = recvBuf /\ last' = last
  BY DEF sender, parser
<1>2. PagesInv'
  BY SenderIdle
<1>3. BodyInv'
  BY <1>1 DEF FramingInv, BodyInv
<1>4. Expect
  BY DEF FramingInv, ExpectInv
<1>5. Expect'
  BY ONLY <1>1, <1>4 DEF Expect, Target, Ready
<1> QED
  BY <1>2, <1>3, <1>5 DEF ThrownInv, ExpectInv, ThrowsForCause

\* AsyncReadLoop commits bytes.
LEMMA ReadStep ==
    ASSUME FramingInv, NEW n \in 1..Capacity, Read(n)
    PROVE  FramingInv'
<1>1. /\ step = "read" /\ step' = "decode" /\ n \in 1..(total - read)
      /\ n <= Capacity - (read - pos) /\ read' = read + n
      /\ UNCHANGED <<sender, pos, parser, recvBuf, last, got>>
  BY DEF Read
<1>2. PagesInv' /\ BodyInv' /\ ThrownInv' /\ ExpectInv' /\ ThrowsForCause'
  BY <1>1, Standing
<1>3. TypeOK
  BY DEF FramingInv
<1>4. /\ pos \in Nat /\ read \in pos..total /\ total \in Nat
      /\ Capacity \in Nat
  BY <1>3, SizesAssumption DEF TypeOK
<1>5. /\ pos' \in Nat /\ read' \in pos'..total' /\ Remains' <= Capacity
      /\ pos' < read'
  BY <1>1, <1>4 DEF Remains, sender
<1>6. TypeOK'
  BY <1>1, <1>3, <1>5, SenderIdle DEF TypeOK, sender, parser
<1>7. SkipInv' /\ RoomInv'
  BY <1>1, <1>5 DEF FramingInv, SkipInv, RoomInv, sender, parser
<1> QED
  BY <1>2, <1>6, <1>7 DEF FramingInv

\* ConsumeFramePage waits for more; the page it waits for fits.
LEMMA HungryStep ==
    ASSUME FramingInv, Hungry
    PROVE  FramingInv'
<1>1. /\ step = "decode" /\ step' = "read" /\ read' = read
      /\ UNCHANGED <<sender, pos, parser, recvBuf, last, got>>
  BY DEF Hungry, Halt
<1>2. PagesInv' /\ BodyInv' /\ ThrownInv' /\ ExpectInv' /\ ThrowsForCause'
  BY <1>1, Standing
<1>3. TypeOK /\ BodyInv
  BY DEF FramingInv
<1>4. /\ pos \in Nat /\ read \in pos..total /\ total \in Nat
      /\ leading.size \in Nat /\ Capacity \in Nat /\ Capacity > Lead
  <2>1. leading.size \in 0..(SizeMod - 1)
    BY <1>3 DEF TypeOK
  <2>2. leading.size \in Nat
    BY ONLY <2>1
  <2> QED
    BY <1>3, <2>2, SizesAssumption DEF TypeOK
<1>5. Remains < Capacity
  <2>1. CASE state = "leading" /\ Remains < Lead
    BY <1>4, <2>1 DEF Remains, Lead
  <2>2. CASE state = "body" /\ Remains < Lead + leading.size
    <3>1. Lead + leading.size <= Capacity
      BY <1>3, <2>2 DEF BodyInv
    <3> QED
      BY <1>4, <2>2, <3>1 DEF Remains, Lead
  <2> QED
    BY <2>1, <2>2 DEF Hungry
<1>6. TypeOK'
  BY <1>1, <1>3, SenderIdle DEF TypeOK, Remains, sender, parser
<1>7. SkipInv' /\ RoomInv'
  BY <1>1, <1>5 DEF FramingInv, SkipInv, RoomInv, Remains, sender, parser
<1> QED
  BY <1>2, <1>6, <1>7 DEF FramingInv

\* A read fails.
LEMMA LoseStep ==
    ASSUME FramingInv, Lose
    PROVE  FramingInv'
<1>1. /\ step = "read" /\ step' = "lost" /\ read' = read
      /\ UNCHANGED <<sender, pos, parser, recvBuf, last, got>>
  BY DEF Lose
<1>2. PagesInv' /\ BodyInv' /\ ThrownInv' /\ ExpectInv' /\ ThrowsForCause'
  BY <1>1, Standing
<1>3. TypeOK'
  BY <1>1, SenderIdle DEF FramingInv, TypeOK, Remains, sender, parser
<1>4. SkipInv' /\ RoomInv'
  BY <1>1 DEF FramingInv, SkipInv, RoomInv, Remains, sender, parser
<1> QED
  BY <1>2, <1>3, <1>4 DEF FramingInv

\* OnLowLevelConnect starts the read loop.
LEMMA ConnectStep ==
    ASSUME FramingInv, Connect
    PROVE  FramingInv'
<1>1. /\ step = "down" /\ step' = "read" /\ read' = read
      /\ UNCHANGED <<sender, pos, parser, recvBuf, last, got>>
  BY DEF Connect
<1>2. PagesInv' /\ BodyInv' /\ ThrownInv' /\ ExpectInv' /\ ThrowsForCause'
  BY <1>1, Standing
<1>3. TypeOK'
  BY <1>1, SenderIdle DEF FramingInv, TypeOK, Remains, sender, parser
<1>4. SkipInv' /\ RoomInv'
  BY <1>1 DEF FramingInv, SkipInv, RoomInv, Remains, sender, parser
<1> QED
  BY <1>2, <1>3, <1>4 DEF FramingInv

\* A connection that is not up yet, after Init or after an error.
Unused ==
    /\ pageMax \in PageSizes
    /\ posted = <<>> /\ pages = <<>> /\ total = 0 /\ read = 0 /\ pos = 0
    /\ step = "down" /\ state = "leading"
    /\ leading \in [start : BOOLEAN, end : BOOLEAN, size : 0..(SizeMod - 1)]
    /\ recvBuf = NoBuf /\ last = 0 /\ got = <<>>

\* FramingInv holds of a connection that is not up.
LEMMA UnusedInv == Unused => FramingInv
<1> SUFFICES ASSUME Unused PROVE FramingInv
  OBVIOUS
<1> USE DEF Unused
<1>1. pages \in Seq(PageRecord) /\ Len(pages) = 0 /\ posted \in Seq(Packet)
      /\ Len(posted) = 0 /\ got \in Seq([name : Nat, body : Nat])
  OBVIOUS
<1>2. PagesInv
  BY <1>1 DEF PagesInv, Pieces, Bounded, Ordered, Chained, First, Last
<1>3. recvBuf \in [pkt : Nat, size : Nat, good : BOOLEAN]
  BY Zenon DEF NoBuf
<1>4. TypeOK
  BY <1>1, <1>3, SizesAssumption DEF TypeOK, Remains
<1>5. Ready(pageMax, Len(posted) + 1, 0, last, recvBuf)
  BY <1>1 DEF Ready
<1>6. BodyInv /\ SkipInv /\ ThrownInv /\ ThrowsForCause
  BY DEF BodyInv, SkipInv, ThrownInv, ThrowsForCause
<1>7. RoomInv
  BY SizesAssumption DEF RoomInv, Remains, Lead
<1>8. ExpectInv
  BY <1>5 DEF ExpectInv, Expect, Target
<1> QED
  BY <1>2, <1>4, <1>6, <1>7, <1>8 DEF FramingInv

\* FramingInv holds in the initial states.
LEMMA Start == Init => FramingInv
<1> SUFFICES ASSUME Init PROVE FramingInv
  OBVIOUS
<1>1. leading \in [start : BOOLEAN, end : BOOLEAN, size : 0..(SizeMod - 1)]
  <2>1. 0 \in 0..(SizeMod - 1)
    BY DEF SizeMod
  <2> QED
    BY <2>1, Zenon DEF Init, Fresh, NoPage
<1> QED
  BY <1>1, UnusedInv DEF Init, Fresh, Unused

\* After an error nothing of the old stream is left.
LEMMA HandleErrorStep ==
    ASSUME FramingInv, HandleError
    PROVE  FramingInv'
<1>1. /\ pageMax' \in PageSizes
      /\ leading' \in [start : BOOLEAN, end : BOOLEAN, size : 0..(SizeMod - 1)]
  BY DEF FramingInv, TypeOK, HandleError, Clear
<1>2. /\ posted' = <<>> /\ pages' = <<>> /\ total' = 0 /\ read' = 0 /\ pos' = 0
      /\ step' = "down" /\ state' = "leading" /\ recvBuf' = NoBuf
      /\ last' = 0 /\ got' = <<>>
  BY DEF HandleError, Clear
<1>3. Unused'
  BY <1>1, <1>2 DEF Unused
<1> QED
  BY <1>3, UnusedInv, PTL

\* The numbers of the parser.
LEMMA Numbers ==
    ASSUME FramingInv
    PROVE  /\ pos \in Nat /\ read \in Nat /\ total \in Nat /\ pos <= read
           /\ read <= total /\ Remains \in Nat /\ Remains <= Capacity
           /\ Remains = read - pos
           /\ leading.size \in Nat /\ leading.size \in 0..(SizeMod - 1)
           /\ leading = [start |-> leading.start, end |-> leading.end,
                         size |-> leading.size]
           /\ leading.start \in BOOLEAN /\ leading.end \in BOOLEAN
           /\ Capacity \in Nat /\ Capacity > Lead
           /\ last \in Nat /\ last <= Len(posted) /\ Len(posted) \in Nat
<1>1. leading \in [start : BOOLEAN, end : BOOLEAN, size : 0..(SizeMod - 1)]
  BY DEF FramingInv, TypeOK
<1>2. leading.size \in Nat
  BY ONLY <1>1
<1>3. leading.start \in BOOLEAN /\ leading.end \in BOOLEAN
  BY ONLY <1>1, Zenon
<1>4. /\ pos \in Nat /\ read \in pos..total /\ total \in Nat
      /\ Remains <= Capacity
  BY DEF FramingInv, TypeOK
<1>5. Capacity \in Nat /\ Capacity > Lead
  BY SizesAssumption
<1>6. leading.size \in 0..(SizeMod - 1)
  BY ONLY <1>1
<1>7. leading = [start |-> leading.start, end |-> leading.end,
                 size |-> leading.size]
  BY ONLY <1>1
<1>8. last \in 0..Len(posted) /\ posted \in Seq(Packet)
  BY DEF FramingInv, TypeOK
<1>9. Len(posted) \in Nat
  BY <1>8
<1> QED
  BY ONLY <1>2, <1>3, <1>4, <1>5, <1>6, <1>7, <1>8, <1>9 DEF Remains

\* ConsumeFramePage drops bytes of a page that does not fit.
LEMMA SkipStep ==
    ASSUME FramingInv, Skip
    PROVE  FramingInv'
<1> DEFINE n == Least(Remains, leading.size)
<1>1. /\ step = "decode" /\ state = "skip" /\ pos' = pos + n
      /\ leading' = [leading EXCEPT !.size = leading.size - n]
      /\ state' = (IF leading.size = n THEN "leading" ELSE "skip")
      /\ step' = "read" /\ UNCHANGED <<sender, read, recvBuf, last, got>>
  BY DEF Skip, Halt
<1>2. leading.size >= 1 /\ pageMax > Capacity /\ pos < read
  BY <1>1 DEF FramingInv, SkipInv
<1>3. n \in Nat /\ n >= 1 /\ n <= Remains /\ n <= leading.size
      /\ (n = Remains \/ n = leading.size)
  BY <1>2, Numbers DEF Least
<1> HIDE DEF n
<1>4. leading' = [start |-> leading.start, end |-> leading.end,
                  size |-> leading.size - n]
  BY <1>1, Numbers
<1>5. leading.size - n \in 0..(SizeMod - 1)
  <2>1. leading.size \in Nat /\ leading.size <= SizeMod - 1
    BY Numbers
  <2>2. SizeMod - 1 \in Nat
    BY DEF SizeMod
  <2> QED
    BY ONLY <1>3, <2>1, <2>2
<1>6. /\ pos' \in Nat /\ read' \in pos'..total /\ Remains' = Remains - n
      /\ Remains' < Capacity
  BY <1>1, <1>3, Numbers, SMTT(30) DEF Remains
<1>7. leading' \in [start : BOOLEAN, end : BOOLEAN, size : 0..(SizeMod - 1)]
  BY <1>4, <1>5, Numbers
<1>8. TypeOK'
  <2>1. Remains' <= Capacity
    BY <1>3, <1>6, Numbers
  <2> QED
    BY <1>1, <1>6, <1>7, <2>1, SenderIdle DEF FramingInv, TypeOK, sender
<1>9. BodyInv' /\ ThrownInv' /\ ThrowsForCause' /\ RoomInv'
  BY <1>1, <1>6 DEF BodyInv, ThrownInv, ThrowsForCause, RoomInv
<1>10. SkipInv'
  <2>1. state' = "skip" => leading.size # n
    BY <1>1
  <2>2. leading'.size = leading.size - n
    BY <1>4
  <2>3. state' = "skip" => leading'.size >= 1
    BY ONLY <1>3, <2>1, <2>2, Numbers, FramingInv
  <2> QED
    BY <1>1, <1>2, <2>3 DEF SkipInv, sender
<1>11. Target' = Target
  <2>1. Target = pos + leading.size
    BY <1>1 DEF Target
  <2>2. CASE leading.size = n
    BY <1>1, <2>1, <2>2 DEF Target
  <2>3. CASE leading.size # n
    <3>1. Target' = (pos + n) + (leading.size - n)
      BY <1>1, <1>4, <2>3 DEF Target
    <3> QED
      BY ONLY <1>3, <2>1, <3>1, Numbers, FramingInv
  <2> QED
    BY <2>2, <2>3
<1>12. ExpectInv'
  <2>1. Expect
    BY <1>1 DEF FramingInv, ExpectInv
  <2> QED
    BY <1>1, <1>11, <2>1 DEF ExpectInv, Expect, Ready, sender
<1> QED
  BY <1>8, <1>9, <1>10, <1>12, SenderIdle, <1>1 DEF FramingInv

\* ConsumeFramePage takes a page's leading; the 14 bits of data_size hold
\* what it still has to skip.
LEMMA GotLeadingStep ==
    ASSUME FramingInv, NEW i \in DOMAIN pages, GotLeading(pages[i])
    PROVE  FramingInv'
<1> DEFINE g == pages[i]
<1>1. /\ step = "decode" /\ state = "leading" /\ Remains >= Lead /\ g.at = pos
      /\ UNCHANGED <<sender, read, recvBuf, last, got>>
  BY DEF GotLeading
<1>2. TypeOK /\ PagesInv /\ i \in 1..Len(pages)
  BY DEF FramingInv, PagesInv
<1>3. /\ g.at \in Nat /\ g.size \in Nat /\ g.size >= 1 /\ g.size <= Room
      /\ g.start \in BOOLEAN /\ g.end \in BOOLEAN /\ Room \in Nat
      /\ Room < SizeMod /\ pageMax = Room + Lead
      /\ PageEnd(g) <= total
  BY <1>2, PageFacts
<1>4. Expect /\ Target = pos
  BY <1>1 DEF FramingInv, ExpectInv, Target
<1>5. Ready(pageMax, g.pkt, g.from, last, recvBuf)
  BY <1>1, <1>2, <1>4, Here
<1>6. pages' = pages /\ total' = total /\ posted' = posted /\ pageMax' = pageMax
  BY <1>1 DEF sender
<1> HIDE DEF g
<1>7. CASE /\ Lead + g.size <= Capacity
           /\ state' = "body" /\ leading' = LeadingOf(g)
           /\ UNCHANGED <<pos, step>>
  <2>1. leading' = [start |-> g.start, end |-> g.end, size |-> g.size]
    BY <1>7 DEF LeadingOf
  <2>2. g.size \in 0..(SizeMod - 1)
    <3>1. SizeMod \in Nat
      BY DEF SizeMod
    <3> QED
      BY ONLY <1>3, <3>1
  <2>3. leading' \in [start : BOOLEAN, end : BOOLEAN, size : 0..(SizeMod - 1)]
    BY ONLY <1>3, <2>1, <2>2
  <2>4. TypeOK'
    BY <1>1, <1>6, <1>7, <2>3, SenderIdle DEF FramingInv, TypeOK, Remains
  <2>5. leading'.size = g.size
    BY <2>1
  <2>6. LeadingOf(g)' = LeadingOf(g) /\ pages'[i] = g
    BY <1>6 DEF LeadingOf, g
  <2>7. BodyInv'
    BY <1>1, <1>2, <1>6, <1>7, <2>5, <2>6 DEF BodyInv, LeadingOf, g
  <2>8. SkipInv' /\ ThrownInv' /\ RoomInv' /\ ThrowsForCause'
    BY <1>1, <1>7 DEF SkipInv, ThrownInv, RoomInv, ThrowsForCause
  <2>9. Target' = Target
    BY <1>1, <1>7 DEF Target
  <2>10. ExpectInv'
    BY <1>1, <1>4, <1>6, <1>7, <2>9 DEF ExpectInv, Expect, Ready
  <2> QED
    BY <1>1, <2>4, <2>7, <2>8, <2>10, SenderIdle DEF FramingInv
<1>8. CASE /\ Lead + g.size > Capacity
           /\ state' = "skip"
           /\ leading' = [LeadingOf(g) EXCEPT
                             !.size = (g.size - (Remains - Lead)) % SizeMod]
           /\ pos' = read /\ Halt
  <2> DEFINE s == g.size - (Remains - Lead)
  <2>1. s \in Nat /\ s >= 1 /\ s <= Room /\ PageEnd(g) = read + s
    <3>1. /\ pos \in Nat /\ read \in Nat /\ Remains = read - pos
          /\ Remains \in Nat /\ Remains <= Capacity /\ Capacity \in Nat
      BY Numbers
    <3>2. Lead + g.size > Capacity /\ Remains >= Lead /\ g.at = pos
      BY <1>1, <1>8 DEF g
    <3> QED
      BY ONLY <1>3, <3>1, <3>2 DEF PageEnd, Lead
  <2>2. SizeMod \in Nat /\ SizeMod > 0
    BY DEF SizeMod
  <2>3. leading' = [start |-> g.start, end |-> g.end, size |-> s % SizeMod]
    BY <1>8 DEF LeadingOf
  <2> HIDE DEF s
  <2>4. s < SizeMod /\ s % SizeMod = s
    <3>1. s < SizeMod
      BY ONLY <1>3, <2>1, <2>2
    <3> QED
      BY ONLY <2>1, <2>2, <3>1, ModBounds
  <2>5. /\ leading' = [start |-> g.start, end |-> g.end, size |-> s]
        /\ leading'.size = s
    BY ONLY <2>3, <2>4
  <2>6. s \in 0..(SizeMod - 1)
    BY ONLY <2>1, <2>2, <2>4
  <2>7. leading' \in [start : BOOLEAN, end : BOOLEAN, size : 0..(SizeMod - 1)]
    BY ONLY <1>3, <2>5, <2>6
  <2>8. /\ pos' \in Nat /\ read' \in pos'..total' /\ Remains' = 0
        /\ step' = "read"
    BY <1>1, <1>6, <1>8, Numbers DEF Remains, Halt
  <2>9. TypeOK'
    <3>1. Remains' <= Capacity
      BY <2>8, Numbers
    <3> QED
      BY <1>1, <1>6, <1>8, <2>7, <2>8, <3>1, SenderIdle DEF FramingInv, TypeOK
  <2>10. pageMax > Capacity
    BY ONLY <1>3, <1>8, Numbers, FramingInv DEF Lead
  <2>11. BodyInv' /\ ThrownInv' /\ ThrowsForCause'
    BY <1>8, <2>8 DEF BodyInv, ThrownInv, ThrowsForCause
  <2>12. SkipInv'
    BY <1>6, <2>1, <2>5, <2>8, <2>10 DEF SkipInv
  <2>13. RoomInv'
    BY <2>8, Numbers DEF RoomInv, Lead
  <2>14. Target' = PageEnd(g)
    BY <1>8, <2>1, <2>5 DEF Target
  <2>15. /\ g.end => Ready(pageMax, g.pkt + 1, 0, last', recvBuf')
         /\ ~g.end => Ready(pageMax, g.pkt, g.from + g.size, last', recvBuf')
    <3>1. ~(pageMax <= Capacity)
      BY ONLY <1>3, <2>10, Numbers, FramingInv DEF Lead
    <3>2. last < g.pkt /\ recvBuf = NoBuf
      BY ONLY <1>5, <3>1 DEF Ready
    <3>3. last \in Nat /\ g.pkt \in Nat
      BY <1>2, PageFacts, Numbers DEF g
    <3>4. last < g.pkt + 1
      BY ONLY <3>2, <3>3
    <3> QED
      BY ONLY <1>1, <3>1, <3>2, <3>4 DEF Ready
  <2>16. Expect'
    BY <1>1, <1>2, <2>14, <2>15, Advance DEF g
  <2> QED
    BY <1>1, <2>9, <2>11, <2>12, <2>13, <2>16, SenderIdle
    DEF FramingInv, ExpectInv
<1> QED
  BY <1>7, <1>8 DEF GotLeading, g

\* The page whose body is complete.
LEMMA BodyFacts ==
    ASSUME FramingInv, NEW i \in DOMAIN pages, GotBody(pages[i]),
           NEW g, g = pages[i]
    PROVE  /\ i \in 1..Len(pages)
           /\ step = "decode" /\ state = "body" /\ g.at = pos
           /\ leading = LeadingOf(g)
           /\ leading.start = g.start /\ leading.end = g.end
           /\ leading.size = g.size
           /\ Lead + g.size <= Capacity /\ Lead + g.size <= Remains
           /\ Ready(pageMax, g.pkt, g.from, last, recvBuf)
           /\ pageMax \in Nat /\ (pageMax > Capacity => g.end)
<1>1. /\ step = "decode" /\ state = "body" /\ g.at = pos
      /\ Remains >= Lead + leading.size
  BY DEF GotBody
<1>2. TypeOK /\ PagesInv /\ i \in 1..Len(pages)
  BY DEF FramingInv, PagesInv
<1>3. /\ Lead + leading.size <= Capacity
      /\ \E j \in 1..Len(pages) :
             pages[j].at = pos /\ LeadingOf(pages[j]) = leading
  BY <1>1 DEF FramingInv, BodyInv
<1>4. leading = LeadingOf(g)
  BY <1>1, <1>2, <1>3, SameStart
<1>5. leading.start = g.start /\ leading.end = g.end /\ leading.size = g.size
  BY ONLY <1>4 DEF LeadingOf
<1>6. Expect /\ Target = pos
  BY <1>1 DEF FramingInv, ExpectInv, Target
<1>7. Ready(pageMax, g.pkt, g.from, last, recvBuf)
  BY <1>1, <1>2, <1>6, Here
<1>8. /\ PieceOf(g, posted, Room) /\ Room \in Nat /\ pageMax = Room + Lead
      /\ g.end \in BOOLEAN /\ g.size \in Nat
  BY <1>2, PageFacts
<1>9. ~g.end => g.size = Room
  BY ONLY <1>8 DEF PieceOf
<1>10. pageMax \in Nat /\ (pageMax > Capacity => g.end)
  <2>1. Lead + g.size <= Capacity /\ Capacity \in Nat
    BY <1>3, <1>5, Numbers
  <2>2. ~g.end => pageMax <= Capacity
    BY ONLY <1>8, <1>9, <2>1 DEF Lead
  <2>3. pageMax \in Nat
    BY ONLY <1>8 DEF Lead
  <2> QED
    BY ONLY <1>8, <2>1, <2>2, <2>3
<1>11. Lead + g.size <= Capacity /\ Lead + g.size <= Remains
  BY ONLY <1>1, <1>3, <1>5, <1>8, Numbers, FramingInv DEF Lead
<1> QED
  BY ONLY <1>1, <1>2, <1>4, <1>5, <1>7, <1>10, <1>11

\* The pages of a packet put together are its first bytes.
LEMMA Prefix ==
    ASSUME FramingInv, NEW i \in DOMAIN pages, GotBody(pages[i]),
           NEW g, g = pages[i]
    PROVE  /\ pageMax <= Capacity => ~Orphan
           /\ ~Orphan =>
                  Assembled(g) = [pkt |-> g.pkt, size |-> g.from + g.size,
                                  good |-> TRUE]
           /\ g.from + g.size \in Nat /\ g.from + g.size > 0
           /\ g.pkt \in 1..Len(posted) /\ posted[g.pkt] \in Packet
           /\ g.from + g.size <= Length(posted[g.pkt])
           /\ g.end <=> g.from + g.size = Length(posted[g.pkt])
           /\ ~Orphan /\ leading.start => g.from = 0 /\ recvBuf = NoBuf
           /\ ~Orphan /\ ~leading.start => pageMax <= Capacity
<1>1. /\ i \in 1..Len(pages) /\ Ready(pageMax, g.pkt, g.from, last, recvBuf)
      /\ leading.start = g.start /\ pageMax \in Nat
  BY BodyFacts
<1>2. TypeOK /\ PagesInv
  BY DEF FramingInv
<1>3. /\ PieceOf(g, posted, Room) /\ g.from \in Nat /\ g.size \in Nat
      /\ g.size >= 1 /\ g.pkt \in Nat /\ g.start \in BOOLEAN
  BY <1>1, <1>2, PageFacts
<1>4. /\ g.pkt \in 1..Len(posted) /\ (g.start <=> g.from = 0)
      /\ g.from + g.size <= Length(posted[g.pkt])
      /\ g.end <=> g.from + g.size = Length(posted[g.pkt])
  BY ONLY <1>3 DEF PieceOf
<1>5. posted[g.pkt] \in Packet
  BY <1>2, <1>4 DEF TypeOK
<1>6. leading.start <=> g.from = 0
  BY ONLY <1>1, <1>4
<1>7. g.from + g.size \in Nat /\ g.from + g.size > 0 /\ 0 + g.size = g.size
  BY ONLY <1>3
<1>8. CASE leading.start
  <2>1. g.from = 0
    BY <1>6, <1>8
  <2>2. Assembled(g) = [pkt |-> g.pkt, size |-> g.from + g.size, good |-> TRUE]
    BY ONLY <1>7, <1>8, <2>1 DEF Assembled
  <2>3. recvBuf = NoBuf
    BY ONLY <1>1, <2>1 DEF Ready
  <2>4. ~Orphan
    BY <1>8 DEF Orphan
  <2> QED
    BY ONLY <1>4, <1>5, <1>7, <1>8, <2>1, <2>2, <2>3, <2>4
<1>9. CASE ~leading.start
  <2>1. g.from # 0
    BY <1>6, <1>9
  <2>2. CASE pageMax <= Capacity
    <3>1. recvBuf = [pkt |-> g.pkt, size |-> g.from, good |-> TRUE]
      BY ONLY <1>1, <2>1, <2>2 DEF Ready
    <3>2. recvBuf.pkt = g.pkt /\ recvBuf.size = g.from /\ recvBuf.good = TRUE
      BY ONLY <3>1
    <3>3. Assembled(g) = [pkt |-> g.pkt, size |-> g.from + g.size, good |-> TRUE]
      BY ONLY <1>9, <3>2 DEF Assembled
    <3>4. recvBuf # NoBuf
      BY ONLY <2>1, <3>2 DEF NoBuf
    <3> QED
      BY ONLY <1>4, <1>5, <1>7, <1>9, <2>2, <3>3, <3>4 DEF Orphan
  <2>3. CASE ~(pageMax <= Capacity)
    <3>1. recvBuf = NoBuf
      BY ONLY <1>1, <2>3 DEF Ready
    <3> QED
      BY ONLY <1>4, <1>5, <1>7, <1>9, <2>3, <3>1 DEF Orphan
  <2> QED
    BY <2>2, <2>3
<1> QED
  BY <1>8, <1>9

\* Behind a page that is passed.
LEMMA PassedStep ==
    ASSUME FramingInv, NEW i \in DOMAIN pages, GotBody(pages[i]), Passed,
           recvBuf' \in [pkt : Nat, size : Nat, good : BOOLEAN],
           last' \in 0..Len(posted),
           got' \in Seq([name : Nat, body : Nat]),
           pages[i].end => Ready(pageMax, pages[i].pkt + 1, 0, last', recvBuf'),
           ~pages[i].end => Ready(pageMax, pages[i].pkt,
                                  pages[i].from + pages[i].size, last', recvBuf')
    PROVE  FramingInv'
<1> DEFINE g == pages[i]
<1>1. /\ i \in 1..Len(pages) /\ step = "decode" /\ g.at = pos
      /\ leading.size = g.size /\ Lead + g.size <= Remains
  BY BodyFacts
<1>2. /\ pos' = pos + Lead + g.size /\ state' = "leading" /\ step' = step
      /\ leading' = leading /\ read' = read /\ UNCHANGED sender
  BY <1>1 DEF Passed
<1>3. TypeOK /\ PagesInv
  BY DEF FramingInv
<1>4. g.at \in Nat /\ g.size \in Nat
  BY <1>1, <1>3, PageFacts
<1>5. pages' = pages /\ total' = total /\ posted' = posted /\ pageMax' = pageMax
  BY <1>2 DEF sender
<1> HIDE DEF g
<1>6. pos' \in Nat /\ read' \in pos'..total' /\ Remains' <= Capacity
  <2>1. /\ pos \in Nat /\ read \in Nat /\ total \in Nat /\ read <= total
        /\ Remains = read - pos /\ Remains <= Capacity /\ Capacity \in Nat
    BY Numbers
  <2>2. /\ pos' = pos + Lead + g.size /\ read' = read /\ total' = total
        /\ Lead + g.size <= Remains /\ g.size \in Nat
    BY ONLY <1>1, <1>2, <1>4, <1>5
  <2>3. Remains' = read' - pos'
    BY DEF Remains
  <2> QED
    BY ONLY <2>1, <2>2, <2>3 DEF Lead
<1>7. TypeOK'
  BY <1>1, <1>2, <1>3, <1>5, <1>6, SenderIdle DEF TypeOK
<1>8. BodyInv' /\ SkipInv' /\ RoomInv' /\ ThrownInv' /\ ThrowsForCause'
  BY <1>1, <1>2 DEF BodyInv, SkipInv, RoomInv, ThrownInv, ThrowsForCause
<1>9. Target' = PageEnd(g)
  BY <1>1, <1>2 DEF Target, PageEnd
<1>10. Expect'
  BY <1>1, <1>2, <1>3, <1>9, Advance DEF g
<1> QED
  BY <1>2, <1>7, <1>8, <1>10, SenderIdle DEF FramingInv, ExpectInv

\* What a receive buffer in order consists of.
LEMMA Fields ==
    ASSUME NEW b, NEW k, NEW n, b = [pkt |-> k, size |-> n, good |-> TRUE]
    PROVE  b.pkt = k /\ b.size = n /\ b.good
  OBVIOUS

\* ConsumePacket keeps a first or a middle page.
LEMMA KeepStep ==
    ASSUME FramingInv, NEW i \in DOMAIN pages, Keep(pages[i])
    PROVE  FramingInv'
<1> DEFINE g == pages[i]
<1>1. /\ GotBody(g) /\ ~Fails(g) /\ ~leading.end /\ recvBuf' = Assembled(g)
      /\ Passed /\ last' = last /\ got' = got
  BY DEF Keep
<1>2. ~Orphan
  BY <1>1 DEF Fails
<1>3. /\ recvBuf' = [pkt |-> g.pkt, size |-> g.from + g.size, good |-> TRUE]
      /\ g.from + g.size \in Nat /\ g.from + g.size > 0
      /\ g.pkt \in 1..Len(posted)
  BY <1>1, <1>2, Prefix
<1>4. /\ Ready(pageMax, g.pkt, g.from, last, recvBuf)
      /\ leading.end = g.end /\ pageMax \in Nat /\ (pageMax > Capacity => g.end)
  BY <1>1, BodyFacts
<1>5. ~g.end /\ pageMax <= Capacity
  <2>1. ~g.end
    BY <1>1, <1>4
  <2> QED
    BY <1>4, <2>1, Numbers
<1>6. last = g.pkt - 1
  BY ONLY <1>4, <1>5, Zenon DEF Ready
<1>7. Ready(pageMax, g.pkt, g.from + g.size, last', recvBuf')
  <2>1. g.from + g.size # 0
    <3>1. g.from + g.size \in Nat /\ g.from + g.size > 0
      BY <1>3, Zenon
    <3> DEFINE b == g.from + g.size
    <3>2. b \in Nat /\ b > 0
      BY ONLY <3>1
    <3> HIDE DEF b
    <3>3. b # 0
      BY ONLY <3>2
    <3> QED
      BY ONLY <3>3, Zenon DEF b
  <2> QED
    BY ONLY <1>1, <1>3, <1>5, <1>6, <2>1 DEF Ready
<1>8. recvBuf' \in [pkt : Nat, size : Nat, good : BOOLEAN]
  <2>1. g.pkt \in Nat
    <3>1. g.pkt \in 1..Len(posted)
      BY <1>3, Zenon
    <3> DEFINE k == g.pkt
    <3> HIDE DEF k
    <3>2. k \in 1..Len(posted) => k \in Nat
      OBVIOUS
    <3> QED
      BY ONLY <3>1, <3>2, Zenon DEF k
  <2> QED
    BY ONLY <1>3, <2>1
<1>9. last' \in 0..Len(posted) /\ got' \in Seq([name : Nat, body : Nat])
  BY <1>1 DEF FramingInv, TypeOK
<1> QED
  BY <1>1, <1>5, <1>7, <1>8, <1>9, PassedStep

\* A packet that completes is the next one, or a later one when some did not
\* fit, and what OnGotPacket makes of it is what was posted.
LEMMA Delivered ==
    ASSUME FramingInv, NEW i \in DOMAIN pages, GotPacket(pages[i])
    PROVE  /\ pages[i].pkt \in DOMAIN posted /\ pages[i].end
           /\ pages[i].pkt > last
           /\ pages[i].pkt > last + 1 => pageMax > Capacity
           /\ got' = Append(got, Seen(posted[pages[i].pkt]))
           /\ last' = pages[i].pkt /\ recvBuf' = NoBuf
           /\ Seen(posted[pages[i].pkt]) \in [name : Nat, body : Nat]
           /\ UNCHANGED sender
<1> DEFINE g == pages[i]
           p == posted[g.pkt]
<1>1. /\ GotBody(g) /\ ~Fails(g) /\ leading.end
      /\ got' = Append(got, Given(Assembled(g))) /\ last' = Assembled(g).pkt
      /\ recvBuf' = (IF Single THEN recvBuf ELSE NoBuf) /\ Passed
  BY DEF GotPacket
<1>2. ~Orphan
  BY <1>1 DEF Fails
<1>3. /\ Assembled(g) = [pkt |-> g.pkt, size |-> g.from + g.size, good |-> TRUE]
      /\ g.pkt \in 1..Len(posted) /\ p \in Packet
      /\ g.end <=> g.from + g.size = Length(p)
      /\ leading.start => recvBuf = NoBuf
  BY <1>1, <1>2, Prefix
<1>4. /\ Ready(pageMax, g.pkt, g.from, last, recvBuf)
      /\ leading.end = g.end /\ pageMax \in Nat
  BY <1>1, BodyFacts
<1>5. g.end /\ g.from + g.size = Length(p)
  BY <1>1, <1>3, <1>4
<1>6. /\ Assembled(g).pkt = g.pkt /\ Assembled(g).size = Length(p)
      /\ Assembled(g).good
  <2>1. Assembled(g) = [pkt |-> g.pkt, size |-> Length(p), good |-> TRUE]
    BY <1>3, <1>5, Zenon
  <2> QED
    BY ONLY <2>1, Fields, Zenon
<1>7. /\ p.name \in Nat /\ p.body \in Nat /\ Header \in Nat
      /\ NameMod \in Nat /\ NameMod > 0
  <2>1. p \in Packet
    BY <1>3, Zenon
  <2> HIDE DEF p
  <2> QED
    BY ONLY <2>1, SizesAssumption
<1>8. p.name % NameMod \in Nat /\ p.name % NameMod <= p.name
  BY ONLY <1>7, ModBounds
<1>9. Given(Assembled(g)) = Seen(p) /\ Seen(p) \in [name : Nat, body : Nat]
  <2> DEFINE m == p.name % NameMod
  <2>1. NameLen(Assembled(g)) = m
    BY ONLY <1>6 DEF NameLen
  <2>2. Given(Assembled(g)) = [name |-> m, body |-> Length(p) - m - Header]
    BY ONLY <1>6, <2>1 DEF Given
  <2>3. Seen(p) = [name |-> m, body |-> p.name + p.body - m]
    BY DEF Seen
  <2>4. m \in Nat /\ m <= p.name
    BY ONLY <1>8
  <2> HIDE DEF m, p
  <2>5. /\ Length(p) - m - Header = p.name + p.body - m
        /\ p.name + p.body - m \in Nat
    BY ONLY <1>7, <2>4 DEF Length
  <2> QED
    BY ONLY <2>2, <2>3, <2>4, <2>5
<1>10. recvBuf' = NoBuf
  BY <1>1, <1>3 DEF Single
<1>11. g.pkt > last /\ (g.pkt > last + 1 => pageMax > Capacity)
  <2>1. g.pkt \in Nat /\ last \in Nat /\ Capacity \in Nat
    BY <1>3, Numbers
  <2>2. CASE pageMax <= Capacity
    <3>1. last = g.pkt - 1
      BY ONLY <1>4, <2>2, Zenon DEF Ready
    <3> QED
      BY ONLY <2>1, <3>1
  <2>3. CASE ~(pageMax <= Capacity)
    <3>1. last < g.pkt
      BY ONLY <1>4, <2>3, Zenon DEF Ready
    <3> QED
      BY ONLY <1>4, <2>1, <2>3, <3>1
  <2> QED
    BY <2>2, <2>3
<1>12. g.pkt \in DOMAIN posted
  <2>1. g.pkt \in 1..Len(posted)
    BY <1>3, Zenon
  <2>2. posted \in Seq(Packet)
    BY DEF FramingInv, TypeOK
  <2> HIDE DEF g
  <2> QED
    BY ONLY <2>1, <2>2
<1>13. UNCHANGED sender
  BY <1>1 DEF Passed
<1> QED
  BY ONLY <1>1, <1>5, <1>6, <1>9, <1>10, <1>11, <1>12, <1>13

\* ConsumePacket gives a packet to OnGotPacket.
LEMMA GotPacketStep ==
    ASSUME FramingInv, NEW i \in DOMAIN pages, GotPacket(pages[i])
    PROVE  FramingInv'
<1> DEFINE g == pages[i]
<1>1. /\ g.pkt \in DOMAIN posted /\ g.end
      /\ got' = Append(got, Seen(posted[g.pkt]))
      /\ Seen(posted[g.pkt]) \in [name : Nat, body : Nat]
      /\ last' = g.pkt /\ recvBuf' = NoBuf
  BY Delivered
<1>2. GotBody(g) /\ Passed
  BY DEF GotPacket
<1>3. posted \in Seq(Packet) /\ got \in Seq([name : Nat, body : Nat])
  BY DEF FramingInv, TypeOK
<1>4. g.pkt \in Nat /\ last' \in 0..Len(posted)
  BY <1>1, <1>3
<1>5. got' \in Seq([name : Nat, body : Nat])
  BY ONLY <1>1, <1>3
<1>6. Ready(pageMax, g.pkt + 1, 0, last', recvBuf')
  <2> DEFINE k == g.pkt
  <2>1. k \in Nat
    BY <1>4, Zenon
  <2>2. last' = k /\ recvBuf' = NoBuf
    BY <1>1, Zenon
  <2> HIDE DEF k
  <2>3. k = (k + 1) - 1 /\ k < k + 1
    BY ONLY <2>1
  <2>4. Ready(pageMax, k + 1, 0, last', recvBuf')
    BY ONLY <2>2, <2>3, Zenon DEF Ready
  <2> QED
    BY ONLY <2>4, Zenon DEF k
<1>7. recvBuf' \in [pkt : Nat, size : Nat, good : BOOLEAN]
  BY <1>1, Zenon DEF NoBuf
<1> QED
  BY <1>1, <1>2, <1>4, <1>5, <1>6, <1>7, PassedStep

\* ConsumePacket refuses a page: its packet is too large or has no name.
LEMMA ThrowStep ==
    ASSUME FramingInv, NEW i \in DOMAIN pages, Throw(pages[i])
    PROVE  FramingInv'
<1> DEFINE g == pages[i]
           p == posted[g.pkt]
<1>1. /\ GotBody(g) /\ Fails(g) /\ step' = "thrown"
      /\ recvBuf' = (IF Single THEN recvBuf ELSE NoBuf)
      /\ UNCHANGED <<sender, read, pos, parser, last, got>>
  BY DEF Throw
<1>2. /\ pages' = pages /\ total' = total /\ posted' = posted
      /\ pageMax' = pageMax /\ pos' = pos /\ read' = read /\ state' = state
      /\ leading' = leading /\ last' = last /\ got' = got
  BY <1>1 DEF sender, parser
<1>3. /\ state = "body" /\ leading.end = g.end /\ pageMax \in Nat
  BY <1>1, BodyFacts
<1>4. /\ pageMax <= Capacity => ~Orphan
      /\ ~Orphan =>
             Assembled(g) = [pkt |-> g.pkt, size |-> g.from + g.size,
                             good |-> TRUE]
      /\ g.pkt \in 1..Len(posted) /\ p \in Packet
      /\ g.from + g.size \in Nat /\ g.from + g.size <= Length(p)
      /\ g.end <=> g.from + g.size = Length(p)
      /\ ~Orphan /\ leading.start => recvBuf = NoBuf
  BY <1>1, Prefix
<1>5. recvBuf' = NoBuf
  <2>1. Single => ~Orphan /\ leading.start
    BY DEF Single, Orphan
  <2> QED
    BY ONLY <1>1, <1>4, <2>1
<1>6. TypeOK'
  <2>1. recvBuf' \in [pkt : Nat, size : Nat, good : BOOLEAN]
    BY <1>5, Zenon DEF NoBuf
  <2> QED
    BY <1>1, <1>2, <2>1, SenderIdle DEF FramingInv, TypeOK, Remains
<1>7. BodyInv' /\ SkipInv' /\ RoomInv' /\ ExpectInv' /\ ThrownInv'
  BY <1>1, <1>2, <1>3, <1>5
  DEF FramingInv, BodyInv, SkipInv, RoomInv, ExpectInv, ThrownInv, LeadingOf
<1>8. ThrowsForCause'
  <2> SUFFICES ASSUME pageMax <= Capacity
               PROVE  p.name % NameMod = 0 \/ Length(p) > RecvCap
    <3>1. posted' = posted /\ pageMax' = pageMax /\ g.pkt \in DOMAIN posted
      <4>1. g.pkt \in 1..Len(posted)
        BY <1>4
      <4>2. posted \in Seq(Packet)
        BY DEF FramingInv, TypeOK
      <4> QED
        BY ONLY <1>2, <4>1, <4>2
    <3> QED
      BY <3>1 DEF ThrowsForCause, Length
  <2>1. ~Orphan
    BY <1>4
  <2>2. Assembled(g).pkt = g.pkt /\ Assembled(g).size = g.from + g.size
    <3> DEFINE n == g.from + g.size
    <3>1. Assembled(g) = [pkt |-> g.pkt, size |-> n, good |-> TRUE]
      BY <1>4, <2>1, Zenon
    <3> HIDE DEF n
    <3>2. Assembled(g).pkt = g.pkt /\ Assembled(g).size = n /\ Assembled(g).good
      BY ONLY <3>1, Fields, Zenon
    <3> QED
      BY ONLY <3>2, Zenon DEF n
  <2>3. /\ p.name \in Nat /\ p.body \in Nat /\ Header \in Nat
        /\ NameMod \in Nat /\ NameMod > 0 /\ RecvCap \in Nat
        /\ Length(p) \in Nat
    <3>1. p \in Packet
      BY <1>4
    <3> HIDE DEF p
    <3> QED
      BY ONLY <3>1, SizesAssumption DEF Length
  <2>4. CASE Assembled(g).size > RecvCap
    <3> DEFINE b == g.from + g.size
               len == Length(p)
    <3>1. b \in Nat /\ b <= len /\ len \in Nat /\ RecvCap \in Nat /\ b > RecvCap
      <4>1. g.from + g.size \in Nat /\ g.from + g.size <= Length(p)
        BY <1>4, Zenon
      <4> QED
        BY ONLY <2>2, <2>3, <2>4, <4>1
    <3> HIDE DEF b, len
    <3>2. len > RecvCap
      BY ONLY <3>1
    <3> QED
      BY ONLY <3>2 DEF len
  <2>5. CASE leading.end /\ Malformed(Assembled(g))
    <3>1. g.from + g.size = Length(p)
      BY <1>3, <1>4, <2>5
    <3>2. NameLen(Assembled(g)) = p.name % NameMod
      BY ONLY <2>2 DEF NameLen
    <3>3. p.name % NameMod \in Nat /\ p.name % NameMod <= p.name
      BY ONLY <2>3, ModBounds
    <3> DEFINE m == p.name % NameMod
    <3>4. m \in Nat /\ m <= p.name /\ (m = 0 \/ Length(p) < Header + m)
      <4>1. LET n == NameLen(Assembled(g))
            IN  n = 0 \/ Assembled(g).size < Header + n
        BY ONLY <2>5, Zenon DEF Malformed
      <4>2. Assembled(g).size = Length(p)
        BY ONLY <2>2, <3>1, Zenon
      <4>3. m = 0 \/ Length(p) < Header + m
        BY ONLY <3>2, <4>1, <4>2, Zenon
      <4> QED
        BY ONLY <3>3, <4>3, Zenon
    <3> HIDE DEF m, p
    <3>5. m = 0
      BY ONLY <2>3, <3>4 DEF Length
    <3> QED
      BY ONLY <3>5 DEF m
  <2> QED
    BY <1>1, <2>1, <2>4, <2>5 DEF Fails
<1> QED
  BY <1>1, <1>6, <1>7, <1>8, SenderIdle DEF FramingInv

-----------------------------------------------------------------------------
(* The theorems.                                                           *)

\* Every step of the framing keeps FramingInv.
LEMMA FramingStep == FramingInv /\ [Next]_vars => FramingInv'
<1> SUFFICES ASSUME FramingInv, [Next]_vars PROVE FramingInv'
  OBVIOUS
<1>1. CASE Peer
  BY <1>1, PostStep DEF Peer
<1>2. CASE Parse
  BY <1>2, ReadStep, HungryStep, SkipStep, GotLeadingStep, KeepStep, ThrowStep
  DEF Parse
<1>3. CASE Complete
  BY <1>3, GotPacketStep DEF Complete
<1>4. CASE Lose
  BY <1>4, LoseStep
<1>5. CASE HandleError
  BY <1>5, HandleErrorStep
<1>6. CASE Connect
  BY <1>6, ConnectStep
<1>7. CASE UNCHANGED vars
  <2>1. /\ UNCHANGED sender /\ read' = read /\ pos' = pos /\ step' = step
        /\ state' = state /\ leading' = leading /\ recvBuf' = recvBuf
        /\ last' = last /\ got' = got
    BY <1>7 DEF vars, parser
  <2>2. /\ pages' = pages /\ total' = total /\ posted' = posted
        /\ pageMax' = pageMax
    BY <2>1 DEF sender
  <2>3. TypeOK'
    BY <2>1, <2>2 DEF FramingInv, TypeOK, Remains
  <2>4. BodyInv' /\ SkipInv' /\ RoomInv' /\ ThrownInv'
    BY <2>1, <2>2 DEF FramingInv, BodyInv, SkipInv, RoomInv, ThrownInv, Remains,
                      LeadingOf
  <2>5. ExpectInv'
    BY <2>1, <2>2 DEF FramingInv, ExpectInv, Expect, Target, Ready
  <2>6. ThrowsForCause'
    BY <2>1, <2>2 DEF FramingInv, ThrowsForCause, Length
  <2> QED
    BY <2>1, <2>3, <2>4, <2>5, <2>6, SenderIdle DEF FramingInv
<1> QED
  BY <1>1, <1>2, <1>3, <1>4, <1>5, <1>6, <1>7 DEF Next

\* The queue's steps leave the framing alone.
LEMMA PathStepIsFramingStep == [PathNext]_pathVars => [Next]_vars
<1> SUFFICES ASSUME [PathNext]_pathVars PROVE [Next]_vars
  OBVIOUS
<1>1. CASE Outside
  BY <1>1 DEF Outside, Next
<1>2. CASE Decode
  BY <1>2 DEF Decode, Next
<1>3. CASE OnGotPacket
  BY <1>3 DEF OnGotPacket, Next
<1>4. CASE OnIsolatedError
  BY <1>4 DEF OnIsolatedError, Next
<1>5. CASE OnLowLevelConnect
  BY <1>5 DEF OnLowLevelConnect, Next
<1>6. CASE UNCHANGED vars
  BY <1>6
<1> QED
  BY <1>1, <1>2, <1>3, <1>4, <1>5, <1>6
  DEF PathNext, Worker, Main, pathVars

\* FramingInv holds of every state of the packet path.
THEOREM FramingInvariant == PathSpec => []FramingInv
<1>1. PathInit => FramingInv
  BY Start DEF PathInit
<1>2. FramingInv /\ [PathNext]_pathVars => FramingInv'
  BY FramingStep, PathStepIsFramingStep
<1> QED
  BY <1>1, <1>2, PTL DEF PathSpec

\* Every page begins where the one before it ends.
LEMMA BeginsAtEnd ==
    ASSUME TypeOK, PagesInv, NEW j \in 1..Len(pages)
    PROVE  pages[j].at \in Ends
<1>1. /\ pages \in Seq(PageRecord) /\ Len(pages) \in Nat
      /\ DOMAIN pages = 1..Len(pages)
  BY DEF PagesInv
<1>2. CASE j = 1
  BY <1>1, <1>2 DEF PagesInv, First, Ends
<1>3. CASE j # 1
  <2>1. j - 1 \in 1..Len(pages) /\ (j - 1) + 1 = j /\ j <= Len(pages)
    BY ONLY <1>1, <1>3, j \in 1..Len(pages)
  <2>2. Follows(pages[j - 1], pages[j])
    BY ONLY <2>1, PagesInv DEF PagesInv, Chained
  <2>3. pages[j].at = pages[j - 1].at + Lead + pages[j - 1].size
    BY ONLY <2>2 DEF Follows, PageEnd
  <2> QED
    BY <1>1, <2>1, <2>3 DEF Ends
<1> QED
  BY <1>2, <1>3

\* What was sent ends with a page.
LEMMA TotalAtEnd ==
    ASSUME TypeOK, PagesInv
    PROVE  total \in Ends
<1>1. /\ pages \in Seq(PageRecord) /\ Len(pages) \in Nat
      /\ DOMAIN pages = 1..Len(pages)
  BY DEF PagesInv
<1>2. CASE pages = <<>>
  BY <1>2 DEF PagesInv, First, Ends
<1>3. CASE pages # <<>>
  <2>1. Len(pages) \in DOMAIN pages
    BY <1>1, <1>3
  <2>2. PageEnd(pages[Len(pages)]) = total
    BY <1>3 DEF PagesInv, Last
  <2> QED
    BY <2>1, <2>2 DEF Ends, PageEnd
<1> QED
  BY <1>2, <1>3

\* The parser is where a page begins, ends, or has its body.
LEMMA InvAligned == FramingInv => Aligned
<1> SUFFICES ASSUME FramingInv PROVE Aligned
  OBVIOUS
<1>1. TypeOK /\ PagesInv /\ DOMAIN pages = 1..Len(pages)
  BY DEF FramingInv, PagesInv
<1>2. CASE state = "body"
  <2>1. \E i \in 1..Len(pages) :
            pages[i].at = pos /\ LeadingOf(pages[i]) = leading
    BY <1>2 DEF FramingInv, BodyInv
  <2>2. pos \in Ends
    BY <1>1, <2>1, BeginsAtEnd
  <2> QED
    BY <1>1, <1>2, <2>1, <2>2 DEF Aligned
<1>3. CASE state # "body"
  <2>1. Expect
    BY <1>3 DEF FramingInv, ExpectInv, ThrownInv
  <2>2. Target \in Ends
    BY <1>1, <2>1, BeginsAtEnd, TotalAtEnd DEF Expect
  <2>3. state \in {"leading", "skip"}
    BY <1>1, <1>3 DEF TypeOK
  <2> QED
    BY <2>2, <2>3 DEF Aligned, Target
<1> QED
  BY <1>2, <1>3

\* The receive buffer holds the first bytes of a packet.
LEMMA InvPending == FramingInv => PendingIsPrefix
<1> SUFFICES ASSUME FramingInv PROVE PendingIsPrefix
  OBVIOUS
<1>1. TypeOK /\ PagesInv
  BY DEF FramingInv
<1>2. CASE step = "thrown"
  BY <1>2 DEF FramingInv, ThrownInv, PendingIsPrefix
<1>3. CASE step # "thrown"
  <2>1. Expect
    BY <1>3 DEF FramingInv, ExpectInv
  <2>2. ASSUME recvBuf # NoBuf
        PROVE  /\ recvBuf.good /\ recvBuf.pkt \in DOMAIN posted
               /\ recvBuf.size < Length(posted[recvBuf.pkt])
    <3>1. PICK j \in 1..Len(pages) :
              /\ pages[j].from # 0
              /\ recvBuf = [pkt |-> pages[j].pkt, size |-> pages[j].from,
                            good |-> TRUE]
      BY <2>1, <2>2 DEF Expect, Ready
    <3> DEFINE g == pages[j]
    <3>2. /\ PieceOf(g, posted, Room)
          /\ g.from \in Nat /\ g.size \in Nat /\ g.size >= 1
      BY <1>1, PageFacts
    <3>3. g.pkt \in 1..Len(posted) /\ g.from + g.size <= Length(posted[g.pkt])
      BY ONLY <3>2 DEF PieceOf
    <3>4. posted \in Seq(Packet) /\ g.pkt \in DOMAIN posted
      BY <1>1, <3>3 DEF TypeOK
    <3>5. posted[g.pkt] \in Packet
      BY <3>4
    <3>6. Length(posted[g.pkt]) \in Nat
      BY <3>5, SizesAssumption DEF Length
    <3>7. g.from < Length(posted[g.pkt])
      BY ONLY <3>2, <3>3, <3>6
    <3>8. recvBuf.good /\ recvBuf.pkt = g.pkt /\ recvBuf.size = g.from
      BY ONLY <3>1
    <3> QED
      BY ONLY <3>4, <3>7, <3>8
  <2>3. ASSUME state = "body", leading.start PROVE recvBuf = NoBuf
    <3>1. PICK i \in 1..Len(pages) :
              pages[i].at = pos /\ LeadingOf(pages[i]) = leading
      BY <2>3 DEF FramingInv, BodyInv
    <3>2. Ready(pageMax, pages[i].pkt, pages[i].from, last, recvBuf)
      BY <1>1, <2>1, <2>3, <3>1, Here DEF Target
    <3>3. PieceOf(pages[i], posted, Room)
      BY <1>1, PageFacts
    <3>4. pages[i].start
      BY <2>3, <3>1 DEF LeadingOf
    <3>5. pages[i].from = 0
      BY ONLY <3>3, <3>4 DEF PieceOf
    <3> QED
      BY ONLY <3>2, <3>5 DEF Ready
  <2> QED
    BY <2>2, <2>3 DEF PendingIsPrefix
<1> QED
  BY <1>2, <1>3

\* Positions, lengths and buffers keep their types: Post sends no empty page
\* and none above the page size, and a read never overruns the stream buffer.
THEOREM PathTypes == PathSpec => []PathTypeOK
<1>1. FramingInv /\ TrunkInv => PathTypeOK
  BY DEF FramingInv, TrunkInv, PathTypeOK
<1> QED
  BY <1>1, FramingInvariant, TrunkInvariant, PTL

\* However TCP cuts the stream, ConsumeFramePage never loses the boundaries
\* of the pages, for every page size below 2^14.
THEOREM ParserAligned == PathSpec => []Aligned
BY FramingInvariant, InvAligned, PTL

\* _ref_recv_buf holds the first bytes of the packet that is being sent, and
\* is empty when a first page comes.
THEOREM BufferIsPrefix == PathSpec => []PendingIsPrefix
BY FramingInvariant, InvPending, PTL

\* DecodeStream throws at a peer whose pages fit only for a packet that is
\* too large or whose name has a length of 0 modulo 256.
THEOREM ThrownForCause == PathSpec => []ThrowsForCause
<1>1. FramingInv => ThrowsForCause
  BY DEF FramingInv
<1> QED
  BY <1>1, FramingInvariant, PTL

\* Post is a post of the channel, a packet given to OnGotPacket a delivery,
\* an error a break; no other step shows.
LEMMA StepSimulation ==
    FramingInv /\ [PathNext]_pathVars => [Promise!Next]_(Promise!vars)
<1> SUFFICES ASSUME FramingInv, [Next]_vars
             PROVE  Promise!Next \/ UNCHANGED Promise!vars
  BY PathStepIsFramingStep
<1>1. CASE Peer
  <2>1. PICK p \in Packet : Post(p)
    BY <1>1 DEF Peer
  <2>2. Promise!Post(p)
    BY <2>1 DEF Post, Promise!Post
  <2> QED
    BY <2>2 DEF Promise!Next
<1>2. CASE Complete
  <2>1. PICK i \in DOMAIN pages : GotPacket(pages[i])
    BY <1>2 DEF Complete
  <2>2. /\ pages[i].pkt \in DOMAIN posted /\ pages[i].pkt > last
        /\ pages[i].pkt > last + 1 => pageMax > Capacity
        /\ got' = Append(got, Seen(posted[pages[i].pkt]))
        /\ last' = pages[i].pkt /\ UNCHANGED sender
    BY <2>1, Delivered
  <2>3. pageMax' = pageMax /\ posted' = posted
    BY <2>2 DEF sender
  <2> QED
    BY ONLY <2>2, <2>3 DEF Promise!Next, Promise!Deliver
<1>3. CASE HandleError
  BY <1>3 DEF HandleError, Promise!Next, Promise!Break
<1>4. CASE UNCHANGED <<sender, last, got>>
  BY <1>4 DEF sender, Promise!vars
<1>5. CASE Parse
  <2>1. UNCHANGED <<sender, last, got>>
    BY <1>5 DEF Parse, Read, Hungry, Skip, GotLeading, Keep, Throw, Passed
  <2> QED
    BY <1>4, <2>1
<1>6. CASE Lose \/ Connect \/ UNCHANGED vars
  BY <1>4, <1>6 DEF Lose, Connect, vars
<1> QED
  BY <1>1, <1>2, <1>3, <1>5, <1>6 DEF Next

\* Whatever the lengths and the sizes, packets arrive whole, once and in
\* order; ConsumePacket passes packets over only when the peer's pages do not
\* fit the stream buffer.
THEOREM FramingImplementsChannel == PathSpec => Implements
<1>1. PathInit => Promise!Init
  BY DEF PathInit, Init, Fresh, Promise!Init
<1> QED
  BY <1>1, FramingInvariant, StepSimulation, PTL
  DEF PathSpec, Implements, Promise!Spec

-----------------------------------------------------------------------------
(* Nothing that was read is held back.                                     *)

\* A read that waits wants more than the buffer holds.
HeldInv ==
    step \in {"read", "down"} /\ pageMax <= Capacity =>
        /\ state = "leading" => Remains < Lead
        /\ state = "body" => Remains < Lead + leading.size

\* From a peer whose pages fit, the packets up to the last one have arrived.
GotInv ==
    pageMax <= Capacity => got = [i \in 1..last |-> Seen(posted[i])]

\* ConsumeFramePage halts only when it is hungry or skips.
LEMMA HeldStep == FramingInv /\ HeldInv /\ [Next]_vars => HeldInv'
<1> SUFFICES ASSUME FramingInv, HeldInv, [Next]_vars
             PROVE  HeldInv'
  OBVIOUS
<1>1. CASE UNCHANGED <<step, pageMax, state, leading, read, pos>>
  BY <1>1 DEF HeldInv, Remains
<1>2. CASE step' \notin {"read", "down"}
  BY <1>2, Zenon DEF HeldInv
<1>3. CASE state' = "skip"
  BY <1>3, Zenon DEF HeldInv
<1>4. CASE Hungry
  <2>1. /\ UNCHANGED <<read, pos, state, leading>>
        /\ state = "leading" => Remains < Lead
        /\ state = "body" => Remains < Lead + leading.size
    BY <1>4 DEF Hungry, parser
  <2> QED
    BY <2>1 DEF HeldInv, Remains
<1>5. CASE Skip
  <2>1. pageMax > Capacity /\ pageMax' = pageMax
    BY <1>5 DEF Skip, sender, FramingInv, SkipInv
  <2>2. pageMax \in Nat /\ Capacity \in Nat
    BY SizesAssumption DEF FramingInv, TypeOK
  <2>3. ~(pageMax' <= Capacity)
    BY ONLY <2>1, <2>2
  <2> QED
    BY ONLY <2>3, Zenon DEF HeldInv
<1>6. CASE HandleError
  <2>1. read' = 0 /\ pos' = 0 /\ state' = "leading"
    BY <1>6 DEF HandleError, Clear
  <2> QED
    BY ONLY <2>1 DEF HeldInv, Remains, Lead
<1>7. CASE Connect
  <2>1. step = "down" /\ UNCHANGED <<pageMax, state, leading, read, pos>>
    BY <1>7 DEF Connect, sender, parser
  <2> QED
    BY <2>1 DEF HeldInv, Remains
<1>8. CASE Peer
  BY <1>1, <1>8 DEF Peer, Post, parser
<1>9. CASE Lose
  BY <1>2, <1>9 DEF Lose
<1>10. CASE \E n \in 1..Capacity : Read(n)
  BY <1>2, <1>10 DEF Read
<1>11. ASSUME NEW i \in DOMAIN pages, GotLeading(pages[i])
       PROVE  HeldInv'
  <2>1. step = "decode" /\ (step' = step \/ state' = "skip")
    BY <1>11 DEF GotLeading
  <2> QED
    BY <1>2, <1>3, <2>1
<1>12. ASSUME NEW i \in DOMAIN pages,
              Keep(pages[i]) \/ GotPacket(pages[i]) \/ Throw(pages[i])
       PROVE  HeldInv'
  <2>1. step' \in {"decode", "thrown"}
    BY <1>12 DEF Keep, GotPacket, Throw, GotBody, Passed
  <2> QED
    BY <1>2, <2>1
<1>13. CASE UNCHANGED vars
  BY <1>1, <1>13 DEF vars, sender, parser
<1> QED
  BY <1>4, <1>5, <1>6, <1>7, <1>8, <1>9, <1>10, <1>11, <1>12, <1>13
  DEF Next, Parse, Complete

\* The channel's packets, in order, up to the last one.
LEMMA OneMore ==
    ASSUME NEW n \in Nat, NEW S, NEW f \in [1..(n + 1) -> S]
    PROVE  Append([i \in 1..n |-> f[i]], f[n + 1]) = f
<1> DEFINE g == [i \in 1..n |-> f[i]]
<1>1. g \in Seq(S) /\ Len(g) = n
  OBVIOUS
<1>2. \A i \in 1..n : g[i] = f[i]
  OBVIOUS
<1>3. f[n + 1] \in S
  OBVIOUS
<1> DEFINE x == f[n + 1]
<1> HIDE DEF g, x
<1>4. Append(g, x) \in Seq(S) /\ Len(Append(g, x)) = n + 1
  BY <1>1, <1>3 DEF x
<1>5. \A i \in 1..n : Append(g, x)[i] = g[i]
  BY <1>1
<1>6. Append(g, x)[n + 1] = x
  BY <1>1
<1>7. \A i \in 1..(n + 1) : Append(g, x)[i] = f[i]
  <2>1. \A i \in 1..(n + 1) : i \in 1..n \/ i = n + 1
    OBVIOUS
  <2> QED
    BY ONLY <1>2, <1>5, <1>6, <2>1, Zenon DEF x
<1>8. Append(g, x) \in [1..(n + 1) -> S]
  <2>1. ASSUME NEW q \in Seq(S)
        PROVE  q \in [1..Len(q) -> S]
    OBVIOUS
  <2> QED
    BY ONLY <1>4, <2>1
<1>9. Append(g, x) = f
  BY ONLY <1>7, <1>8, f \in [1..(n + 1) -> S]
<1> QED
  BY ONLY <1>9 DEF g, x

LEMMA GotStep == FramingInv /\ GotInv /\ [Next]_vars => GotInv'
<1> SUFFICES ASSUME FramingInv, GotInv, [Next]_vars, pageMax' <= Capacity
             PROVE  got' = [i \in 1..last' |-> Seen(posted'[i])]
  BY DEF GotInv
<1>1. /\ posted \in Seq(Packet) /\ last \in 0..Len(posted)
      /\ pageMax \in Nat /\ Capacity \in Nat
  BY SizesAssumption DEF FramingInv, TypeOK
<1>2. CASE UNCHANGED <<pageMax, posted, last, got>>
  BY <1>2 DEF GotInv
<1>3. CASE Peer
  <2>1. PICK p \in Packet : Post(p)
    BY <1>3 DEF Peer
  <2>2. posted' = Append(posted, p) /\ UNCHANGED <<pageMax, last, got>>
    BY <2>1 DEF Post
  <2>3. \A i \in 1..last : posted'[i] = posted[i]
    BY ONLY <1>1, <2>2, p \in Packet
  <2>4. got = [i \in 1..last |-> Seen(posted[i])]
    BY <2>2 DEF GotInv
  <2>5. [i \in 1..last |-> Seen(posted[i])] = [i \in 1..last |-> Seen(posted'[i])]
    BY ONLY <2>3, Zenon
  <2> QED
    BY ONLY <2>2, <2>4, <2>5
<1>4. CASE Complete
  <2>1. PICK j \in DOMAIN pages : GotPacket(pages[j])
    BY <1>4 DEF Complete
  <2> DEFINE k == pages[j].pkt
  <2>2. /\ k \in DOMAIN posted /\ k > last
        /\ k > last + 1 => pageMax > Capacity
        /\ got' = Append(got, Seen(posted[k]))
        /\ last' = k /\ UNCHANGED sender
    BY <2>1, Delivered
  <2>3. pageMax' = pageMax /\ posted' = posted
    BY <2>2 DEF sender
  <2>4. k \in 1..Len(posted)
    BY <1>1, <2>2
  <2> HIDE DEF k
  <2>5. k = last + 1
    BY <1>1, <2>2, <2>3, <2>4
  <2>6. got = [i \in 1..last |-> Seen(posted[i])]
    BY <2>3 DEF GotInv
  <2> DEFINE f == [i \in 1..(last + 1) |-> Seen(posted[i])]
             S == {Seen(posted[i]) : i \in 1..(last + 1)}
  <2>7. f \in [1..(last + 1) -> S]
    OBVIOUS
  <2>8. last \in Nat /\ last + 1 \in 1..(last + 1)
    BY <1>1
  <2>9. f[last + 1] = Seen(posted[last + 1])
    BY <2>8
  <2>10. [i \in 1..last |-> f[i]] = got
    <3>1. \A i \in 1..last : i \in 1..(last + 1)
      BY <2>8
    <3>2. \A i \in 1..last : f[i] = Seen(posted[i])
      BY ONLY <3>1 DEF f
    <3> QED
      BY ONLY <2>6, <3>2
  <2>11. Append(got, Seen(posted[last + 1])) = f
    <3> HIDE DEF f, S
    <3>1. Append([i \in 1..last |-> f[i]], f[last + 1]) = f
      BY <2>7, <2>8, OneMore
    <3> QED
      BY ONLY <2>9, <2>10, <3>1
  <2> QED
    BY <2>2, <2>3, <2>5, <2>11
<1>5. CASE HandleError
  <2>1. last' = 0 /\ got' = <<>>
    BY <1>5 DEF HandleError
  <2> QED
    BY ONLY <2>1
<1>6. CASE Parse
  BY <1>2, <1>6
  DEF Parse, Read, Hungry, Skip, GotLeading, Keep, Throw, Passed, sender
<1>7. CASE Lose \/ Connect \/ UNCHANGED vars
  BY <1>2, <1>7 DEF Lose, Connect, vars, sender
<1> QED
  BY <1>3, <1>4, <1>5, <1>6, <1>7 DEF Next

\* What the two invariants mean when a read waits.
LEMMA InvWaits == FramingInv /\ HeldInv /\ GotInv => WaitsForMore
<1> SUFFICES ASSUME FramingInv, HeldInv, GotInv, step = "read"
             PROVE  /\ Remains < Capacity
                    /\ read = total /\ pageMax <= Capacity =>
                           /\ pos = total /\ recvBuf = NoBuf
                           /\ got = [i \in 1..Len(posted) |-> Seen(posted[i])]
  BY DEF WaitsForMore
<1>1. Remains < Capacity
  BY DEF FramingInv, RoomInv
<1>2. TypeOK /\ PagesInv /\ Expect
  BY DEF FramingInv, ExpectInv
<1>3. ASSUME read = total, pageMax <= Capacity
      PROVE  /\ pos = total /\ recvBuf = NoBuf
             /\ got = [i \in 1..Len(posted) |-> Seen(posted[i])]
  <2>1. /\ pos \in Nat /\ total \in Nat /\ pageMax \in Nat /\ Capacity \in Nat
        /\ leading.size \in Nat /\ Remains = total - pos
        /\ posted \in Seq(Packet) /\ last \in 0..Len(posted)
        /\ state \in {"leading", "body", "skip"}
    <3>1. /\ pos \in Nat /\ total \in Nat /\ pageMax \in Nat
          /\ Capacity \in Nat /\ leading.size \in Nat
      BY <1>2, Numbers, SizesAssumption DEF TypeOK
    <3>2. /\ posted \in Seq(Packet) /\ last \in 0..Len(posted)
          /\ state \in {"leading", "body", "skip"}
      BY ONLY <1>2 DEF TypeOK
    <3>3. Remains = total - pos
      BY ONLY <1>3 DEF Remains
    <3> QED
      BY ONLY <3>1, <3>2, <3>3
  <2>2. state # "skip"
    <3>1. state = "skip" => pageMax > Capacity
      BY DEF FramingInv, SkipInv
    <3> QED
      BY ONLY <1>3, <2>1, <3>1
  <2>3. ASSUME NEW i \in 1..Len(pages), pages[i].at = pos
        PROVE  pages[i].size \in Nat /\ Remains >= Lead + pages[i].size
    <3>1. /\ pages[i].at \in Nat /\ pages[i].size \in Nat
          /\ PageEnd(pages[i]) <= total
      BY <1>2, PageFacts
    <3> QED
      BY ONLY <2>1, <2>3, <3>1 DEF PageEnd, Lead
  <2>4. /\ state = "leading" => Remains < Lead
        /\ state = "body" => Remains < Lead + leading.size
    BY <1>3 DEF HeldInv
  <2>5. state # "body"
    <3>1. SUFFICES ASSUME state = "body" PROVE FALSE
      OBVIOUS
    <3>2. PICK i \in 1..Len(pages) :
              pages[i].at = pos /\ LeadingOf(pages[i]) = leading
      BY <3>1 DEF FramingInv, BodyInv
    <3>3. pages[i].size = leading.size
      BY <3>2 DEF LeadingOf
    <3>4. Remains >= Lead + leading.size
      BY <2>3, <3>2, <3>3
    <3>5. Remains < Lead + leading.size
      BY <2>4, <3>1
    <3> QED
      BY ONLY <2>1, <3>4, <3>5 DEF Lead
  <2>6. state = "leading" /\ Remains < Lead
    BY ONLY <2>1, <2>2, <2>4, <2>5
  <2>7. Target = pos
    BY <2>6 DEF Target
  <2>8. ~\E i \in 1..Len(pages) : pages[i].at = pos
    <3>1. SUFFICES ASSUME NEW i \in 1..Len(pages), pages[i].at = pos
                   PROVE  FALSE
      OBVIOUS
    <3>2. pages[i].size \in Nat /\ Remains >= Lead + pages[i].size
      BY <2>3, <3>1
    <3> QED
      BY ONLY <2>1, <2>6, <3>2 DEF Lead
  <2>9. pos = total /\ Ready(pageMax, Len(posted) + 1, 0, last, recvBuf)
    BY ONLY <1>2, <2>7, <2>8, Zenon DEF Expect
  <2>10. last = (Len(posted) + 1) - 1 /\ recvBuf = NoBuf
    BY ONLY <1>3, <2>9, Zenon DEF Ready
  <2>11. Len(posted) \in Nat
    BY <2>1
  <2>12. last = Len(posted)
    BY ONLY <2>10, <2>11
  <2>13. got = [i \in 1..last |-> Seen(posted[i])]
    BY <1>3 DEF GotInv
  <2> QED
    BY ONLY <2>9, <2>10, <2>12, <2>13
<1> QED
  BY <1>1, <1>3

\* AsyncReadLoop waits for bytes and for nothing else: it always has room,
\* and when all that was sent is read, every packet was given to OnGotPacket.
THEOREM NothingHeldBack == PathSpec => []WaitsForMore
<1>1. PathInit => HeldInv /\ GotInv
  <2> SUFFICES ASSUME PathInit
               PROVE  HeldInv /\ GotInv
    OBVIOUS
  <2>1. /\ read = 0 /\ pos = 0 /\ state = "leading" /\ last = 0
        /\ got = <<>> 
    BY DEF PathInit, Init, Fresh
  <2>2. HeldInv
    BY ONLY <2>1 DEF HeldInv, Remains, Lead
  <2>3. GotInv
    BY ONLY <2>1 DEF GotInv
  <2> QED
    BY <2>2, <2>3
<1>2. FramingInv /\ HeldInv /\ GotInv /\ [PathNext]_pathVars
          => HeldInv' /\ GotInv'
  BY HeldStep, GotStep, PathStepIsFramingStep
<1> QED
  BY <1>1, <1>2, FramingInvariant, InvWaits, PTL DEF PathSpec

=============================================================================
