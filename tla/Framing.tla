------------------------------ MODULE Framing -------------------------------
(***************************************************************************)
(* Packets cut into pages, sent over a TCP stream and put together again.  *)
(*                                                                         *)
(*   src/src/tcp/TcpInnerPacket.cpp   Post, ConsumeFramePage, ConsumePacket*)
(*   src/src/tcp/TcpOuterPacket.cpp   the same with a shorter header       *)
(*   src/src/tcp/kj/KjTcp*.cpp        AsyncReadLoop                        *)
(*                                                                         *)
(* One direction of a connection: the peer posts, this end reads.  A byte  *)
(* is its position in the stream of the connection; a page knows where it  *)
(* begins and which bytes of which packet it carries.  TCP may hand over   *)
(* any number of bytes at a time.  The stream buffer is the one of BipBuf: *)
(* a read is offered all of its free space.  A packet is the lengths of    *)
(* its name and of its body.                                               *)
(***************************************************************************)
EXTENDS Integers, Sequences

CONSTANTS
    Packet,       \* what is posted: the lengths of a type name and of a body
    Header,       \* SIZE_OF_TCP_*_PACKET_LEADING: 16 (inner), 2 (outer)
    NameMod,      \* the name's length has 8 bits: 256
    PageSizes,    \* PER_FRAME_PAGE_SIZE_MAX of the peers' builds (8192)
    Capacity,     \* of the stream buffer: TCP_STREAM_READ_SIZE (8192)
    RecvCap,      \* cap_size of a receive buffer
    MaxPackets    \* bound: packets posted on one connection

Lead == 2         \* SIZE_OF_FRAME_PAGE_LEADING
SizeMod == 16384  \* data_size has 14 bits

ASSUME SizesAssumption ==
    /\ Packet \subseteq [name : Nat, body : Nat]
    /\ Header \in Nat \ {0} /\ NameMod \in Nat \ {0}
    /\ Capacity \in Nat /\ Capacity > Lead
    /\ RecvCap \in Nat /\ MaxPackets \in Nat
    /\ PageSizes \subseteq Nat
    /\ \A m \in PageSizes : m - Lead < SizeMod

\* Post takes a name to fit into the first page.
ASSUME NamesFit ==
    \A m \in PageSizes, p \in Packet : Header + p.name <= m - Lead

VARIABLES
    pageMax,    \* the peer's page size
    posted,     \* packets the peer has posted on this connection
    pages,      \* pages sent
    total,      \* bytes sent
    read,       \* bytes that AsyncReadLoop has committed
    pos,        \* bytes that ConsumeFramePage has passed
    step,       \* in AsyncReadLoop, in ConsumeFramePage, or thrown
    state,      \* _eRecvPageState
    leading,    \* _recv_page_leading
    recvBuf,    \* _ref_recv_buf
    last, got   \* the last packet given to OnGotPacket, and all of them

sender == <<pageMax, posted, pages, total>>
parser == <<state, leading>>
vars == <<sender, read, pos, step, parser, recvBuf, last, got>>

Length(p) == Header + p.name + p.body

\* A receive buffer: it holds the first bytes of packet pkt, or good is FALSE.
NoBuf == [pkt |-> 0, size |-> 0, good |-> FALSE]
NoPage == [start |-> FALSE, end |-> FALSE, size |-> 0]

\* Something that nobody posted.
Garbage == [name |-> 0, body |-> 0]

Fresh ==
    /\ posted = <<>> /\ pages = <<>> /\ total = 0
    /\ read = 0 /\ pos = 0
    /\ step = "down"
    /\ state = "leading" /\ leading = NoPage
    /\ recvBuf = NoBuf
    /\ last = 0 /\ got = <<>>

Init == pageMax \in PageSizes /\ Fresh

-----------------------------------------------------------------------------
(* The peer.                                                               *)

Least(m, n) == IF m <= n THEN m ELSE n

\* The pages of the k-th packet, of length len, behind the bytes sent so far.
Room == pageMax - Lead
Count(len) == (len + Room - 1) \div Room

\* Mutant: the page's own leading is forgotten.
PageTooLarge(k, len, i) ==
    [at |-> total + (i - 1) * pageMax, pkt |-> k, from |-> (i - 1) * Room,
     size |-> Least(pageMax, len - (i - 1) * Room),
     start |-> i = 1, end |-> i = Count(len)]

Page(k, len, i) ==
    [at |-> total + (i - 1) * pageMax, pkt |-> k, from |-> (i - 1) * Room,
     size |-> Least(Room, len - (i - 1) * Room),
     start |-> i = 1, end |-> i = Count(len)]

\* Post: EncodeStream, then a page for each turn of the loop.
Post(p) ==
    /\ step # "down"
    /\ Len(posted) < MaxPackets
    /\ posted' = Append(posted, p)
    /\ pages' = pages \o [i \in 1..Count(Length(p)) |->
                              Page(Len(posted'), Length(p), i)]
    /\ total' = total + Length(p) + Count(Length(p)) * Lead
    /\ UNCHANGED <<pageMax, read, pos, step, parser, recvBuf, last, got>>

-----------------------------------------------------------------------------
(* Reading.                                                                *)

\* AsyncReadLoop: n bytes arrive in the free space and are decoded.
Read(n) ==
    /\ step = "read"
    /\ n \in 1..(total - read)
    /\ n <= Capacity - (read - pos)
    /\ read' = read + n
    /\ step' = "decode"
    /\ UNCHANGED <<sender, pos, parser, recvBuf, last, got>>

Remains == read - pos

\* loop_halt: what was passed is decommitted.
Halt == step' = "read"

\* Mutant: waits for one byte more than it needs.
HungryTooLong ==
    /\ step = "decode"
    /\ \/ state = "leading" /\ Remains < Lead
       \/ state = "body" /\ Remains <= Lead + leading.size
    /\ Halt
    /\ UNCHANGED <<sender, read, pos, parser, recvBuf, last, got>>

\* Hungry for a leading or for a body.
Hungry ==
    /\ step = "decode"
    /\ \/ state = "leading" /\ Remains < Lead
       \/ state = "body" /\ Remains < Lead + leading.size
    /\ Halt
    /\ UNCHANGED <<sender, read, pos, parser, recvBuf, last, got>>

\* Post sends no empty page (TypeOK), which would be error -99 here.
LeadingOf(g) == [start |-> g.start, end |-> g.end, size |-> g.size]

\* Mutant: the leading is not counted when the page is compared.
GotLeadingTooLarge(g) ==
    /\ step = "decode" /\ state = "leading" /\ Remains >= Lead
    /\ g.at = pos
    /\ g.size <= Capacity
    /\ state' = "body" /\ leading' = LeadingOf(g)
    /\ UNCHANGED <<sender, read, pos, step, recvBuf, last, got>>

\* Mutant: the leading is counted as skipped data.
GotLeadingMiscounts(g) ==
    /\ step = "decode" /\ state = "leading" /\ Remains >= Lead
    /\ g.at = pos
    /\ Lead + g.size > Capacity
    /\ state' = "skip"
    /\ leading' = [LeadingOf(g) EXCEPT !.size = (g.size - Remains) % SizeMod]
    /\ pos' = read
    /\ Halt
    /\ UNCHANGED <<sender, read, recvBuf, last, got>>

\* A page that the stream buffer can hold is waited for; of a larger one the
\* buffer's bytes are dropped and data_size counts the rest.
GotLeading(g) ==
    /\ step = "decode" /\ state = "leading" /\ Remains >= Lead
    /\ g.at = pos
    /\ \/ /\ Lead + g.size <= Capacity
          /\ state' = "body" /\ leading' = LeadingOf(g)
          /\ UNCHANGED <<pos, step>>
       \/ /\ Lead + g.size > Capacity
          /\ state' = "skip"
          /\ leading' = [LeadingOf(g) EXCEPT
                            !.size = (g.size - (Remains - Lead)) % SizeMod]
          /\ pos' = read
          /\ Halt
    /\ UNCHANGED <<sender, read, recvBuf, last, got>>

\* The rest of a page that is larger than the buffer.
Skip ==
    /\ step = "decode" /\ state = "skip"
    /\ LET n == Least(Remains, leading.size)
       IN  /\ pos' = pos + n
           /\ leading' = [leading EXCEPT !.size = leading.size - n]
           /\ state' = IF leading.size = n THEN "leading" ELSE "skip"
    /\ Halt
    /\ UNCHANGED <<sender, read, recvBuf, last, got>>

-----------------------------------------------------------------------------
(* ConsumePacket.                                                          *)

\* Mutant: the page overwrites what the buffer holds.
AssembledOver(g) ==
    IF leading.start
    THEN [pkt |-> g.pkt, size |-> g.size, good |-> g.from = 0]
    ELSE [pkt |-> recvBuf.pkt, size |-> g.size, good |-> g.from = 0]

\* The buffer that page g makes: its own bytes, or those of _ref_recv_buf
\* with its bytes behind them.
Assembled(g) ==
    IF leading.start
    THEN [pkt |-> g.pkt, size |-> g.size, good |-> g.from = 0]
    ELSE [pkt |-> recvBuf.pkt, size |-> recvBuf.size + g.size,
          good |-> recvBuf.good /\ g.pkt = recvBuf.pkt
                     /\ g.from = recvBuf.size]

\* The packet's leading, at the start of its first page.
NameLen(b) == posted[b.pkt].name % NameMod

\* A page without its first one; a packet of one page.
Orphan == ~leading.start /\ recvBuf = NoBuf
Single == leading.start /\ leading.end

\* Mutant: takes an empty body for an error.
MalformedEmpty(b) == NameLen(b) = 0 \/ b.size <= Header + NameLen(b)

\* The lengths that ConsumePacket checks before _gotPacketCb.
Malformed(b) == NameLen(b) = 0 \/ b.size < Header + NameLen(b)

\* Does ConsumePacket return one of -1 .. -6 for page g?
Fails(g) ==
    \/ Orphan
    \/ ~Orphan /\ ~Single /\ Assembled(g).size > RecvCap
    \/ ~Orphan /\ leading.end /\ Malformed(Assembled(g))

GotBody(g) ==
    /\ step = "decode" /\ state = "body" /\ Remains >= Lead + leading.size
    /\ g.at = pos

\* The page is passed; the next one may be in the buffer already.
Passed ==
    /\ pos' = pos + Lead + leading.size
    /\ state' = "leading"
    /\ UNCHANGED <<sender, read, step, leading>>

\* A first or a middle page.
Keep(g) ==
    /\ GotBody(g) /\ ~Fails(g) /\ ~leading.end
    /\ recvBuf' = Assembled(g)
    /\ Passed
    /\ UNCHANGED <<last, got>>

\* OnGotPacket divides what it is given by its leading.
Given(b) ==
    IF b.good /\ b.size = Length(posted[b.pkt])
    THEN [name |-> NameLen(b), body |-> b.size - NameLen(b) - Header]
    ELSE Garbage

\* The page that completes a packet: _gotPacketCb.
GotPacket(g) ==
    /\ GotBody(g) /\ ~Fails(g) /\ leading.end
    /\ got' = Append(got, Given(Assembled(g))) /\ last' = Assembled(g).pkt
    /\ recvBuf' = IF Single THEN recvBuf ELSE NoBuf
    /\ Passed

\* A page in error: DecodeStream throws.
Throw(g) ==
    /\ GotBody(g) /\ Fails(g)
    /\ step' = "thrown"
    /\ recvBuf' = IF Single THEN recvBuf ELSE NoBuf
    /\ UNCHANGED <<sender, read, pos, parser, last, got>>

-----------------------------------------------------------------------------
(* Failures.                                                               *)

\* The network fails while a read is pending.
Lose ==
    /\ step = "read"
    /\ step' = "lost"
    /\ UNCHANGED <<sender, read, pos, parser, recvBuf, last, got>>

Failed == step \in {"thrown", "lost"}

\* Mutant: the half-assembled packet survives.
ClearKeepsBuffer == state' = "leading" /\ UNCHANGED <<leading, recvBuf>>

\* CTcpInnerPacket::Clear
Clear == state' = "leading" /\ recvBuf' = NoBuf /\ UNCHANGED leading

\* taskFailed: FlushStream gives up the socket and resets the stream buffer,
\* OnIsolatedError clears the packet.
HandleError ==
    /\ Failed
    /\ step' = "down"
    /\ posted' = <<>> /\ pages' = <<>> /\ total' = 0
    /\ read' = 0 /\ pos' = 0
    /\ Clear
    /\ last' = 0 /\ got' = <<>>
    /\ UNCHANGED pageMax

\* OnLowLevelConnect starts the read loop.
Connect ==
    /\ step = "down"
    /\ step' = "read"
    /\ UNCHANGED <<sender, read, pos, parser, recvBuf, last, got>>

-----------------------------------------------------------------------------

Peer == \E p \in Packet : Post(p)

\* The steps of the worker that end in no callback.
Parse ==
    \/ \E n \in 1..Capacity : Read(n)
    \/ Hungry \/ Skip
    \/ \E i \in DOMAIN pages :
           GotLeading(pages[i]) \/ Keep(pages[i]) \/ Throw(pages[i])

Complete == \E i \in DOMAIN pages : GotPacket(pages[i])

Next == Peer \/ Parse \/ Complete \/ Lose \/ HandleError \/ Connect

Spec == Init /\ [][Next]_vars

-----------------------------------------------------------------------------
(* Properties.                                                             *)

\* Every variable keeps its type; Post sends no empty page and none that is
\* larger than the sender's page size, and the parser never reads ahead of
\* what was committed nor keeps more than the stream buffer holds.
TypeOK ==
    /\ pageMax \in PageSizes
    /\ posted \in Seq(Packet) /\ total \in Nat
    /\ \A i \in DOMAIN pages : pages[i].size \in 1..(pageMax - Lead)
    /\ pos \in Nat /\ read \in pos..total /\ Remains <= Capacity
    /\ step \in {"read", "decode", "thrown", "lost", "down"}
    /\ state \in {"leading", "body", "skip"}
    /\ leading \in [start : BOOLEAN, end : BOOLEAN, size : 0..(SizeMod - 1)]
    /\ recvBuf \in [pkt : Nat, size : Nat, good : BOOLEAN]
    /\ last \in 0..Len(posted) /\ got \in Seq([name : Nat, body : Nat])

Ends == {0} \cup {pages[i].at + Lead + pages[i].size : i \in DOMAIN pages}

\* However TCP cuts the stream, the parser never loses the page boundaries:
\* it expects a leading where a page begins, its body is the body of the page
\* there, and what it still skips ends where the page ends, although the
\* 14-bit data_size of the page is counted down in place.
Aligned ==
    \/ state = "leading" /\ pos \in Ends
    \/ /\ state = "body" /\ pos \in Ends
       /\ \E i \in DOMAIN pages :
              pages[i].at = pos /\ LeadingOf(pages[i]) = leading
    \/ state = "skip" /\ pos + leading.size \in Ends

\* The packet that is being put together is the one that is being sent, its
\* first bytes in order; so a first page never finds a receive buffer, which
\* it would replace without freeing it.
PendingIsPrefix ==
    /\ recvBuf # NoBuf =>
           /\ recvBuf.good /\ recvBuf.pkt \in DOMAIN posted
           /\ recvBuf.size < Length(posted[recvBuf.pkt])
    /\ state = "body" /\ leading.start => recvBuf = NoBuf

\* A connection to a peer whose pages fit is never given up for a packet that
\* has a name of its own length and fits a receive buffer.
ThrowsForCause ==
    step = "thrown" /\ pageMax <= Capacity =>
        \E i \in DOMAIN posted :
            posted[i].name % NameMod = 0 \/ Length(posted[i]) > RecvCap

\* What the other end sees of a packet: a name is cut at its length modulo
\* 256 and the rest of it opens the body.
Seen(p) ==
    [name |-> p.name % NameMod,
     body |-> p.name + p.body - (p.name % NameMod)]

\* AsyncReadLoop waits for bytes and for nothing else.  A read is offered room:
\* the buffer is never full of a page that ConsumeFramePage still waits for
\* (the loop would retry for ever).  And once all that a peer whose pages fit
\* has sent is read, nothing of it is held back: every packet was given to
\* OnGotPacket, and no part of one is left in a buffer.
WaitsForMore ==
    step = "read" =>
        /\ Remains < Capacity
        /\ read = total /\ pageMax <= Capacity =>
               /\ pos = total /\ recvBuf = NoBuf
               /\ got = [i \in 1..Len(posted) |-> Seen(posted[i])]

\* Packets arrive whole, once and in order; only a peer whose pages do not
\* fit the stream buffer loses some.
Promise == INSTANCE Channel WITH lossy <- pageMax > Capacity

Implements == Promise!Spec

=============================================================================
