---------------------------- MODULE MCPacketPath ----------------------------
(* A small instance of PacketPath for TLC.                                 *)
EXTENDS PacketPath

\* With one byte of header, a name length of one bit, receive buffers of 9
\* bytes, and pages of 6 or of 8 bytes where the stream buffer holds 6: a
\* packet of one page, one of up to three pages whose name is too long, one
\* whose name seems empty, and one that is too large.
Packets == {[name |-> 1, body |-> 0], [name |-> 3, body |-> 5],
            [name |-> 2, body |-> 0], [name |-> 3, body |-> 6]}

=============================================================================
