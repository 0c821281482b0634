------------------------------ MODULE Channel -------------------------------
(***************************************************************************)
(* What packet framing promises to the two ends of a connection: packets   *)
(* arrive whole, at most once and in the order they were posted.  A lossy  *)
(* channel may pass packets over; every channel may break, and then starts *)
(* again empty.                                                            *)
(***************************************************************************)
EXTENDS Naturals, Sequences

CONSTANTS
    Packet,    \* what may be posted
    Seen(_)    \* what the other end sees of a packet

VARIABLES
    lossy,     \* may packets be passed over?
    posted,    \* the packets posted since the channel was opened
    last,      \* the position in posted of the last packet that arrived
    got        \* what has arrived

vars == <<lossy, posted, last, got>>

Init ==
    /\ lossy \in BOOLEAN
    /\ posted = <<>> /\ last = 0 /\ got = <<>>

Post(p) ==
    /\ posted' = Append(posted, p)
    /\ UNCHANGED <<lossy, last, got>>

Deliver(k) ==
    /\ k > last /\ (k > last + 1 => lossy)
    /\ got' = Append(got, Seen(posted[k]))
    /\ last' = k
    /\ UNCHANGED <<lossy, posted>>

Break ==
    /\ posted' = <<>> /\ last' = 0 /\ got' = <<>>
    /\ UNCHANGED lossy

Next ==
    \/ \E p \in Packet : Post(p)
    \/ \E k \in DOMAIN posted : Deliver(k)
    \/ Break

Spec == Init /\ [][Next]_vars

=============================================================================
