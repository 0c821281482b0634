------------------------------ MODULE Registry ------------------------------
(***************************************************************************)
(* What the account manager promises to the lobby: who is registered, from *)
(* which connection, and who of them is online.  A uid may be registered   *)
(* from two connections, which is a conflict that the lobby resolves, and  *)
(* never from a third.                                                     *)
(***************************************************************************)

CONSTANTS
    Uid, Conn

VARIABLES
    logins,    \* pairs of a uid and the connection that registered it
    online     \* those that are online

vars == <<logins, online>>

ConnsOf(u) == {c \in Conn : <<u, c>> \in logins}

Init == logins = {} /\ online = {}

\* A connection registers a uid that has at most one other connection.
Join(u, c) ==
    /\ c \notin ConnsOf(u) /\ \A d, e \in ConnsOf(u) : d = e
    /\ logins' = logins \cup {<<u, c>>}
    /\ online' = online \cup {<<u, c>>}

\* The only connection of a uid registers it again.
Rejoin(u, c) ==
    /\ ConnsOf(u) = {c}
    /\ online' = online \cup {<<u, c>>}
    /\ UNCHANGED logins

Drop(u, c) ==
    /\ <<u, c>> \in online
    /\ online' = online \ {<<u, c>>}
    /\ UNCHANGED logins

Leave(u, c) ==
    /\ <<u, c>> \in logins
    /\ logins' = logins \ {<<u, c>>}
    /\ online' = online \ {<<u, c>>}

Next == \E u \in Uid, c \in Conn :
            Join(u, c) \/ Rejoin(u, c) \/ Drop(u, c) \/ Leave(u, c)

Spec == Init /\ [][Next]_vars

=============================================================================
