----------------------------- MODULE MCAccounts -----------------------------
(* Accounts for TLC: user ids and connections are interchangeable, and what *)
(* a released slot still holds is never read again: every operation looks   *)
(* at the used slots or at is_ready, and Alloc clears the slot.             *)
EXTENDS Accounts, TLC

Symmetry == Permutations(Uid) \cup Permutations(Conn)

Seen(s) == IF s \in used THEN acc[s] ELSE [Blank EXCEPT !.ready = acc[s].ready]

View == <<unused, used, [s \in Slot |-> Seen(s)], onlineCount, maps, walk>>

=============================================================================
