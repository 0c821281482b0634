----------------------------- MODULE ClientLife -----------------------------
(***************************************************************************)
(* What the connection manager promises about a client object that two     *)
(* threads use: it is created once, for a stream that was offered; the     *)
(* main thread hands it to commands only while it serves it; it is given   *)
(* up once, and deleted only when no command uses it any more, the worker  *)
(* has disposed of its stream and the application knows it as disconnected.*)
(*                                                                         *)
(* The commands are counted here by one reference count that is read and   *)
(* changed in one step.  Callbacks are no references.                      *)
(***************************************************************************)
EXTENDS Naturals

CONSTANT Conns

VARIABLES
    stage,   \* [Conns -> Stage]
    refs,    \* [Conns -> Nat]: the commands that use the client
    up,      \* the clients that the application knows as connected
    gone     \* the clients whose stream the worker has disposed of

vars == <<stage, refs, up, gone>>

Stage == {"absent", "offered", "serving", "retired", "deleted"}

Init ==
    /\ stage = [c \in Conns |-> "absent"]
    /\ refs = [c \in Conns |-> 0]
    /\ up = {} /\ gone = {}

Move(c, from, to) ==
    /\ stage[c] = from
    /\ stage' = [stage EXCEPT ![c] = to]

Acquire(c) == refs' = [refs EXCEPT ![c] = @ + 1]

Offer(c) ==
    /\ Move(c, "absent", "offered")
    /\ UNCHANGED <<refs, up, gone>>

\* The first command confirms the client to the worker.
Create(c) ==
    /\ Move(c, "offered", "serving")
    /\ Acquire(c)
    /\ up' = up \cup {c}
    /\ UNCHANGED gone

Use(c) ==
    /\ stage[c] = "serving"
    /\ Acquire(c)
    /\ UNCHANGED <<stage, up, gone>>

\* The last command disposes of the client.
Retire(c) ==
    /\ Move(c, "serving", "retired")
    /\ Acquire(c)
    /\ up' \in {up, up \ {c}}
    /\ UNCHANGED gone

Disconnect(c) ==
    /\ stage[c] = "retired"
    /\ up' = up \ {c}
    /\ UNCHANGED <<stage, refs, gone>>

Finish(c) ==
    /\ refs[c] > 0
    /\ refs' = [refs EXCEPT ![c] = @ - 1]
    /\ UNCHANGED <<stage, up, gone>>

Dispose(c) ==
    /\ stage[c] \in {"serving", "retired"}
    /\ gone' = gone \cup {c}
    /\ UNCHANGED <<stage, refs, up>>

Delete(c) ==
    /\ Move(c, "retired", "deleted")
    /\ refs[c] = 0 /\ c \notin up /\ c \in gone
    /\ UNCHANGED <<refs, up, gone>>

Next ==
    \E c \in Conns :
        \/ Offer(c) \/ Create(c) \/ Use(c) \/ Retire(c) \/ Disconnect(c)
        \/ Finish(c) \/ Dispose(c) \/ Delete(c)

Spec == Init /\ [][Next]_vars

=============================================================================
