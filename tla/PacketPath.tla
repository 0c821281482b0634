----------------------------- MODULE PacketPath -----------------------------
(***************************************************************************)
(* A packet's way from the peer's Post to the application: Framing on the  *)
(* worker, whose callbacks go through TrunkQueue to the main thread.       *)
(*                                                                         *)
(* While the worker is in Add it does nothing else.  A packet is added by  *)
(* OnGotPacket, the connection's events by OnLowLevelConnect and           *)
(* OnLowLevelDisconnect.                                                   *)
(***************************************************************************)
EXTENDS Framing, TrunkQueue

pathVars == <<vars, trunkVars>>

PathInit == Init /\ TrunkInit

\* The network and the peer need neither thread.
Outside == (Peer \/ Lose) /\ UNCHANGED trunkVars

Decode == Parse /\ ~adding /\ UNCHANGED trunkVars

\* CKjIsolatedConn::OnGotPacket -> AddIsolatedInnerPacketCb.
OnGotPacket == Complete /\ Enqueue

\* OnIsolatedError -> OnLowLevelDisconnect adds a callback unless the
\* application was not told of the connect.
OnIsolatedError ==
    /\ HandleError /\ ~adding
    /\ Enqueue \/ UNCHANGED trunkVars

\* OnLowLevelConnect adds a callback unless the last disconnect callback has
\* not run yet.
OnLowLevelConnect ==
    /\ Connect /\ ~adding
    /\ Enqueue \/ UNCHANGED trunkVars

Worker ==
    \/ Decode \/ OnGotPacket \/ OnIsolatedError \/ OnLowLevelConnect
    \/ Notify /\ UNCHANGED vars

Main == MainNext /\ UNCHANGED vars

PathNext == Outside \/ Worker \/ Main

PathSpec == PathInit /\ [][PathNext]_pathVars

\* Both threads run, what was sent arrives, and the main thread's read loop
\* serves a pipe that has bytes.
PathFairSpec ==
    /\ PathSpec
    /\ WF_pathVars(Worker)
    /\ WF_pathVars((\E n \in 1..ReadSize : Wake(n)) /\ UNCHANGED vars)
    /\ WF_pathVars((RunCallback \/ RunEnds) /\ UNCHANGED vars)

-----------------------------------------------------------------------------
(* Properties.                                                             *)

\* Every variable of both threads keeps its type.
PathTypeOK == TypeOK /\ TrunkTypeOK

Arrived == last = Len(posted) /\ waiting = 0

\* From a peer whose pages fit, whatever is posted reaches the application:
\* every packet is parsed and its callback run, unless the connection fails
\* or the application shuts down.  No page waits in the stream buffer and no
\* callback in the queue for bytes that do not come.
EndToEnd ==
    pageMax <= Capacity /\ posted # <<>> ~>
        Arrived \/ Failed \/ step = "down" \/ byHand

=============================================================================
