-------------------------- MODULE MC_TCPReassembly --------------------------
(***************************************************************************)
(* The TLC instance of TCPReassembly: the sender may cut a retransmission  *)
(* at any boundary and send pure ACKs.  The .cfg lets the stream cross the *)
(* end of the sequence number space.                                       *)
(***************************************************************************)
EXTENDS TCPReassembly

AnySegments == {s \in (0..StreamLen) \X (0..StreamLen) :
                  /\ s[1] + s[2] <= StreamLen
                  /\ s[2] = 0 => s[1] = 0}
=============================================================================
