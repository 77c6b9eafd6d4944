--------------------------- MODULE MCPeerListText ---------------------------
(***************************************************************************)
(* Instances of PeerListText for TLC.                                      *)
(***************************************************************************)
EXTENDS PeerListText

CONSTANTS n1, n2

TwoDigits == {<< 6, 5 >>}
=============================================================================
