----------------------------- MODULE MCPeerMatch -----------------------------
(***************************************************************************)
(* Instances of PeerMatch for TLC.                                         *)
(***************************************************************************)
EXTENDS PeerMatch

Corner   == <<0, 0>>
Center   == <<1, 1>>
=============================================================================
