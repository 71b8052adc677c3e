----------------------------- MODULE MCPeerCalls ----------------------------
(***************************************************************************)
(* Small instances of PeerCalls for TLC.                                   *)
(***************************************************************************)
EXTENDS PeerCalls

CONSTANTS a, b

MCPeers == {a, b}

JustA == {a}

=============================================================================
