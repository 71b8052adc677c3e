----------------------------- MODULE MCRegistry -----------------------------
(***************************************************************************)
(* A small instance of Registry for TLC.                                   *)
(***************************************************************************)
EXTENDS Registry

CONSTANTS a, b, c

MCPeers == {a, b, c}

=============================================================================
