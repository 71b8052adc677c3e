--------------------------- MODULE MCControlPlane ---------------------------
(***************************************************************************)
(* Small instances of ControlPlane for TLC.                                *)
(***************************************************************************)
EXTENDS ControlPlane

CONSTANTS a, b

MCPeers == {a, b}

\* AllowAll, the policy the server is built with.
MCPolicy == MCPeers \X MCPeers

MCPaths == {PathUnknown}

JustA == {a}

JustB == {b}

=============================================================================
