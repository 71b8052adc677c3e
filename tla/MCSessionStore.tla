--------------------------- MODULE MCSessionStore ---------------------------
(***************************************************************************)
(* Small instances of SessionStore for TLC.                                *)
(***************************************************************************)
EXTENDS SessionStore

CONSTANTS a, b, c

MCPeers == {a, b, c}

\* Everybody may call everybody, except that c may not call a.
MCPolicy == (MCPeers \X MCPeers) \ {<<c, a>>}

MCAllowAll == MCPeers \X MCPeers

\* The path decides nothing the store does.
MCNoPaths == {PathUnknown}

PeerSymmetry == Permutations(MCPeers)

=============================================================================
