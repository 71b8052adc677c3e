---------------------------- MODULE MCPeerClient ----------------------------
(***************************************************************************)
(* Small instances of PeerClient for TLC.                                  *)
(***************************************************************************)
EXTENDS PeerClient

CONSTANTS s1, s2, s3, l1, l2

MCSockets == {s1, s2, s3}

MCLoops == {l1, l2}

=============================================================================
