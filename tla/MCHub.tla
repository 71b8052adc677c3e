------------------------------- MODULE MCHub --------------------------------
(***************************************************************************)
(* Small instances of Hub for TLC.                                         *)
(***************************************************************************)
EXTENDS Hub, TLC

CONSTANTS a, b, c, a1, a2, b1, s, t

MCPeers == {a, b, c}
MCConns == {a1, a2, b1}

\* a reconnects once; c holds no channel.
MCOwner == (a1 :> a) @@ (a2 :> a) @@ (b1 :> b)

\* a is not in t.
MCSessions == {s, t}
MCParties  == (s :> {a, b}) @@ (t :> {b, c})

\* The two connections of a.
ConnSymmetry == Permutations({a1, a2})

OneEach == [conn \in MCConns |-> 1]

TwoConns  == {a1, b1}
TwoOwners == (a1 :> a) @@ (b1 :> b)

\* a sends across the windows and b only listens.
JustA == (a1 :> 3) @@ (b1 :> 0)

OneSession == {s}
OnePair    == s :> {a, b}

=============================================================================
