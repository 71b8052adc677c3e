-------------------------- MODULE MCAttemptLimiter --------------------------
(***************************************************************************)
(* A small instance of AttemptLimiter for TLC.                             *)
(***************************************************************************)
EXTENDS AttemptLimiter

CONSTANTS a, b, x

\* a and b are configured; x is an identifier nobody has.
MCClients    == {a, b, x}
MCConfigured == {a, b}

Interchangeable == Permutations(MCConfigured)

=============================================================================
