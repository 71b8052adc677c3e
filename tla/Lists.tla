------------------------------- MODULE Lists --------------------------------
(***************************************************************************)
(* The order list that internal/session and internal/auth both keep beside *)
(* a map: a Go slice of keys, compacted in place now and then.             *)
(***************************************************************************)
EXTENDS Integers, Sequences, FiniteSets, SequencesExt

\* kept := s[:0] and the loop that appends to it: the entries of seq that are
\* in kept, in their order.
compact(seq, kept) ==
    LET at     == {i \in DOMAIN seq : seq[i] \in kept}
        nth(n) == CHOOSE i \in at : Cardinality({j \in at : j <= i}) = n
    IN  [n \in 1..Cardinality(at) |-> seq[nth(n)]]

=============================================================================
