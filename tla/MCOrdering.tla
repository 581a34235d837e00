----------------------------- MODULE MCOrdering -----------------------------
(* Instances of Ordering for TLC. *)
EXTENDS Ordering, TLC

CONSTANTS r1, r2, s1, i1

\* Two resets and a sort of one object, whose time may be before or after theirs.
MCMoves == s1 :> {i1}
MCTime  == s1 :> 1

Symmetry == Permutations(Reset)

=============================================================================
