----------------------------- MODULE MCAccount -----------------------------
(***************************************************************************)
(* A few requests of a few people, two of them at a time, with room for    *)
(* one user.                                                               *)
(***************************************************************************)
EXTENDS Account, TLC

Symmetry == Permutations(OpenIDs) \cup Permutations(Phones)
            \cup Permutations(Slots)

=============================================================================
