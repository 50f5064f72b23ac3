----------------------------- MODULE MCCheckIn -----------------------------
(***************************************************************************)
(* One day with a few instants: the scheduler's run, the reminder time,    *)
(* the end of the grace time, the deadline, the end of the day.            *)
(***************************************************************************)
EXTENDS CheckIn, TLC

Symmetry == Permutations(Users)

=============================================================================
