------------------------------ MODULE MCQuota ------------------------------
(***************************************************************************)
(* The wallet with a few identical clients.  DefaultGrant is an odd number *)
(* of prices away from nothing, so that the last Price is contended.       *)
(***************************************************************************)
EXTENDS Quota, TLC

Symmetry == Permutations(Clients)

=============================================================================
