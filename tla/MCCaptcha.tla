----------------------------- MODULE MCCaptcha -----------------------------
(***************************************************************************)
(* A few concurrent requests for one phone number from one address.        *)
(***************************************************************************)
EXTENDS Captcha, TLC

Symmetry == Permutations(Requests)

=============================================================================
