----------------------------- MODULE MCJourney -----------------------------
(* Instances of Journey for TLC. *)
EXTENDS Journey

(* A journey is due at 2 or 3 instants, alerts follow two instants later;  *)
(* the scan looks as far ahead as a request must leave time.               *)
=============================================================================
