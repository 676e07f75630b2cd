------------------------------ MODULE MCBreaker ------------------------------
(* Small instances of Breaker. *)
EXTENDS Breaker
=============================================================================
