------------------------------ MODULE MCContact ------------------------------
(* Small instances of Contact. *)
EXTENDS Contact, TLC

Symmetry == Permutations(Request)
=============================================================================
