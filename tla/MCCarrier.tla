------------------------------ MODULE MCCarrier ------------------------------
(* Small instances of Carrier. *)
EXTENDS Carrier

=============================================================================
