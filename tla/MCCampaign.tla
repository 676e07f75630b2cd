----------------------------- MODULE MCCampaign -----------------------------
(* Small instances of Campaign. *)
EXTENDS Campaign, TLC

CONSTANTS r1, r2, u1, u2, s1, s2, none

Symmetry == Permutations({r1, r2}) \cup Permutations({u1, u2}) \cup Permutations({s1, s2})
=============================================================================
