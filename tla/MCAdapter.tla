------------------------------ MODULE MCAdapter -------------------------------
(* Small instances of MulesoftAdapter for TLC. *)
EXTENDS MulesoftAdapter, TLC

CONSTANTS e1, e2

Simetria == Permutations({e1, e2})
=============================================================================
