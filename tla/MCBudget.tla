------------------------------ MODULE MCBudget ------------------------------
(***************************************************************************)
(* Budget with interchangeable payments and admins.                        *)
(***************************************************************************)
EXTENDS Budget

Symmetry == Permutations(Payments) \cup Permutations(Admins)
=============================================================================
