----------------------------- MODULE MCPayouts ------------------------------
(***************************************************************************)
(* Payouts for TLC: the symmetry of its sets of identical members.         *)
(***************************************************************************)
EXTENDS Payouts, TLC

Symmetry == Permutations(Winnings) \cup Permutations(Withdrawals) \cup Permutations(Codes)
=============================================================================
