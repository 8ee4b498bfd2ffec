--------------------------- MODULE MCPayoutSetup ---------------------------
(***************************************************************************)
(* PayoutSetup with interchangeable calls, forms, accounts and payments.   *)
(***************************************************************************)
EXTENDS PayoutSetup, TLC

Symmetry == Permutations(Calls) \cup Permutations(Forms)
              \cup Permutations(Accounts) \cup Permutations(Payments)
=============================================================================
