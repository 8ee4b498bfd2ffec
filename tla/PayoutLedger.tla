---------------------------- MODULE PayoutLedger ----------------------------
(***************************************************************************)
(* What the payout path promises about money, and no more: a payout starts *)
(* once, for winnings that no other payout pays or has paid; it is paid or *)
(* it fails, and a paid one may come back; and the books, in whatever      *)
(* order and however late they are kept, say of money only what is so.     *)
(* Payouts.tla implements it.                                              *)
(***************************************************************************)
CONSTANTS
  Winnings,
  Payouts,
  Exclusive,      \* TRUE: no winning is in two payouts at once
  Definite        \* TRUE: a payout that is said to have failed does not start or pay

VARIABLES
  money,          \* what happened to the money of each payout
  batch,          \* the winnings that a payout which started is for
  outcome,        \* what the release of a payout says became of it
  dated           \* the winnings that the books date as paid

ledgerVars == <<money, batch, outcome, dated>>

TypeOK ==
  /\ money \in [Payouts -> {"none", "moving", "paid", "failed", "returned"}]
  /\ batch \in [Payouts -> SUBSET Winnings]
  /\ outcome \in [Payouts -> {"unknown", "paid", "failed", "returned"}]
  /\ dated \subseteq Winnings

Init ==
  /\ money = [p \in Payouts |-> "none"]
  /\ batch = [p \in Payouts |-> {}]
  /\ outcome = [p \in Payouts |-> "unknown"]
  /\ dated = {}

Live(p) == money[p] \in {"moving", "paid"}

\* The only step that makes money move.
Start(p, W) ==
  /\ money[p] = "none"
  /\ Exclusive => \A q \in Payouts : Live(q) => batch[q] \cap W = {}
  /\ Definite => outcome[p] # "failed"
  /\ money' = [money EXCEPT ![p] = "moving"]
  /\ batch' = [batch EXCEPT ![p] = W]
  /\ UNCHANGED <<outcome, dated>>

Settle(p, to) ==
  /\ \/ money[p] = "moving" /\ to \in {"paid", "failed"}
     \/ money[p] = "paid" /\ to = "returned"
  /\ money' = [money EXCEPT ![p] = to]
  /\ UNCHANGED <<batch, outcome, dated>>

\* The release of p is marked, long after or never, and again.
Report(p, o) ==
  /\ o = "paid" => money[p] \in {"paid", "returned"}
  /\ o = "returned" => money[p] = "returned"
  /\ o = "failed" /\ Definite => ~Live(p)
  /\ o # "unknown"
  /\ outcome' = [outcome EXCEPT ![p] = o]
  /\ UNCHANGED <<money, batch, dated>>

\* The winnings of p are dated as paid.
Date(p) ==
  /\ money[p] \in {"paid", "returned"}
  /\ dated' = dated \cup batch[p]
  /\ UNCHANGED <<money, batch, outcome>>

\* A winning is put back to be paid again, and the payouts F with it given up.
Reopen(w, F) ==
  /\ ~Definite
  /\ dated' \in {dated, dated \ {w}}
  /\ \A p \in F : w \in batch[p] \/ money[p] = "none"
  /\ outcome' = [p \in Payouts |-> IF p \in F THEN "failed" ELSE outcome[p]]
  /\ UNCHANGED <<money, batch>>

Next ==
  \/ \E p \in Payouts :
       \/ \E W \in SUBSET Winnings : Start(p, W)
       \/ \E to \in {"paid", "failed", "returned"} : Settle(p, to) \/ Report(p, to)
       \/ Date(p)
  \/ \E w \in Winnings, F \in SUBSET Payouts : Reopen(w, F)

Spec == Init /\ [][Next]_ledgerVars
=============================================================================
