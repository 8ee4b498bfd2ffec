CONSTANTS
  Winnings = {w1, w2}
  Withdrawals = {r1, r2}
  Codes = {c1, c2}
  Copies = {1}
  Admins = {}
  AdminTargets = {"CANCELLED"}
  Handlers = {}
  Serial = FALSE
  LateStart = TRUE
  MaxVersion = 3
SPECIFICATION Spec
SYMMETRY Symmetry
INVARIANTS TypeOK OneReleasePerCode PaidMeansPaidOut ProcessingHasPayment
\* Calls, codes and edits are used up in the end.
CHECK_DEADLOCK FALSE
