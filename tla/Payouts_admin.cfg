CONSTANTS
  Winnings = {w1}
  Withdrawals = {r1, r2}
  Codes = {c1, c2}
  Copies = {1}
  Admins = {a1}
  AdminTargets = {"OWED", "ON_HOLD_ADMIN", "CANCELLED"}
  Handlers = {}
  Serial = TRUE
  LateStart = FALSE
  MaxVersion = 4
SPECIFICATION Spec
INVARIANTS AdminVersionGuard
PROPERTIES CancelledRevivedOnlyByPayout DateKeptOnlyAfterHold
\* Calls, codes and edits are used up in the end.
CHECK_DEADLOCK FALSE
