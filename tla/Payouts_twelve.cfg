CONSTANTS
  Winnings = {w1}
  Withdrawals = {r1, r2}
  Codes = {c1, c2}
  Copies = {1}
  Admins = {a1}
  AdminTargets = {"OWED"}
  Handlers = {}
  Serial = TRUE
  LateStart = FALSE
  MaxVersion = 6
SPECIFICATION Spec
SYMMETRY Symmetry
INVARIANTS TwelveHourRule
\* Calls, codes and edits are used up in the end.
CHECK_DEADLOCK FALSE
