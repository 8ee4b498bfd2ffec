CONSTANTS
  Winnings = {w1}
  Withdrawals = {r1, r2}
  Codes = {c1, c2}
  Copies = {1}
  Admins = {}
  AdminTargets = {"OWED"}
  Handlers = {}
  Serial = FALSE
  LateStart = FALSE
  MaxVersion = 1
SPECIFICATION Spec
SYMMETRY Symmetry
INVARIANTS NoDoublePayout
\* Calls, codes and edits are used up in the end.
CHECK_DEADLOCK FALSE
