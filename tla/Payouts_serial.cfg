CONSTANTS
  Winnings = {w1}
  Withdrawals = {r1, r2}
  Codes = {c1, c2}
  Copies = {1}
  Admins = {a1}
  AdminTargets = {"ON_HOLD_ADMIN", "CANCELLED"}
  Handlers = {h1}
  Serial = TRUE
  LateStart = FALSE
  MaxVersion = 3
SPECIFICATION Spec
SYMMETRY Symmetry
INVARIANTS NoDoublePayout FailedReleaseMovesNoMoney
PROPERTY LedgerKept
