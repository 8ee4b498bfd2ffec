SPECIFICATION Spec
CONSTANTS
  Calls = {c1, c2, c3}
  Rows = {c1, c2, c3, r0}
  Forms = {f1}
  Accounts = {a1, a2}
  Payments = {p1}
SYMMETRY Symmetry
INVARIANTS LoneReconcileRepairs LoneAccountEventRepairs
PROPERTY DowngradeNeedsOverlap
CHECK_DEADLOCK FALSE
