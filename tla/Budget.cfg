SPECIFICATION Spec
CONSTANTS
  Kinds = {"CHALLENGE", "ENGAGEMENT"}
  Payments = {p1, p2}
  Admins = {a1, a2}
  Amounts = {0, 2}
  Markup = 3333
  MaxVersion = 3
SYMMETRY Symmetry
INVARIANTS TypeOK EngagementFunded RoundingBounded BackfillKeepsRightRows
PROPERTIES LoneSyncRepairs LoneEditRepairsRows
CHECK_DEADLOCK FALSE
