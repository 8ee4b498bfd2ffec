SPECIFICATION Spec
CONSTANTS
  Kinds = {"CHALLENGE"}
  Payments = {p1}
  Admins = {a1}
  Amounts = {1}
  Markup = 3333
  MaxVersion = 2
PROPERTY CompletedBudgetReleased
CHECK_DEADLOCK FALSE
