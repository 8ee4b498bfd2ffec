SPECIFICATION OnceSpec
CONSTANTS
  Members = {m1, m2}
  Codes = {1, 2, 3}
  Digits = {g1, g2}
  Calls = {c1, c2}
  Validity = 1
  MaxTime = 3
  Events = {e1, e2}
  Handled = {e1}
  Deliveries = {d1, d2, d3}
INVARIANTS DuplicatesNeedOverlap ProcessedMeansRan TwiceOnlyIfOverlapped AnsweredMeansLogged
PROPERTIES CodesAreOneTime EventsSettle
CHECK_DEADLOCK FALSE
