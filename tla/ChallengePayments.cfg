SPECIFICATION Spec
CONSTANTS
  Calls = {c1, c2, c3}
  Challenges <- SmallChallenges
INVARIANTS LockProtects DuplicatesNeedFailedSearch AllOrNothing ConsumedCoversCreated PrizesPaidByPlace
PROPERTY LockReleased
CHECK_DEADLOCK FALSE
