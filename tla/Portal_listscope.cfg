SPECIFICATION PortalSpec
CONSTANTS
  DayLength = 2
  Week = 1
  Month = 2
  Catalog <- SmallCatalog
  Requests <- SmallRequests
  AccountSets <- SmallAccountSets
  Statuses = {"OWED", "PAID"}
  BatchSize = 1
  MaxClock = 0
  MaxVersion = 1
  Members = {"m", "n"}
  Emails = {"e1", "e2", "e3", "refused"}
  Refused = {"refused"}
  Ids = {1, 2, 3}
  LinkCalls = {1, 2}
INVARIANTS ListNeedsReadScope
CHECK_DEADLOCK FALSE
