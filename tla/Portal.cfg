SPECIFICATION PortalSpec
CONSTANTS
  DayLength = 2
  Week = 1
  Month = 2
  Catalog <- SmallCatalog
  Requests <- SmallRequests
  AccountSets <- SmallAccountSets
  Statuses = {"OWED", "PAID"}
  BatchSize = 1
  MaxClock = 2
  MaxVersion = 2
  Members = {"m", "n"}
  Emails = {"e1", "e2", "e3", "refused"}
  Refused = {"refused"}
  Ids = {1, 2, 3}
  LinkCalls = {1, 2}
INVARIANTS ExportFaithful PageAndTotalAgree ScopedListing ListingComplete OthersWinningsNeedARole WalletShowsWithdrawable OneRecipientUnlessOverlap GivenLinkIsFinal AccountsReachTheMember
CHECK_DEADLOCK FALSE
