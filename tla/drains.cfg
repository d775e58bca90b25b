SPECIFICATION MCSpec
CONSTANTS
  Depth = 2
  Codes = {"beam", "tick", "null"}
  NullCode = "null"
  DROP_NULL = TRUE
  HasData = {"beam"}
  EventGap = 3
  MaxEvents = 3
  DropCodes <- MCDropCodes
  Retain = 2
  PageSize = 2
  Days = 2
  MaxIds = 4
  MaxErrors = 1
  MaxCrashes = 1
INVARIANTS
  NothingIsPassedOver
  CollectedExactlyOnce
  LedgerBalances
  AtMostOneMisfiltered
PROPERTIES
  RepeatsOnlyUnsaved
  EventuallyArchived
  EventuallyCollected
