SPECIFICATION FairSpec
CONSTANTS
  SpendId = {1, 2, 3}
  Instant = {1, 2}
  Edge = {2}
  Status = {"submitted"}
  Limit = {0, 1, 2, 3}
  SPENDS_LIST_MAX_LIMIT = 2
  MaxRevisions = 1
  MaxUnreadable = 1
INVARIANTS TypeOK NothingMissedUntold NoSpendTwice SettledRowsAreTrue
PROPERTIES WalkEnds
CHECK_DEADLOCK FALSE
