SPECIFICATION ReadsSpec
CONSTANTS
  CoinId = {1, 2, 3, 4, 5}
  Limit = {0, 1, 2, 4}
  COINS_MAX_LIMIT = 3
  PageSize = {1, 2}
  MaxSeq = 4
INVARIANTS TypeOK NothingMissed NoCoinTwice NoneSteppedOver ToldOnce
PROPERTIES CursorAdvances WalkEnds EveryArrivalIsTold
CHECK_DEADLOCK FALSE
