\* The pinned clock, and a caller that asks for a hold of zero seconds.
SPECIFICATION Spec
CONSTANTS
  Client = {c1, c2}
  Coin = {k1, k2}
  AskedTtl = {0}
  MOCK_MAX_TTL_SECS = 2
  MOCK_DEFAULT_TTL_SECS = 1
  ClockRuns = FALSE
  Horizon = 2
  MaxIds = 2
  MaxMints = 2
PROPERTY ReleaseReportsOnlyLiveHolds
CHECK_DEADLOCK FALSE
