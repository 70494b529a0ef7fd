\* A running clock, fair on its tick only: no client need ever release.  Requests
\* for a zero lifetime, the default, and one above the maximum.
SPECIFICATION FairSpec
CONSTANTS
  Client = {c1, c2}
  Coin = {k1, k2}
  AskedTtl = {0, 3}
  MOCK_MAX_TTL_SECS = 2
  MOCK_DEFAULT_TTL_SECS = 1
  ClockRuns = TRUE
  Horizon = 4
  MaxIds = 2
  MaxMints = 2
PROPERTIES EveryHoldLapses HonoursContract
CHECK_DEADLOCK FALSE
