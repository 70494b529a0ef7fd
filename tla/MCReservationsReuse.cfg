\* The pinned clock of the test build: every hold stays live for ever.
SPECIFICATION Spec
CONSTANTS
  Client = {c1, c2}
  Coin = {k1, k2}
  AskedTtl = {3}
  MOCK_MAX_TTL_SECS = 2
  MOCK_DEFAULT_TTL_SECS = 1
  ClockRuns = FALSE
  Horizon = 2
  MaxIds = 2
  MaxMints = 3
INVARIANT CallerHoldsWhatItWasGranted
CHECK_DEADLOCK FALSE
