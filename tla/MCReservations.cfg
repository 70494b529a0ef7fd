\* Two processes, two coins, a running clock: requests for a zero lifetime,
\* the default, and one above the node's maximum.
SPECIFICATION Spec
CONSTANTS
  Client = {c1, c2}
  Coin = {k1, k2}
  AskedTtl = {0, 3}
  MOCK_MAX_TTL_SECS = 2
  MOCK_DEFAULT_TTL_SECS = 1
  ClockRuns = TRUE
  Horizon = 3
  MaxIds = 2
  MaxMints = 3
SYMMETRY Symmetry
INVARIANTS
  TypeOK
  LiveHoldsDisjoint
  HoldsAreBounded
  BackedUnlessReused
  ExclusiveUnlessReused
CHECK_DEADLOCK FALSE
