SPECIFICATION FairSpec
CONSTANTS
  Client = {c1}
  Method <- WholeCatalog
  Key = {k1, k2}
  Spelled = {"bare", "prefixed", "malformed"}
  AskedMargin = {0, 3}
  MAX_SAFETY_MARGIN_BP = 2
  DEFAULT_SAFETY_MARGIN_BP = 1
  Wire = TRUE
  Lossy = FALSE
  MaxKeys = 2
  MaxCalls = 1
INVARIANTS OnlyCheckedCallsRun AnswersAreOwn
PROPERTIES EveryCallIsAnswered HonoursContract
CHECK_DEADLOCK FALSE
