SPECIFICATION Spec
CONSTANTS
  Client = {c1}
  Method <- ProxiedOnly
  Key = {k1}
  Spelled = {"bare"}
  AskedMargin = {}
  MAX_SAFETY_MARGIN_BP = 2
  DEFAULT_SAFETY_MARGIN_BP = 1
  Wire = TRUE
  Lossy = FALSE
  MaxKeys = 0
  MaxCalls = 1
INVARIANT ExactlyOneOfResultAndError
CHECK_DEADLOCK FALSE
