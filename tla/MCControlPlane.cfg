SPECIFICATION Spec
CONSTANTS
  Client = {c1, c2}
  Method <- Stateful
  Key = {k1, k2}
  Spelled = {"bare"}
  AskedMargin = {0, 3}
  MAX_SAFETY_MARGIN_BP = 2
  DEFAULT_SAFETY_MARGIN_BP = 1
  Wire = TRUE
  Lossy = TRUE
  MaxKeys = 1
  MaxCalls = 3
SYMMETRY Symmetry
INVARIANTS TypeOK AnswersAreOwn CountsReconcile
PROPERTY HonoursContract
CHECK_DEADLOCK FALSE
