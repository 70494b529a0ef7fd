SPECIFICATION Spec
CONSTANTS
  App = {a1, a2}
  Operator = op
  Ip = {i1, i2, i3}
  MaxPairings = 3
INVARIANTS TypeOK TokensComeFromTheOperator RevocationTakesAuthorityBack OperatorIsTold
PROPERTIES OnlyOperatorTakesAway BansHold
SYMMETRY Symmetry
