SPECIFICATION Spec
CONSTANTS
  MaxRelays = 2
INVARIANTS
  TypeOK
  SkewIsRead
  VerdictsAreSaid
  MisroutedIsRefused
  SettledIsSaid
  ConsentIsSaid
CHECK_DEADLOCK FALSE
