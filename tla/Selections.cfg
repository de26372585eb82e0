SPECIFICATION Spec
CONSTANTS
  u1 = u1
  User = {u1}
  Number <- MCNumber
  Multiplier = 95
  GameType = {"jodi"}
  Selections <- MCSelections
  AnderBahars <- MCAnderBahars
\* A body that has been resolved or rejected has no next step.
CHECK_DEADLOCK FALSE
INVARIANTS
  StakeIsDebited
  PaysAsAdvertised
  RowsTellTheirGroup
  OrderIrrelevant
