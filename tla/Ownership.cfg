SPECIFICATION Spec
CONSTANTS
  a = a
  b = b
  Binding = {a, b}
  NullableSets <- AnySet
  ParamSets <- AnySet
  Stmts <- AllStmts
  MaxLen = 7
  MaxObj = 3
CHECK_DEADLOCK FALSE
SYMMETRY Symmetric
INVARIANTS
  TypeOK
  FreedOnce
  OwnersHold
  NothingLost
  NullFactsHold
