CONSTANTS
  Func = {f, g, h}
  Param = {0, 1}
  Programs <- SmallPrograms
  MaxDemands = 2
  MaxCalls = 2
  MaxTotal = 4
SPECIFICATION Spec
SYMMETRY FuncSymmetry
CHECK_DEADLOCK FALSE
INVARIANTS
  SummariesExact IterationsBounded
