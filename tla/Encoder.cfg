SPECIFICATION RunSpec
CONSTANTS
  Bits <- Scaled
  Lines <- AllLines
  XForms <- TableForms
  Locals <- TableLocals
  Globals <- TableGlobals
  Tmp <- TmpReg
CHECK_DEADLOCK FALSE
INVARIANTS
  OperandsKept
  ValuesKept
  
