CONSTANTS
  Full <- NarrowFull
  Wide = {"r64"}
  HasLow <- NarrowLow
  HasHigh = {}
  regs64 <- Narrow64
  regs8 <- Narrow8
  caller_saved <- NarrowCaller
  arg_regs <- NarrowArgs
  ret_reg = "rax"
  rbp = "rbp"
  Name = {x, y}
  None = None
  Junk = Junk
  NoReg = NoReg
  LocalSizes = {8, 64}
  ChunkBytes = {1, 8}
  MaxLocal = 17
  MaxStackArgs = 0
  PartialOps = FALSE
  MaxOperands = 1
  MaxManual = 3
SPECIFICATION CallSpec
SYMMETRY NameSymmetry
CHECK_DEADLOCK FALSE
INVARIANTS
  ArgsInPlace
