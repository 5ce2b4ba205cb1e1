CONSTANTS
  Full <- RoomyFull
  Wide = {"r64"}
  HasLow <- RoomyLow
  HasHigh = {}
  regs64 <- Roomy64
  regs8 <- Roomy8
  caller_saved <- RoomyCaller
  arg_regs <- RoomyArgs
  rbp = "rbp"
  Name = {x, y, z}
  None = None
  Junk = Junk
  NoReg = NoReg
  LocalSizes = {8}
  ChunkBytes = {1}
  MaxLocal = 3
  MaxStackArgs = 0
  MaxOperands = 2
  MaxManual = 0
  PartialOps = TRUE
SPECIFICATION RoomySpec
SYMMETRY NameSymmetry
CHECK_DEADLOCK FALSE
INVARIANTS
  OperandsStable AlwaysLoads
