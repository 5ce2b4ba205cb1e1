CONSTANTS
  Full <- SmallFull
  Wide = {"r64"}
  HasLow <- SmallLow
  HasHigh = {}
  regs64 <- Small64
  regs8 <- Small8
  caller_saved <- SmallCaller
  arg_regs <- SmallArgs
  rbp = "rbp"
  Name = {x, y, z}
  None = None
  Junk = Junk
  NoReg = NoReg
  LocalSizes = {8, 64}
  ChunkBytes = {}
  MaxLocal = 10
  MaxStackArgs = 0
  MaxOperands = 2
  MaxManual = 1
  PartialOps = TRUE
SPECIFICATION Spec
SYMMETRY NameSymmetry
CHECK_DEADLOCK FALSE
INVARIANTS
  TypeOK HoldersAgree NoOverlap PoolExact LruExact Coherent SlotsDisjoint VolatileInMemory
