CONSTANTS
  Pkg = {init, prog}
  Name = {start, x, y}
  init = init
  prog = prog
  start = start
  x = x
  y = y
  Bare = Bare
  Start <- MCStart
  Inputs <- SmallInputs
  Page = 16
  TextOff = 48
  HeaderSize = 40
  SymSize = 6
  StringSizes = {1, 16}
SPECIFICATION Spec
CHECK_DEADLOCK FALSE
INVARIANTS
  LinksNeeded PlacedApart SlotsResolve Loadable
