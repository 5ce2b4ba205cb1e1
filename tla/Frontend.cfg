CONSTANTS
  Letters <- Words
  MaxUint64 <- MaxNumber
  Sources <- Inputs
  Rankings <- Both
  Rejected = Rejected
SPECIFICATION Spec
CHECK_DEADLOCK FALSE
INVARIANTS
  StatementsEnd
  ReadAsWritten
  TypesReadBack
