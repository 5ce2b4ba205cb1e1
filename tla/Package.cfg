SPECIFICATION Spec
CONSTANTS
  fnv1a64 <- MCHash
  Builtins <- MCBuiltins
  RetLabel <- MCRetLabel
  Programs <- Distinct
CHECK_DEADLOCK FALSE
INVARIANTS
  TornFileRefused
  ImportFaithful
  DescriptorsRead
  RelocsInRange
  CodeSound
