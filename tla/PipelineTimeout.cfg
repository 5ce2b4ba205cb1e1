CONSTANTS
  Timeout = 2
  MaxTime = 4
  UseCgroup = TRUE
SPECIFICATION PipelineSpec
CHECK_DEADLOCK FALSE
INVARIANTS
  KilledOnTimeout
