CONSTANTS
  Timeout = 2
  MaxTime = 4
  UseCgroup = TRUE
SPECIFICATION PipelineSpec
CHECK_DEADLOCK FALSE
INVARIANTS
  StatusTrue NothingLeft RunnerCleans ReportTrue
PROPERTIES
  ImplementsRequest
