SPECIFICATION RootSpec
CONSTANTS
  Task <- McTask
  RootTask = "root-task"
  MaxAsks = 5
  MaxRuns = 2
INVARIANTS
  RootTypeOK
  IndicesRise
  CallsAreAccountedFor
  DeliveredOnce
  RecordedIsAccountedFor
CHECK_DEADLOCK FALSE
