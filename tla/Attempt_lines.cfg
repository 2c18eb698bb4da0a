\* Two searches and a select in up to two messages, over a pipe and a channel of one
\* line each, with every fault.
SPECIFICATION FairSpec
CONSTANTS
  ToolOf <- MCToolOf
  Messages = 2
  HookCap = 1
  ScanCap = 1
  Pipe = 1
  Capacity = 1
  MaxErrs = 1
  Faults = {"spawn", "read", "disk", "db", "save", "long", "hang"}
INVARIANTS
  LinesAreKept
  SuccessIsNearlyStored
  HookCapHolds
  PageCountsWhatHappened
PROPERTIES
  KeepsItsPromise
  AttemptEnds
CHECK_DEADLOCK FALSE
