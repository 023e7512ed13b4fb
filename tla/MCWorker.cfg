CONSTANTS
  Job = {j1}
  Slot = {1, 2}
  MaxLeases = 2
  MaxTries = 2
  None = None
  Choice = {0, 1}
  Capacity = 2
  MaxRead = 5
  MaxTokens = 3
  AuthorizedInput = 1
  PerChoice = 1
  Limit = 75
  Temp = {700, 703, 720, 746, 760}
  MaxConcurrent = 2
  Unread = Unread
  Pid = {1, 2}
  MaxProc = 3
  Generations = 3
  MaxLines = 2
  MaxLine = 8
SPECIFICATION Spec
INVARIANTS LeasesReported StreamForwarded
PROPERTIES SubmissionEnds ClaimsBelowLimit WorkerControlled LogsKept
CHECK_DEADLOCK FALSE
