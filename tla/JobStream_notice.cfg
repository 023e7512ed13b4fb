SPECIFICATION Spec
CONSTANTS
  MaxEvents = 3
  PageSize = 1
  None = None
INVARIANTS
  TimeoutNoticeTrue
CHECK_DEADLOCK FALSE
