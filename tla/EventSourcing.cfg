SPECIFICATION MCSpec
CONSTANTS
  Tasks = {w}
  MaxEvents = 3
  Stores <- BothKinds
  None = None
  Events = {e1, e2, e3}
  Flushers = {f1, f2}
  BatchSize = 2
  MaxFailures = 1
  EventsOf <- GroupSizes
  MaxWorkers = 2
  MaxFailed = 1
  MaxReplays = 2
INVARIANT Rebuilt
INVARIANT NoneLost
INVARIANT ReplayKept
PROPERTY AllEnd
CHECK_DEADLOCK FALSE
