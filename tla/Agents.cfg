SPECIFICATION MCSpec
CONSTANTS
  None = None
  low = low
  high = high
  top = top
  MaxRetries = 1
  LifecycleCalls = 4
  Agents = {low, high, top}
  Nodes = {n1, n2}
  Workers = {w1, w2}
  Capacity = 2
  Size <- Sizes
  Priority <- Priorities
  MinPriorityDifference = 100
  MaxPreemptions = 3
  SchedulerCalls = 5
  Requests = {r1, r2}
  Risks = {"high", "critical"}
  MaxCount = 2
  MaxEscalations <- Escalations
INVARIANT LifecycleKept
 
INVARIANT UnansweredQueued
PROPERTY EndsAreFinal
PROPERTY AllEnd
CHECK_DEADLOCK FALSE
