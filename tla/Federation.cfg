SPECIFICATION MCSpec
CONSTANTS
  Agents = {a1, a2}
  Clusters = {c1, c2}
  MaxAgents = 2
  MaxConcurrent = 2
  MaxCalls = 2
  MaxFaults = 1
  MaxReports = 1
  Tasks = {t1, t2, t3}
  RetryAttempts = 1
  None = None
  Guarded = {a1}
  FailureThreshold = 3
  SuccessThreshold = 2
  Timeout = 2
  Window = 3
  Environments <- EachUse
INVARIANT AgentsKept
INVARIANT PlanKept
INVARIANT FailsFast
PROPERTY OpenLasts
PROPERTY ProvenByTrials
PROPERTY AllEnd
PROPERTY Retried
CHECK_DEADLOCK FALSE
