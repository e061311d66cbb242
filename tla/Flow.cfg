SPECIFICATION FairSpec
CONSTANTS
  s1 = s1
  s2 = s2
  s3 = s3
  Steps = {s1, s2, s3}
  Graphs <- AllGraphs
  Policies = {"stop", "continue", "retry_all"}
  MaxAttempts = 2
INVARIANT EndsTruthfully
PROPERTY ExecutionEnds
PROPERTY DependenciesFirst
PROPERTY FinalStays
PROPERTY NothingStartsAfterCancel
CHECK_DEADLOCK FALSE
