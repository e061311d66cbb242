SPECIFICATION FairSpec
CONSTANTS
  Null = Null
  Callers = {c1, c2}
  TaskKinds = {plain, savable}
  Checkpointable = {savable}
  CanSaveProgress = {savable}
  Environments <- EachWay
INVARIANT RegistryAgrees
PROPERTY LegalSerially
PROPERTY CallsEnd
CHECK_DEADLOCK FALSE
