SPECIFICATION FairSpec
CONSTANTS
  Null = Null
  Callers = {c1, c2, c3}
  TaskKinds = {plain}
  Checkpointable = {}
  CanSaveProgress = {}
  Environments <- RegisteredOnce
PROPERTY StoppedIsFinal
CHECK_DEADLOCK FALSE
