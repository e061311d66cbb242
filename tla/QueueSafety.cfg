SPECIFICATION Spec
CONSTANTS
  None = None
  a1 = a1
  a2 = a2
  c1 = c1
  k1 = k1
  t1 = t1
  t2 = t2
  Tasks = {t1, t2}
  Agents = {a1, a2}
  Clients = {c1}
  Ticks = {k1}
  NumLevels = 2
  Level <- Levelled
  Rank <- IdOrder
  Capacity <- OneSlot
  MaxRetries = 2
  Environments <- RacingFaultySerially
INVARIANT ClaimsBacked
INVARIANT Exclusive
 
INVARIANT BooksAgree
PROPERTY FinishedIsFinal
CHECK_DEADLOCK FALSE
