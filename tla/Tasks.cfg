SPECIFICATION Spec
CONSTANTS
  Never = Never
  Deleted = Deleted
  Tasks = {a, b, c}
  Lists = {l1, l2}
  Default = l1
  MaxCalls = 4
  MaxOverlapping = 2
INVARIANT LinksAgree
INVARIANT ListsKept
CHECK_DEADLOCK FALSE
