SPECIFICATION FairSpec
CONSTANTS
  None = None
  Orders = {o1, o2}
  Operators = {p1}
  PageLimit = 2
  MaxRestarts = 2
  MaxLate = 1
  MaxSlips = 2
  MaxEvents = 3
  RepliesArrive = FALSE
INVARIANTS CursorPassesNothing ConvergedWhenQuiet
PROPERTIES CancellationArrives
