SPECIFICATION Spec
CONSTANTS
  None = None
  Orders = {o1}
  Operators = {p1}
  PageLimit = 2
  MaxRestarts = 0
  MaxLate = 1
  MaxSlips = 0
  MaxEvents = 6
  RepliesArrive = TRUE
INVARIANTS CancellationSticks
