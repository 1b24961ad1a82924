SPECIFICATION FairSpec
CONSTANTS
  None = None
  Orders = {o1}
  Operators = {}
  PageLimit = 2
  MaxRestarts = 0
  MaxLate = 1
  MaxSlips = 0
  MaxEvents = 6
  RepliesArrive = TRUE
PROPERTIES EveryOrderArrives
