SPECIFICATION Spec
CONSTANTS
  None = None
  Orders = {o1, o2}
  Operators = {p1, p2}
  PageLimit = 2
  MaxRestarts = 0
  MaxLate = 1
  MaxSlips = 0
  MaxEvents = 4
  RepliesArrive = TRUE
SYMMETRY Symmetry
INVARIANTS TypeOK KitchenStatusIsReal NewestStampIsTrue EveryEventIsNews
