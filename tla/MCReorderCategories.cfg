CONSTANTS
  x1 = x1
  x2 = x2
  x3 = x3
  Items = {x1, x2, x3}
  Reorders = {r1, r2}
  Orders <- ThreeOrders
  Places = {0, 1}
  Kinds = {"content", "category"}
SPECIFICATION OrderSpec
INVARIANT TwoPassesWork
CHECK_DEADLOCK FALSE
