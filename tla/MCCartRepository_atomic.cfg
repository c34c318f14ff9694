SPECIFICATION BoundedTimelySpec
CONSTANTS
  Calls = {c1, c2, c3}
  Users = {u1}
  Keys = {u1}
  Products = {p1}
  Int32Max = 1
  Requests <- AllRequests
  MaxRetries = 1
  MaxFaulty = 1
  NoHolder = NoHolder
  NoCart = NoCart
CHECK_DEADLOCK FALSE
SYMMETRY CallSymmetry
PROPERTY RefinesAtomicCart
