SPECIFICATION MCApiSpec
CONSTANTS
  Calls = {c1, c2}
  Users = {u1}
  Keys = {u1}
  Products = {p1}
  Int32Max = 2
  Requests <- ValidRequests
  Rpcs <- EveryRpc
  MaxRetries = 1
  MaxFaulty = 1
  NoHolder = NoHolder
  NoCart = NoCart
  NoUser = NoUser
  NoProduct = NoProduct
CHECK_DEADLOCK FALSE
INVARIANTS ApiTypeOK CodesTellEffect
PROPERTIES KnownCartsAreFound RpcsAreAnswered
