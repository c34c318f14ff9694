SPECIFICATION MCSystemSpec
CONSTANTS
  Calls = {c1, c2}
  Users = {u1}
  Keys = {u1}
  Products = {p1}
  Int32Max = 3
  NoCart = NoCart
  MaxRetries = 1
  NoHolder = NoHolder
  Requests <- SomeRequests
  EventIds <- AllIds
  Messages <- OutAndBack
  MaxLog = 2
  Members = {m1}
  MaxAssigns = 1
  NoOffset = NoOffset
  NoId = NoId
SYMMETRY Symmetry
CHECK_DEADLOCK FALSE
INVARIANTS SystemTypeOK FlagsFollowLastMark DuplicateOnlyAfterOverrun
PROPERTY MarksKeepAmounts
