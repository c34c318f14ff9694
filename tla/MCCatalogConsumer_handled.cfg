SPECIFICATION ConsumerSafetySpec
CONSTANTS
  Members = {m1}
  Users = {u1}
  Products = {p1}
  Int32Max = 2
  NoCart = NoCart
  EventIds <- AllIds
  Messages <- TwoEvents
  MaxLog = 3
  MaxAssigns = 3
  NoOffset = NoOffset
  NoId = NoId
CHECK_DEADLOCK FALSE
INVARIANT CommittedWereHandled
