SPECIFICATION ConsumerSafetySpec
CONSTANTS
  Members = {m1, m2}
  Users = {u1}
  Products = {p1}
  Int32Max = 2
  NoCart = NoCart
  EventIds <- AllIds
  Messages <- OutAndBack
  MaxLog = 2
  MaxAssigns = 3
  NoOffset = NoOffset
  NoId = NoId
CHECK_DEADLOCK FALSE
SYMMETRY MemberSymmetry
INVARIANTS CommittedWereDelivered OnlySkippedEventsAreLate
PROPERTY RefinesAtomicEvents
