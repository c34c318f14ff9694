SPECIFICATION MCLockSpec
CONSTANTS
  Calls = {c1, c2, c3}
  Keys = {k1}
  MaxRetries = 2
  MaxUnlucky = 1
  NoHolder = NoHolder
CHECK_DEADLOCK FALSE
INVARIANTS LockTypeOK Exclusion OnlyFaultsLeaveKeys
PROPERTIES OnlyOwnerDeletes LockReturns OwnerFreesKey
