SPECIFICATION Spec
CONSTANTS
  r1 = r1  r2 = r2
  e1 = e1  e2 = e2
  Requests = {r1, r2}
  E2Ids = {e1, e2}
  None = None
  SharedIds = TRUE
  Faulty = TRUE
  OtherLocks = {}
  Room <- SmallRoom
  MaxNotices = 2
  MaxSignals = 1
SYMMETRY Symmetry
CHECK_DEADLOCK FALSE
INVARIANTS NoStrandedMapping OneKeyPerSubscription CleanExitAsksAll
PROPERTIES MisdispatchOnlyUnstored ActiveSubscriptionsMonotone ImplementsDirectory
