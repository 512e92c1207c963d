SPECIFICATION FairSpec
CONSTANTS
  r1 = r1
  e1 = e1
  Requests = {r1}
  E2Ids = {e1}
  None = None
  SharedIds = FALSE
  Faulty = FALSE
  OtherLocks = {"metrics", "monitor"}
  Room <- CPythonRoom
  MaxNotices = 2
  MaxSignals = 2
CHECK_DEADLOCK FALSE
PROPERTIES EventuallyRouted ShutdownReturns
