SPECIFICATION ReportsSpec
CONSTANTS
  m1 = m1
  m2 = m2
  m3 = m3
  u1 = u1
  u2 = u2
  Metric = {m1, m2, m3}
  UE = {u1, u2}
  Requests <- SomeRequests
  Node = Node
  NoList = NoList
  NoValue = NoValue
  Raised = Raised
  Floats <- ShortFloats
  Values = {0, 3, 16}
  WindowSize = 2
  Threshold = 2
  MaxIndications = 4
  MaxScrapes = 1
  LoopMessages = 3
  LoopScrapes = 2
  FormatReports <- AllReports
  HistoryReports <- SomeReports
  UnitsKnown = {m1, m2}
  PrintEvery = 2
  MaxHistory = 3
  LoadValues <- SomeLoads
  LoadWindow = 3
  ActiveThreshold = 2
  BusyThreshold = 4
  LoadLogEvery = 3
  MaxLoads = 5
INVARIANTS StateOK BufferDiscipline ScrapeConsistent SeriesIsLatestReading PageIsConsistent
INVARIANTS FailureIsExcused TransitionsNeedSamples ScrapeNotBehind
INVARIANTS StateWithinRecentSamples SpikeKeepsBusy ChangesLogged
PROPERTIES BufferReturned ImplementsMean
