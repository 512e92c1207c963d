SPECIFICATION NephioSpec
CONSTANTS
  MaxGeneration = 4
  Onboarding = TRUE
  Operator = {o1, o2}
  MaxVersion = 3
  MaxFaults = 3
INVARIANTS HelperReportsPublished PublicationKept
PROPERTIES StaleReportNeedsCause
