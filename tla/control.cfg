SPECIFICATION ControlSpec
CONSTANTS
  UE = {u1, u2}
  Threshold = 2
  Volumes = {1, 3}
  NoValue = NoValue
  MaxReports = 3
  MaxRestarts = 1
  Malformed = Malformed
  Calls <- SomeCalls
  PlmnChars = {0, 1, 9, NoDigit}
  NoDigit = NoDigit
INVARIANTS SwitchesArePaidFor NobodyOverdue BelievedIsEnforced LateWithinRound
INVARIANTS RequestAsMeant PlmnSurvives
PROPERTIES StopReturns
