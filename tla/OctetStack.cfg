SPECIFICATION Spec
CONSTANTS
  Scenarios <- MCScenarios
  MaxFaults = 1
  inBufSize = 2
  SizeT = 16
INVARIANTS StreamKept OneTerminator WritesWhole OpenWhenConnected SettingsAgree
CHECK_DEADLOCK FALSE
