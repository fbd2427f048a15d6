SPECIFICATION IoSpec
CONSTANTS
  Null = Null
  NoVal = NoVal
  t1 = t1
  t2 = t2
  drv = drv
  cbt = cbt
  s1 = s1
  s2 = s2
  Values = {0, 1}
  Bits = {1, 2}
  Names <- MCNames
  MaxAddr = 2
  Clients = {"c1", "c2"}
  interruptMask <- MCCanInterrupt
  Scenarios <- MCScenarios
  IoThreads = {t1, t2}
  Shutters = {s1, s2}
  Driver = drv
  CbThread = cbt
  interfaceMask <- MCInterfaces
  Requests <- MCRequests
INVARIANTS ClientsCurrent DestroyedOnce
PROPERTIES CallsReturn FirstTold
CHECK_DEADLOCK FALSE
