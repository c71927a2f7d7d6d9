SPECIFICATION FairSpec
CONSTANTS
  Timers = {1, 2, 3}
  GsvTotal = 2
  GpsBudgets <- MCGpsBudgets
  Descriptors = {3, 4, 5, 6, 7, 8}
  SensorBudgets <- MCSensorBudgets
CHECK_DEADLOCK FALSE
INVARIANTS
  OneTimer
  FixExclusive
  FixesDated
  SkyWhole
  LocationsInSession
  OwnDescriptors
  AccelerometerClosed
PROPERTIES
  StopReturns
