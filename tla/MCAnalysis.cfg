CONSTANTS
  drv = drv
  mon = mon
  app = app
  dev1 = dev1
  dev2 = dev2
  None = None
  Day = 40
  Minute = 2
  TrendPerDay = 3
  ChurnEvents = 1
  ChurnPerDay = 1
  Reports <- MCReports
SPECIFICATION Spec
INVARIANTS
  CrashesAndWindowsMatch
  OnsetIsTheSharpestRise
  ResetsAreAccountedFor
  HealthyMachineIsSilent
PROPERTY ScoresOnlyRise
