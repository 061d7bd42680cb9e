SPECIFICATION FairSpec
CONSTANTS
  ServiceNames = {1, 2, 3, 4}
  ServiceStates <- MCServiceStates
  FirstServices <- MCFirstServices
  MaxMoved = 3
  DeviceList <- MCDeviceList
  ProblemCodes = {0, 10, 43}
  FirstProblems <- MCFirstProblems
  Title <- MCTitle
  UnknownTitle = 4
  MaxTrouble = 3
  Hotfixes <- MCHotfixes
  Entries <- MCEntries
  Fact <- MCFact
  Keys <- MCKeys
  AtFirst <- MCAtFirst
  Since = 68
  Until = 83
  NoDate = 0
  MaxInstalls = 3
  Messages <- MCMessages
  NameLength <- MCNameLength
  CrashDumps <- MCCrashDumps
  FileName <- MCFileName
  Oversized = {"memory"}
  None = "none"
INVARIANTS
  FailedServicesAreFound
  BrokenDevicesAreFound
  ChangesAreListed
  BundleIsWhole
PROPERTY
  PartsEnd
