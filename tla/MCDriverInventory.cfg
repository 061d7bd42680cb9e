CONSTANTS
  afd = afd
  oem1 = oem1
  oem2 = oem2
  Paths <- MCPaths
  Name <- MCName
  Address <- MCAddress
  Parallelism = 3
  WmiMayFail = TRUE
  MayPanic = TRUE
  MaxListed = 2
  MaxLoaded = 3
SPECIFICATION FairSpec
INVARIANTS AddressesSurvive StatusIsHonest
PROPERTIES ImplementsListing InventoryEnds
