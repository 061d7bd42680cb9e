CONSTANTS
  nt = nt
  net = net
  fan = fan
  App = App
  Library = Library
  None = None
  Drivers = {nt, net, fan}
  OsDrivers = {nt}
  Removable = {fan}
  Flagged = {fan}
  Order <- MCOrder
  Size <- MCSize
  Placement <- MCPlacement
  KernelBase = 10
  Codes = {"3B", "124"}
  MaxSuspects = 1
  MaxBoots = 2
SPECIFICATION Spec
INVARIANTS AttributionIsTrue DumpsAreAccountedFor OnlySuspectsAreArmed
PROPERTY NothingIsArmedUntold
