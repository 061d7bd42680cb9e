SPECIFICATION Spec
CONSTANTS
  Window = 2
  DeviceInterval = 2
  Depth = 1
  Outputs = {}
  DeviceCounts = {1, 2}
  RenderMayFail = TRUE
  DrainMayFail = TRUE
  ConsoleMayClose = TRUE
  MaxPost = 1
  MaxRecords = 2
  MaxNotices = 1
  MaxChanges = 1
INVARIANTS
  NothingLost
  NoLostWakeup
  HeldBriefly
  DeviceReportsChain
PROPERTY DeliversSafely
