SPECIFICATION SilentSpec
CONSTANTS
  Window = 2
  DeviceInterval = 2
  Depth = 1
  Outputs = {"webhook"}
  DeviceCounts = {1, 2}
  RenderMayFail = TRUE
  DrainMayFail = FALSE
  ConsoleMayClose = TRUE
  MaxPost = 1
  MaxRecords = 1
  MaxNotices = 1
  MaxChanges = 0
PROPERTY StopsWhenAsked
