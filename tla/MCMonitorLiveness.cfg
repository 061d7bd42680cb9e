SPECIFICATION FairSpec
CONSTANTS
  Window = 2
  DeviceInterval = 1
  Depth = 1
  Outputs = {"log", "webhook"}
  DeviceCounts = {1}
  RenderMayFail = FALSE
  DrainMayFail = TRUE
  ConsoleMayClose = TRUE
  MaxPost = 1
  MaxRecords = 1
  MaxNotices = 2
  MaxChanges = 0
INVARIANT FailuresStayLocal
PROPERTIES
  DeliversAlerts
  EventsAreAnnounced
  StopsWhenAsked
