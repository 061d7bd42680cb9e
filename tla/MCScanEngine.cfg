CONSTANTS
  a = a
  b = b
  sens = sens
  sensor = sensor
  none = none
  Batch = 1
  MaxRecords = 1
  Events = 5
  Time <- MCTime
  Key <- MCKey
  About <- MCAbout
  Mentions <- MCMentions
  Answers <- MCAnswers
  MayPanic = {"Drivers", "Services", "Events", "CrashDumps", "Rules"}
  Channels = 2
  Cap <- MCCap
  Logs <- MCLogs
  Services <- MCServices
SPECIFICATION FairSpec
INVARIANTS TimelineIsMerged UnmarkedOnlyByDedup NoSilentGap
PROPERTIES ImplementsSequentialScan ScanEnds
