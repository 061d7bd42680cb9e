SPECIFICATION FairSpec
CONSTANTS
  Drivers = {"copy1", "copy2"}
  Builds = {"vendor", "windows"}
  Contents = {"vendor", "windows", "unreadable"}
  Curated = {"copy1"}
  Feeds <- MCFeeds
  Unreadable = "unreadable"
  Missing = "unreadable"
  MaxUpdates = 2
  Signers = {"vendor", "microsoft windows"}
  OsSigners = {"microsoft windows"}
  Blocks = {"US Unicode", "US multilingual", "German"}
  Fallback <- MCFallback
  Texts = {"", "1", "2", "corsair"}
  File <- MCFile
  Purposes = {"graphics", "rgb"}
  Words <- MCWords
  CompanyWords <- MCCompanyWords
  Categories <- MCCategories
  Installed <- MCInstalled
  MaxScans = 2
  MaxReplaced = 1
INVARIANTS
  SignatureIsHonest
  FlaggedAsPromised
  OneCorpus
  FactsAreOfTheFile
PROPERTY
  EveryScanIsShown
