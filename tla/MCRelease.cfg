CONSTANTS
  Component = "hop-sdk-python"
  Commits <- MCCommits
  History <- MCHistory
  Repo <- MCRepo
  Contents <- MCContents
  Content <- MCContent
  MapIn <- MCMapIn
  SkyIn <- MCSkyIn
  VersionIn <- MCVersionIn
  RequiresIn <- MCRequiresIn
  PinsIn <- MCPinsIn
  ThirdParty <- MCThirdParty
  RequiredIn <- MCRequiredIn
  ExportsCheck = "Package exports"
  CheckOrders <- MCCheckOrders
  PageSize = 3
  Versions = {"2"}
  Files = {"wheel"}
  MaxMirror = 2
  MaxAttempts = 2
  MaxCiRuns = 2
SPECIFICATION Spec
INVARIANTS
  TypeOK
  PublishedIsExport
  GreenIfReadAtOnce
  LockGate
PROPERTIES
  LegitimateIsPublished
CHECK_DEADLOCK FALSE
