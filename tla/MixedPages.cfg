CONSTANTS
  Component = "hop-sdk-python"
  Commits <- MCCommits
  History <- MCHistory
  Repo <- MCRepo
  Contents <- MixedContents
  Content <- MCContent
  MapIn <- MCMapIn
  SkyIn <- MCSkyIn
  VersionIn <- MCVersionIn
  RequiresIn <- MCRequiresIn
  PinsIn <- MCPinsIn
  ThirdParty <- MCThirdParty
  RequiredIn <- MixedRequiredIn
  ExportsCheck = "Package exports"
  CheckOrders <- MixedCheckOrders
  PageSize = 3
  Versions = {"2"}
  Files = {"wheel"}
  MaxMirror = 1
  MaxAttempts = 1
  MaxCiRuns = 2
SPECIFICATION Spec
INVARIANTS
  PublishedWasGreen
CHECK_DEADLOCK FALSE
