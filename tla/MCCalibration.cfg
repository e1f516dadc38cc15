CONSTANTS
  Full = 10
  Fine = 1
  Steps <- MCTenth
  MinDelay = 0
  Pid = FALSE
  Feedback = FALSE
  MinOpen = 3
  ReleaseOpen = 1
  Hold = 1
  SiteCap = FALSE
  CalEnabled = TRUE
  CalPoints <- MCPoints
  Openings <- MCOpenings
SPECIFICATION FairSpec
PROPERTY OpensOnlyOnExport
