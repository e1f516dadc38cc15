CONSTANTS
  Full = 3
  Fine = 3
  Steps <- MCSteps
  MinDelay = 1
  Pid = FALSE
  Feedback = TRUE
  MinOpen = 2
  ReleaseOpen = 1
  Hold = 1
  SiteCap = TRUE
  CalEnabled = FALSE
  CalPoints <- MCNoPoints
  Openings <- MCFull
SPECIFICATION FairSpec
INVARIANTS ForbiddenMeansClosed CeilingHolds
PROPERTIES OpensOnlyOnExport ImportCloses LoadEndsBackoff
