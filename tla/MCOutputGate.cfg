CONSTANTS
  Period = 1
  MaxStreak = 2
  LastDay = 2
  Ends <- MCEnds
SPECIFICATION FairSpec
PROPERTIES DeadPeerCuts SoundPeerRuns VacationAsAsked RecoveryEnds
