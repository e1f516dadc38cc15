CONSTANTS
  TimeMax = 3
  MaxPeriods = 8
  TempNone <- MCTempNone
  TempLimitMax = 100
  Uploads <- MCUploads
  Temperatures = {20, 80}
  Walls = {0, 1, 2}
  Powers <- MCPowers
  Tempo = 3
  Repet = 4
  CallTime = 1
  Clock = 6
  Wraps = FALSE
SPECIFICATION FairSpec
INVARIANTS BeliefIsTrue
PROPERTIES PeerRests RepeatHeals WindowObeyed
