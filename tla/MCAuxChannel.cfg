CONSTANTS
  Full = 3
  Modes <- MCAllModes
  OutOn = 1
  MaxOpen = 2
  SinusOn <- MCSinusOn
  SinusTotal <- MCSinusTotal
  PwmMatches = TRUE
  CounterCap = 4
SPECIFICATION AuxFairSpec
INVARIANTS StoppedRelayStaysReleased
PROPERTIES HalfSinesAlternate TrainAlternates UnsyncedRelayFollows
