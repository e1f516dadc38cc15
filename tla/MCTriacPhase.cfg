CONSTANTS
  HalfCycle = 4
  MainsHalf = 4
  Debounce = 1
  Delays <- MCDelays
  MaxTickValues <- MCMaxTicks
  TickCap = 4
SPECIFICATION FairSpec
INVARIANTS GateNeedsRecentEdge OffMeansReleased
PROPERTIES GateNotEarly MainsBringsSync OpenTriacConducts
