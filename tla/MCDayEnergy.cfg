CONSTANTS
  LastDay = 4
  MaxUsed = 2
  Cap = 3
  BigDrop = 1
SPECIFICATION DaySpec
INVARIANTS NoDoubleCount
PROPERTIES  AnchorsFollowDate
CONSTRAINT Explored
