CONSTANTS
  Values <- MCValues
  Default = 0
  None = None
  Clock = 16
  Debounce = 2
  MaxDefer = 4
  RebootDelay = 3
  Stall = 2
SPECIFICATION FairSpec
INVARIANTS FlushedInTime
PROPERTIES Coalesces GracefulKeeps Implements
