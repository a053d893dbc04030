SPECIFICATION OutSpec
CONSTANTS
  N = 2
  Manual = {}
  Hold = {}
  QueueLen = 1
  Setups <- MCLost
INVARIANT OutputsConverge
