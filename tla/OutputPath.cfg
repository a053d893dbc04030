SPECIFICATION OutSpec
CONSTANTS
  N = 2
  Manual = {1}
  Hold = {1}
  QueueLen = 1
  Setups <- MCSetups
INVARIANTS LoopWritesConverge LatchKept
PROPERTIES PendingServed
