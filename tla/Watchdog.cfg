SPECIFICATION WdSpec
CONSTANTS
  MaxWd = 2
  Timeout <- MCTimeout
  TickMod = 13
  MaxMisses = 3
  CheckGap = 2
  FeedDelay = 1
INVARIANTS RestartJustified
PROPERTY HangDetected
CHECK_DEADLOCK FALSE
