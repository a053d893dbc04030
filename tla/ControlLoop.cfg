SPECIFICATION Spec
CONSTANTS
  Period = 3
  Glitch = 4
  BootIgnore = 1
  Threshold = 1
  Every = 2
  Deadline <- MCLoose
  Horizon = 17
INVARIANTS ExpectedTracks LostOnlyIfMissed FaultIsSustained
CHECK_DEADLOCK FALSE
