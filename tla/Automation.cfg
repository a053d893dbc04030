SPECIFICATION Spec
CONSTANTS
  i1 = i1  i2 = i2  o1 = o1  o2 = o2
  Input = {i1, i2}
  Output = {o1, o2}
  InVal = {0, 1}
  Sites <- MCSites
  MaxNodes = 2
  QueueLen = 2
  TickMod = 4
INVARIANTS PulseEnds RulesSurviveReset InterlockHolds
