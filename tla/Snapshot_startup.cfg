SPECIFICATION AllSpec
CONSTANTS
  Item = {a, b}
  NoItem = none
  Size = 4
  MaxFail = 1
  aUsers <- MCUsers
  aAdmin = "admin"
  aSlots <- MCSlots
  aCap = 2
  aMaxLog = 5
  pSupported = {"WIFI", "ETHERNET", "RS485"}
  pOffered <- MCOffered
  pOld <- MCOld
  pMaxOps = 2
  mNodes = {1, 2}
  mOutputs = {101, 102}
  mChannels = {101}
  mLocals = {"", "Q1"}
  mGlobals = {"", "A"}
  mMaxEntries = 3
  mMaxV1 = 4
  mFound <- MCFound
  mMaxOps = 3
  lTags = {"x", "z", "w", "y", "v"}
  lInputs = {"x", "z", "w"}
  lPrograms <- MCPrograms
  lTest <- MCTest
  lMaxStack = 2
  lMaxTimers = 1
  lMaxInt = 3
  lMaxCount = 3
  lMaxTime = 3
  lMaxOps = 2
  sOrder <- MCOrder
  sInputs = {"x"}
  sOutputs = {"y", "q"}
  sStartup <- MCStartup
  sX0 = "x"
  sY0 = "y"
  sSamples = 2
  sDebounce = 2
  sMaxSets = 3
  sMaxStarts = 1
  bInIds <- MCInIds
  bOutIds <- MCOutIds
  bDefaultIds = {"i3", "i5", "o4", "o5"}
  bProfilePin <- MCProfilePin
  bAdcPins = {"g34"}
  bInPins = {"g26", "g32", "g33", "g34"}
  bOutPins = {"g26", "g32", "g33"}
  bBusPins = {"g26"}
  bOutOnlyPin = "g33"
  bInOnlyPin = "g26"
  bNC = "NC"
  bOldFlash <- MCOldFlash
  vRaws = {0, 3}
  vDefault <- MCDefault
  vScales <- MCScales
  vAlarms <- MCAlarms
  vTestVals = 2
  vCap = 1
  vMaxOps = 2
PROPERTY StartupKept
CHECK_DEADLOCK FALSE
