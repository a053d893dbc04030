SPECIFICATION FairSpec
CONSTANTS
  Nodes = {1, 2}
  Ios = {1, 2}
  LocalIo <- MCLocalIo
  Gateways = {1}
  Admitted = {1, 2}
  MaxNodes = 2
  SuspectAfter = 1
  OfflineAfter = 2
  AgeModulus = 5
  WrapChoices = {FALSE, TRUE}
  Crashes = 1
INVARIANTS OwnIoKept LossIsHandled
PROPERTIES MasterAgreement GatewayLossLatches
