SPECIFICATION Spec
CONSTANTS
  MaxNodes = 2
  MaxRetry = 3
  ResponseTimeout = 6
  RetryBackoff = 2
  IdlePoll = 4
  IdMod = 4
  ShortTx = 2
  LongTx = 5
  Sites <- MCSites
INVARIANTS RetriesBelongToRequest OneTalker
PROPERTIES AckAnswersRequest SilentGoesOffline
