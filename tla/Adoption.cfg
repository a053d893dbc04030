SPECIFICATION FairSpec
CONSTANTS
  Fields = {1, 2}
  Profiles = {"relay-node"}
  SlotCount = 2
  Setups <- MCSetups
  MaxRequests = 3
  MaxFails = 1
  MaxCuts = 1
INVARIANTS OneEntryPerNode RegistryDurable ActiveProved
PROPERTIES RequestsEnd
CHECK_DEADLOCK FALSE
