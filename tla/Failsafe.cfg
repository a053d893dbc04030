SPECIFICATION Spec
CONSTANTS
  Output = {o1}
  Policies <- MCPolicies
  OldModes <- MCOldModes
  Causes = {"power", "abort", "watchdog", "task_wdt", "request"}
  SaveMayFail = TRUE
INVARIANTS PersistedOrReported
PROPERTIES OnlyRearmReleases
