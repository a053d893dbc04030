SPECIFICATION Spec
CONSTANTS
    Profiles <- MCProfiles
    MaxUpsets <- MCUpsets
    MaxRetry = 1
    MaxEvents = 1
INVARIANTS LinksReal RouteFresh
PROPERTIES EntryReturns
CHECK_DEADLOCK FALSE
