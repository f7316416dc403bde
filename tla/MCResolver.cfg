SPECIFICATION FairSpec
CONSTANTS
    Sockets = {s1, s2}
    MaxLookups = 3
CHECK_DEADLOCK FALSE
INVARIANTS
    OwnAnswer
    AssertsExplained
    IdleIsClean
PROPERTIES
    LookupResolves
