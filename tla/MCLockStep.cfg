CONSTANT Bosses = {b1, b2, b3}
SPECIFICATION FairSpec
INVARIANTS PermitOnlyWhilePolled CleanEntryExcludes
PROPERTIES CleanBossEnters
CHECK_DEADLOCK FALSE
