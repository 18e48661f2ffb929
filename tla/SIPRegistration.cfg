\* No reduction by symmetry: the run checks a liveness property.
\* A failed assertion ends the daemon.
SPECIFICATION FairSpec
CONSTANTS
    Regcs = {1, 2}
    None = None
    Grants = {0, 3, 60}
INVARIANTS
    TryingIsPending
    CanUnregister
    RegisteredIsRefreshed
PROPERTIES
    TryingEnds
CHECK_DEADLOCK FALSE
