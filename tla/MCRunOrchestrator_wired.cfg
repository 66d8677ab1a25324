\* The program as it is wired, across one crash.
CONSTANTS
    Accounts = {master, slave}
    Triggered = {master}
    MaxRuns = 2
    MaxCycles = 2
    MaxCrashes = 1
SPECIFICATION Spec
INVARIANT RestartFreezes
