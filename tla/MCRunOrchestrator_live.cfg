\* The program as it is wired: the master, a slave and a crash.
CONSTANTS
    Accounts = {master, slave}
    Triggered = {master}
    MaxRuns = 3
    MaxCycles = 2
    MaxCrashes = 1
SPECIFICATION Spec
INVARIANTS TypeOK OneUnreported
PROPERTIES  LeasesEnd
