\* Two accounts on four browsers: each account on two of them.
CONSTANTS
    Slaves = 3
    Accounts = 2
    Modes = {"UNIQUE_ACCOUNTS_ONLY", "MASTER_ONLY"}
    Switched = {2, 3}
    MaxTriggers = 2
    MaxFaults = 1
SPECIFICATION Spec
INVARIANTS TypeOK AccountSingleFlight LeasesAreBacked
PROPERTIES MasterFreezeHolds BusyEnds
