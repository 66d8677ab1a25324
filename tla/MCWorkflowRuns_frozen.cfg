\* No browser dies: what a second trigger finds after an UNCERTAIN run.
CONSTANTS
    Slaves = 2
    Accounts = 2
    Modes = {"UNIQUE_ACCOUNTS_ONLY", "MASTER_ONLY"}
    Switched = {0, 1, 2}
    MaxTriggers = 2
    MaxFaults = 0
SPECIFICATION Spec
INVARIANT FrozenIsLocked
