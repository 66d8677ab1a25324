\* The simulator may refuse one click.
CONSTANTS
    MaxRebets = 2
    MaxFailures = 2
    MaxRefusals = 1
    SlowSubmission = FALSE
SPECIFICATION Spec
INVARIANT NoPhantomSuccess
CHECK_DEADLOCK FALSE
