\* Two rebets, two retries; one refused click.
CONSTANTS
    MaxRebets = 2
    MaxFailures = 2
    MaxRefusals = 1
    SlowSubmission = FALSE
SPECIFICATION Spec
INVARIANTS TypeOK BooksAgree NeverMoreThanTarget RevocationHolds
PROPERTIES KeepsPromise RunEnds
CHECK_DEADLOCK FALSE
