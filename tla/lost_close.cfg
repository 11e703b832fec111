\* One ticket, twice in the queue and twice closed, and no failure.
CONSTANTS
    CloseWorkers = {v1}
    ReconcileWorkers = {v2}
    MaxAttempts = 1
    MaxTime = 4
    MaxFailures = 0
SPECIFICATION Spec
INVARIANTS
    ProcessedWasProjected
