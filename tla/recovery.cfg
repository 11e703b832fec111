\* Three events of a ticket and a failure; two agents and two drains; two
\* deliveries and four faults; one thread; one ticket and two changes; two
\* tasks and an entry of a ticket.
CONSTANTS
    CloseWorkers = {v1}
    ReconcileWorkers = {v2}
    MaxAttempts = 1
    MaxTime = 3
    MaxFailures = 1
    Members = {b1, b2}
    Waiting = {r1}
    Drains = {d1, d2}
    Stable = 1
    Heartbeat = 1
    Jitter = 1
    MaxClock = 3
    Deliveries = {y1, y2}
    MaxRetries = 2
    MaxFaults = 4
    Threads = {u1}
    Threshold = 2
    MaxProbes = 1
    MaxFailedCalls = 4
    MaxExcluded = 2
    Tickets = {t1}
    Owners = {a1, o1}
    Agents = {a1}
    Nobody = Nobody
    MaxEvents = 2
    Tasks = {q1, q2}
    MaxTaskRetries = 1
    MaxEntries = 1
    MaxRows = 4
    MaxMishaps = 1
SPECIFICATION FairRecoverySpec
INVARIANTS
    ProcessedWasSent
    ProcessedHasEffect
PROPERTIES
    CyclesFollowEvidence
    OccurrencesSettle
    NoEarlyAssignment
    BarrierEnds
    WebhookSettles
    CallsGetThrough
    LoadConverges
    EntryIsQueued
\* Every component may be done, its bounds used up.
CHECK_DEADLOCK FALSE
