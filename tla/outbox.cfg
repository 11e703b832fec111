\* Two events of a thread, two processes, a fault, a slow claim and a replay.
CONSTANTS
    t1 = t1
    Events = {e1, e2}
    Threads = {t1}
    ThreadOf <- OneThread
    NoEvent = NoEvent
    Deliverers = {d1, d2}
    MaxAttempts = 2
    MaxFaults = 1
    MaxSlow = 2
    MaxReplays = 1
SPECIFICATION FairSpec
INVARIANTS
    DeliveredWasTaken
PROPERTIES
    DeliveredIsFinal
    DeliversSerially
    EventSettles
\* Every event may be settled and every process idle.
CHECK_DEADLOCK FALSE
