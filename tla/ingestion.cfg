\* Three messages, one of them not from the customer, a hydration, two
\* reconcilers, a lookback of one message and one fault; the thread is
\* shut and opened again at any time.
CONSTANTS
    LastMessage = 3
    Customer = {1, 3}
    Hydrations = {k1}
    MaxTries = 2
    Reconcilers = {r1, r2}
    Lookback = 1
    MaxFaults = 1
SPECIFICATION FairSpec
INVARIANTS
    ReadyHasOutbox
    CursorPassesNothing
PROPERTIES
    EveryMessageSettles
\* Every message may be settled.
CHECK_DEADLOCK FALSE
