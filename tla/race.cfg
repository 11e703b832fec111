\* A drain, an administrator and the repair task work on the same queued cycle.
CONSTANTS
    t1 = t1
    t2 = t2
    Tickets = {t1}
    Cycles = {1}
    TicketOf <- OneCycle
    Agents = {a1, a2}
    Externals = {}
    Nobody = Nobody
    NoConv = NoConv
    Types = {"automatic", "manual"}
    MaxChats = 1
    Workers = {w1, w2}
    MaxOwnerEdits = 0
    MaxStageMoves = 1
    MaxFaults = 2
    MaxDeliveries = 0
SYMMETRY Symmetric
SPECIFICATION QueuedSpec
INVARIANTS
    SingleLiveAttempt
    CompletedOnce
    IInv
    NoCapacityLeak
\* The bounded world runs dry: closed tickets, an empty queue, idle workers.
CHECK_DEADLOCK FALSE
