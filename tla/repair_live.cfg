\* The repair task, under fairness.
CONSTANTS
    t1 = t1
    t2 = t2
    Tickets = {t1}
    Cycles = {1}
    TicketOf <- OneCycle
    Agents = {a1}
    Externals = {}
    Nobody = Nobody
    NoConv = NoConv
    Types = {"automatic", "manual"}
    MaxChats = 1
    Workers = {w1}
    MaxOwnerEdits = 0
    MaxStageMoves = 1
    MaxFaults = 1
    MaxDeliveries = 0
SPECIFICATION FairQueuedSpec
PROPERTIES
    ReservationResolved
\* The bounded world runs dry: closed tickets, an empty queue, idle workers.
CHECK_DEADLOCK FALSE
