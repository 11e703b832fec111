\* Two queued tickets compete for the only place of one agent.
CONSTANTS
    t1 = t1
    t2 = t2
    Tickets = {t1, t2}
    Cycles = {1, 2}
    TicketOf <- CycleEach
    Agents = {a1}
    Externals = {}
    Nobody = Nobody
    NoConv = NoConv
    Types = {"automatic"}
    MaxChats = 1
    Workers = {w1, w2}
    MaxOwnerEdits = 0
    MaxStageMoves = 0
    MaxFaults = 1
    MaxDeliveries = 0
SYMMETRY Symmetric
SPECIFICATION QueuedSpec
PROPERTIES
    NoOverbooking
\* The bounded world runs dry: closed tickets, an empty queue, idle workers.
CHECK_DEADLOCK FALSE
