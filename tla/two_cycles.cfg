\* A ticket is closed and comes back; an entry is delivered again.
CONSTANTS
    t1 = t1
    t2 = t2
    Tickets = {t1}
    Cycles = {1, 2}
    TicketOf <- TwoCycles
    Agents = {a1}
    Externals = {}
    Nobody = Nobody
    NoConv = NoConv
    Types = {"automatic"}
    MaxChats = 1
    Workers = {w1}
    MaxOwnerEdits = 0
    MaxStageMoves = 1
    MaxFaults = 0
    MaxDeliveries = 3
SYMMETRY Symmetric
SPECIFICATION Spec
INVARIANTS
    ProjectionAgrees
\* The bounded world runs dry: closed tickets, an empty queue, idle workers.
CHECK_DEADLOCK FALSE
