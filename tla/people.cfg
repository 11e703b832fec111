\* From the entry to the closure; people change the owner twice.
CONSTANTS
    t1 = t1
    t2 = t2
    Tickets = {t1}
    Cycles = {1}
    TicketOf <- OneCycle
    Agents = {a1}
    Externals = {x}
    Nobody = Nobody
    NoConv = NoConv
    Types = {"automatic"}
    MaxChats = 1
    Workers = {w1}
    MaxOwnerEdits = 2
    MaxStageMoves = 1
    MaxFaults = 1
    MaxDeliveries = 1
SYMMETRY Symmetric
SPECIFICATION Spec
INVARIANTS
    CompletedWasApplied
PROPERTIES
    CyclesKeepTheirPromise
\* The bounded world runs dry: closed tickets, an empty queue, idle workers.
CHECK_DEADLOCK FALSE
