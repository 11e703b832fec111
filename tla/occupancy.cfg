\* A ticket, an agent and somebody else, an attempt, a transfer, a webhook, a scan;
\* three agents whose turns two drains look for.
CONSTANTS
    Tickets = {t1}
    Owners = {a1, o1}
    Agents = {a1}
    Attempts = {w1}
    Transfers = {x1}
    Watchers = {p1}
    Scanners = {s1}
    Nobody = Nobody
    MaxChats = 1
    MaxVersions = 3
    MaxFaults = 1
    MaxRounds = 3
    N = 3
    Drains = {m1, m2}
    MaxTurnChats = 4
    MaxReserved = 8
    MaxChanges = 1
SPECIFICATION OccupancySpec
INVARIANTS
    CounterAgrees
    FlightIsHeld
    BoundedBypass
PROPERTIES
    ObservationsAdvance
    ReadyWasScanned
\* Every operation may be over and every bound used up.
CHECK_DEADLOCK FALSE
