\* One watchdog and four provider events, of which one is another change, a
\* message, or has an unclear time; one agent and two heartbeats; two
\* requests and two rules; three users of a lock; two tasks and two entries
\* of a ticket.
CONSTANTS
    Watchdogs = {w1}
    MaxFailures = 2
    LegacyStates = {"QUEUE_PENDING"}
    MaxEvents = 4
    MaxOdd = 1
    MaxLag = 0
    Agents = {a1}
    Beats = {h1, h2}
    Drains = {n1}
    LeaseTTL = 2
    CacheTTL = 1
    Stable = 2
    Samples = 2
    MaxAge = 2
    MaxClock = 3
    MaxBeats = 3
    MaxChanges = 1
    Requests = {q1, q2}
    AuditKeys = {ka, kb}
    Rules = {ra, rb}
    Existing = {ra}
    Readers = {d1}
    DefaultOpen = TRUE
    MaxEdits = 2
    Workers = {k1, k2, k3}
    MaxTokens = 5
    Tasks = {g1, g2}
    MaxTaskRetries = 0
    MaxEntries = 2
    MaxRows = 4
    MaxMishaps = 1
SPECIFICATION GuardsSpec
INVARIANTS
    AttendanceFollowsState
    ClosedTicketIsQuiet
    AuditMatches
    NoLostEdit
    AbsenceCloses
    OneInTime
    OneArmedRow
PROPERTIES
    ReservedWasSeenThrice
    OnlyNewsReopens
\* Every component may be done, its bounds used up.
CHECK_DEADLOCK FALSE
