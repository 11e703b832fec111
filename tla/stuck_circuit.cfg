\* One thread, and one failure that the filter leaves out.
CONSTANTS
    Threads = {u1}
    Threshold = 2
    MaxProbes = 1
    MaxFailures = 4
    MaxExcluded = 1
SPECIFICATION Spec
INVARIANTS
    HalfOpenCanProbe
\* The bounds may be used up.
CHECK_DEADLOCK FALSE
