\* Two users behind one address.
SPECIFICATION RateSpec
CONSTANTS
    Users = {"u1", "u2"}
    ApiKeys = {"d1"}
    Hosts = {"h1"}
    NULL = NULL
    Callers <- Household
    Limit = 2
    WindowSeconds = 3
    TicksPerSecond = 2
    MAX_TRACKED_KEYS = 2
    MaxTime = 7
    MaxRequests = 4
INVARIANTS
    BurstsAreSeparate
\* The bounds on time and requests end the run.
CHECK_DEADLOCK FALSE
