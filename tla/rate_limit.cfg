\* A window of three seconds of two ticks, two clients and room for the counter
\* of one.
SPECIFICATION RateSpec
CONSTANTS
    Users = {"u1", "u2"}
    ApiKeys = {"d1"}
    Hosts = {"h1", "h2"}
    NULL = NULL
    Callers <- Pair
    Limit = 2
    WindowSeconds = 3
    TicksPerSecond = 2
    MAX_TRACKED_KEYS = 1
    MaxTime = 7
    MaxRequests = 7
INVARIANTS
    RateTypeOK
    TwiceTheLimitAtMost
    RefusedHasSpent
    RetryAfterSuffices
\* The bounds on time and requests end the run.
CHECK_DEADLOCK FALSE
