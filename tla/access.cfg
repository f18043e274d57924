\* Two requests at a time over a pool of two or three, two administrators and a newcomer.
SPECIFICATION FairAccessSpec
CONSTANTS
    Threads = {t1, t2}
    alice = alice
    bob = bob
    carol = carol
    dave = dave
    key1 = key1
    a = a
    b = b
    c = c
    UserIds = {alice, bob, carol, dave}
    KeyIds = {key1}
    Emails = {a, b, c}
    NULL = NULL
    InitialUsers <- TwoAdmins
    InitialLogins = {alice, bob}
    Requests <- AllRequests
    PoolSizes = {2, 3}
    AccessLifetime = 1
    RefreshLifetime = 2
    MaxTime = 3
    MaxRequests = 4
INVARIANTS
    AccessTypeOK
    OneUserPerEmail
    LoginEnds
PROPERTIES
    RevocationIsFinal
    OnlyRoleOrRaceLocksOut
    RequestsAnswered
\* Requests and time end.
CHECK_DEADLOCK FALSE
