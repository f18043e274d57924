\* A batch and a delivery that create one stub account.
SPECIFICATION IngestionSpec
CONSTANTS
    Threads = {t1, t2}
    AccountIds = {a1, a2}
    NULL = NULL
    MaxMoney = 7
    Banks = {"HDFC"}
    Digits = {"1111"}
    InitialAccounts <- NoAccounts
    Endpoints = {"sms", "batch"}
    NewAccounts = {}
    Patches = {}
    Payments <- PaymentsByHand
    Keys = {"k1", "k2"}
    RawEventIds = {"m1", "m2", "m3"}
    ActualBalances = {}
    Received <- Arrival
    Batches <- StubBatch
    Windows <- AllDates
    ReprocessLimit = 9
    Releases <- OneRelease
    Reading <- Readings
    Upper <- SameBank
    MaxEvents = 5
    MaxStart = 0
    MaxRestarts = 0
PROPERTIES
    BatchGoesOn
\* The bound on audited events ends the run.
CHECK_DEADLOCK FALSE
