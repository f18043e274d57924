\* Two wordings of one payment, a purchase and one that overflows after another,
\* for an account nobody knows yet: deliveries, a batch, redeliveries,
\* reprocessing, archiving and one restart, in every order.
SPECIFICATION IngestionSpec
CONSTANTS
    Threads = {t1, t2}
    AccountIds = {a1, a2}
    NULL = NULL
    MaxMoney = 7
    Banks = {"HDFC"}
    Digits = {"1111"}
    InitialAccounts <- NoAccounts
    Endpoints = {"sms", "batch", "reprocess", "archive"}
    NewAccounts = {}
    Patches = {}
    Payments <- PaymentsByHand
    Keys = {"k1", "k2"}
    RawEventIds = {"m1", "m2", "m3", "m4"}
    ActualBalances = {}
    Received <- Arrival
    Batches <- ImportBatch
    Windows <- AllDates
    ReprocessLimit = 9
    Releases <- OneRelease
    Reading <- Readings
    Upper <- SameBank
    MaxEvents = 3
    MaxStart = 0
    MaxRestarts = 1
SYMMETRY Symmetry
INVARIANTS
    IngestionTypeOK
    StatusTellsTruth
    OnePostingPerMessage
    AnnouncedIsPosted
PROPERTIES
    OnlyPoisonDropsMessages
\* The bound on audited events ends the run.
CHECK_DEADLOCK FALSE
