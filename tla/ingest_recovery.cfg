\* Deliveries and reprocessings that work on the same messages, with a restart at
\* any point that may bring a better parser, or a worse one.
SPECIFICATION FairIngestionSpec
CONSTANTS
    Threads = {t1, t2}
    AccountIds = {a1, a2}
    NULL = NULL
    MaxMoney = 7
    Banks = {"HDFC", "Hdfc"}
    Digits = {"1111"}
    InitialAccounts <- OtherCase
    Endpoints = {"sms", "reprocess"}
    NewAccounts = {}
    Patches = {}
    Payments <- PaymentsByHand
    Keys = {"k1", "k2"}
    RawEventIds = {"m1", "m6", "m7"}
    ActualBalances = {}
    Received <- Arrival
    Batches <- NoBatches
    Windows <- AllDates
    ReprocessLimit = 9
    Releases <- TwoReleases
    Reading <- Readings
    Upper <- BothHdfc
    MaxEvents = 9
    MaxStart = 0
    MaxRestarts = 1
PROPERTIES
    NeverTakenBack
    StoredIsDecided
\* The bound on audited events ends the run.
CHECK_DEADLOCK FALSE
