\* One request at a time, every endpoint.
SPECIFICATION LedgerSpec
CONSTANTS
    Threads = {t1}
    AccountIds = {a1, a2, a3}
    NULL = NULL
    MaxMoney = 7
    Banks = {"HDFC"}
    Digits = {"1111", "2222", "3333"}
    InitialAccounts <- BankAndNewCard
    Endpoints = {"create", "update", "archive", "post", "reconcile"}
    NewAccounts <- AllAccounts
    Patches <- AllEdits
    Payments <- AllBills
    Keys = {"k1"}
    RawEventIds = {}
    ActualBalances = {3, 8}
    MaxEvents = 4
    MaxStart = 0
PROPERTIES
    ImplementsAbstractLedger
    ArchivedIsTerminal
    StatusLifecycle
\* The bound on audited events ends the run.
CHECK_DEADLOCK FALSE
