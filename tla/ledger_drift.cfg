\* Two postings on one account race.
SPECIFICATION LedgerSpec
CONSTANTS
    Threads = {t1, t2}
    AccountIds = {a1, a2}
    NULL = NULL
    MaxMoney = 7
    Banks = {"HDFC"}
    Digits = {"1111", "2222", "3333"}
    InitialAccounts <- BankAndCard
    Endpoints = {"post"}
    NewAccounts <- NewAccount
    Patches <- StatusAndType
    Payments <- TwoBills
    Keys = {"k1"}
    RawEventIds = {}
    ActualBalances = {}
    MaxEvents = 3
    MaxStart = 0
INVARIANTS
    NeverDrifts
\* The bound on audited events ends the run.
CHECK_DEADLOCK FALSE
