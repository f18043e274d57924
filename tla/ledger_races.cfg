\* Three handlers, every endpoint: accounts that collide, edits onto their
\* identity, duplicate, zero and overflowing payments, transactions begun at any
\* time before they read.
SPECIFICATION LedgerSpec
CONSTANTS
    Threads = {t1, t2, t3}
    AccountIds = {a1, a2, a3}
    NULL = NULL
    MaxMoney = 7
    Banks = {"HDFC"}
    Digits = {"1111", "2222", "3333"}
    InitialAccounts <- BankAndNewCard
    Endpoints = {"create", "update", "archive", "post", "reconcile"}
    NewAccounts <- AllAccounts
    Patches <- AllEdits
    Payments <- AllBills
    Keys = {"k1"}
    RawEventIds = {}
    ActualBalances = {3, 8}
    MaxEvents = 3
    MaxStart = 2
SYMMETRY Symmetry
INVARIANTS
    LedgerTypeOK
    UniqueIdentity
    NoDoublePosting
    DriftIsLostPostings
    TrailTells
    OldWasStored
PROPERTIES
    NoUnauditedEdit
    OnlyStalePatchRevives
    OnlyOvertakenDepart
\* The bound on audited events ends the run.
CHECK_DEADLOCK FALSE
