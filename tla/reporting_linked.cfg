\* Two transactions are posted and linked.
SPECIFICATION ReportingSpec
CONSTANTS
    Threads = {t1, t2}
    ann = ann
    ben = ben
    bank = bank
    card = card
    salary = salary
    food = food
    rent = rent
    ghost = ghost
    x1 = x1
    x2 = x2
    r1 = r1
    MaxMoney = 1000
    Users = {ann, ben}
    NULL = NULL
    Accounts = {bank, card, salary}
    Owner <- Owners
    TypeOf <- Types
    Opening <- Openings
    Categories = {food, rent}
    CategoryIds = {food, rent, ghost}
    TransactionIds = {x1, x2}
    TransferIds = {r1}
    LastDate = 3
    MonthOf <- Calendar
    Requests <- LinkRequests
    MaxRequests = 4
SYMMETRY Symmetry
INVARIANT
    LinkedIsExcluded
CHECK_DEADLOCK FALSE
