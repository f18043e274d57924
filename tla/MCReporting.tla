---------------------------- MODULE MCReporting ----------------------------
(* Instances of Reporting for TLC.                                         *)
EXTENDS Reporting, TLC

CONSTANTS ann, ben, bank, card, salary, food, rent, ghost, x1, x2, r1

\* Ann has a bank account and a credit card, Ben an account.
Owners == [a \in Accounts |-> IF a = salary THEN ben ELSE ann]
Types == [a \in Accounts |-> IF a = card THEN "CREDIT_CARD" ELSE "BANK"]
Openings == [a \in Accounts |-> IF a = card THEN 5 ELSE 10]

\* Two months of two days.
Calendar == [d \in Dates |-> d \div 2]

Post(account, direction, amount, at, type, category) ==
    [kind |-> "post",
     row |-> [account |-> account, direction |-> direction, amount |-> amount,
              at |-> at, type |-> type, category |-> category]]

\* The last instant of a month, the first of the next, no date at all, nothing
\* paid.
Posts == {Post(bank, "DEBIT", 1, 3, "EXPENSE", NULL),
          Post(bank, "DEBIT", 2, NULL, "UNKNOWN", food),
          Post(card, "CREDIT", 4, 4, "INCOME", food),
          Post(card, "DEBIT", 4, 3, "TRANSFER", food),
          Post(bank, "DEBIT", 0, 1, "EXPENSE", food),
          Post(salary, "CREDIT", 1, 0, "INCOME", NULL)}

Patch(i, change) == [kind |-> "patch", user |-> ann, id |-> i, change |-> change]
Patches == {Patch(x1, [category |-> food]),
            Patch(x1, [category |-> rent, type |-> "TRANSFER"]),
            Patch(x1, [type |-> "EXPENSE"]),
            Patch(x2, [category |-> NULL]), Patch(x2, [category |-> ghost]),
            Patch(x2, [type |-> NULL])}

Links == {[kind |-> "link", user |-> ann, source |-> x1, destination |-> d] :
              d \in {x1, x2, NULL}}
Confirms == {[kind |-> "confirm", user |-> ann, id |-> r1, confirmed |-> b] : b \in BOOLEAN}

Views == {[kind |-> "summary", user |-> ann],
          [kind |-> "list", user |-> ann, account |-> bank, category |-> NULL],
          [kind |-> "list", user |-> ann, account |-> NULL, category |-> food],
          [kind |-> "archive", account |-> card]}

AllRequests == Posts \cup Patches \cup Links \cup Confirms \cup Views

\* What a link and a report need.
LinkRequests == {Post(bank, "DEBIT", 1, 3, "EXPENSE", NULL),
                 Post(card, "CREDIT", 4, 4, "INCOME", food)} \cup Links

Symmetry == Permutations(Threads)
=============================================================================
