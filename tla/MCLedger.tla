------------------------------ MODULE MCLedger ------------------------------
(* Instances of Ledger for TLC.                                            *)
EXTENDS Ledger, TLC

Row(digits, type) ==
    [bank |-> "HDFC", digits |-> digits, type |-> type, status |-> "ACTIVE",
     opening |-> 0, balance |-> 0]

\* A bank account and a credit card, and perhaps free ids.
First == CHOOSE a \in AccountIds : TRUE
Second == CHOOSE a \in AccountIds \ {First} : TRUE
BankAndCard == [id \in AccountIds |->
    CASE id = First  -> Row("1111", "BANK")
      [] id = Second -> Row("2222", "CREDIT_CARD")
      [] OTHER       -> NULL]

Pay(amount, direction, key) ==
    [raw |-> NULL, amount |-> amount, direction |-> direction, key |-> key]

\* Amounts whose sums tell which payments are in them; zero; one that overflows
\* NUMERIC(18,2) when MaxMoney is 7.
Bills == {Pay(1, "CREDIT", "k1"), Pay(2, "CREDIT", "k1"), Pay(4, "DEBIT", "k1")}
EdgeBills == {Pay(0, "DEBIT", "k1"), Pay(8, "DEBIT", "k1")}
AllBills == Bills \cup EdgeBills
TwoBills == {Pay(1, "CREDIT", "k1"), Pay(2, "CREDIT", "k1")}

\* The same, and the card is not in use yet.
BankAndNewCard == [BankAndCard EXCEPT ![Second].status = "PENDING"]

NewAccount == {[Row("3333", "BANK") EXCEPT !.opening = 1, !.balance = 1]}

StatusAndType == {[status |-> "ACTIVE"], [status |-> "DISABLED"], [type |-> "LOAN"]}

\* Status edges, an edit of two columns, a move onto another identity or none.
AllEdits == StatusAndType \cup
    {[status |-> "PENDING"], [status |-> "ARCHIVED", type |-> "BANK"],
     [digits |-> "3333"], [bank |-> NULL]}

\* Two bodies a request collides with, one without a bank, one the service
\* refuses, one whose balance the column refuses.
AllAccounts == NewAccount \cup
    {[Row("3333", "BANK") EXCEPT !.bank = NULL],
     [Row("3333", "BANK") EXCEPT !.status = "ARCHIVED"],
     [Row("3333", "BANK") EXCEPT !.opening = 8, !.balance = 8]}

\* Handlers are interchangeable.
Symmetry == Permutations(Threads)
=============================================================================
