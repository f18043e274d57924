------------------------ MODULE FinancialCalculator ------------------------
(***************************************************************************)
(* app/shared/financial/financial_calculator.py on whole cents: money is    *)
(* quantized to two places at every entry, so a sum of amounts is exact and *)
(* an integer stands for it.  NUMERIC(18,2) bounds what a column holds.     *)
(***************************************************************************)
EXTENDS Integers

CONSTANT MaxMoney    \* the largest magnitude of a money column

ASSUME MoneyAssumption == MaxMoney \in Nat

AccountType == {"BANK", "CREDIT_CARD", "CASH", "INVESTMENT", "LOAN"}
LIABILITY_ACCOUNT_TYPES == {"CREDIT_CARD", "LOAN"}
TransactionDirection == {"DEBIT", "CREDIT"}

\* The signed change of an account's balance: assets fall on a debit, what is
\* owed on a liability rises.
balance_delta(amount, direction, type) ==
    IF (direction = "DEBIT") = (type \in LIABILITY_ACCOUNT_TYPES)
    THEN amount ELSE -amount

\* NUMERIC(18,2) accepts the value; otherwise the flush raises DataError.
Representable(money) == -MaxMoney <= money /\ money <= MaxMoney
=============================================================================
