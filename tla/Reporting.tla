----------------------------- MODULE Reporting -----------------------------
(***************************************************************************)
(* What a user is shown of the ledger, and the edits that change it:        *)
(* reports and net worth (app/domains/reporting, app/api/reports.py), lists *)
(* and PATCHes of transactions (app/domains/transactions/service.py,        *)
(* app/api/transactions.py) and transfers (app/domains/transfers).          *)
(*                                                                         *)
(* Postings are what module Ledger makes of them, in two steps: the account *)
(* is read, then the transaction is inserted together with a balance        *)
(* computed from what was read.  A balance is represented by the postings   *)
(* it is the sum of.  Queries run at READ COMMITTED, and a transaction is   *)
(* never deleted.                                                          *)
(***************************************************************************)
EXTENDS FinancialCalculator, FiniteSetsExt, Sequences

CONSTANTS
    Threads,            \* requests that may be in progress at the same time
    Users, NULL,
    Accounts, Owner, TypeOf, Opening,   \* the accounts there are
    Categories,         \* the categories there are
    CategoryIds,        \* what a request may send as one
    TransactionIds, TransferIds,
    LastDate, MonthOf,  \* dates are 0 .. LastDate; the month of each
    Requests,           \* what the users of this instance send
    MaxRequests         \* bound on the requests that are accepted

\* Other business types are treated like EXPENSE and INCOME.
BusinessType == {"EXPENSE", "INCOME", "TRANSFER", "UNKNOWN"}

Dates == 0 .. LastDate

\* A date begins with the first instant of it (time.min) and ends with the last
\* (time.max); two instants stand for a day.
Instants == 0 .. 2 * LastDate + 1
DayStart(date) == 2 * date
DayEnd(date) == 2 * date + 1

Transaction ==
    [account : Accounts, direction : TransactionDirection, amount : Nat,
     at : Instants \cup {NULL},   \* transaction_timestamp
     type : BusinessType, category : Categories \cup {NULL}]

Transfer == [user : Users, source : TransactionIds,
             destination : TransactionIds \cup {NULL}, confirmed : BOOLEAN]

\* The fields of a PATCH that are submitted; an absent one is UNSET.  A null
\* business type is no business type.
UPDATABLE_FIELDS == {"category", "type"}
Changes == [category : CategoryIds \cup {NULL}]
           \cup [type : BusinessType \cup {NULL}]
           \cup [category : CategoryIds \cup {NULL}, type : BusinessType \cup {NULL}]

\* A row of audit_log; its created_at is the start of the transaction it was
\* written in, as the number of rows committed by then.
AuditLog == [since : Nat, transaction : TransactionIds, field : UPDATABLE_FIELDS,
             old : BusinessType \cup Categories \cup {NULL},
             new : BusinessType \cup Categories \cup {NULL}]

PostRequest == [kind : {"post"}, row : Transaction]
PatchRequest == [kind : {"patch"}, user : Users, id : TransactionIds, change : Changes]
LinkRequest == [kind : {"link"}, user : Users, source : TransactionIds,
                destination : TransactionIds \cup {NULL}]
ConfirmRequest == [kind : {"confirm"}, user : Users, id : TransferIds, confirmed : BOOLEAN]
ArchiveRequest == [kind : {"archive"}, account : Accounts]
SummaryRequest == [kind : {"summary"}, user : Users]
\* ListTransactionsQuery: a filter that is NULL is not there; those on columns
\* that never change are like the one on the account.
ListRequest == [kind : {"list"}, user : Users, account : Accounts \cup {NULL},
                category : Categories \cup {NULL}]
Request == PostRequest \cup PatchRequest \cup LinkRequest \cup ConfirmRequest
           \cup ArchiveRequest \cup SummaryRequest \cup ListRequest

ASSUME ReportingAssumption ==
    /\ IsFiniteSet(Accounts)
    /\ Owner \in [Accounts -> Users] /\ TypeOf \in [Accounts -> AccountType]
    /\ Opening \in [Accounts -> Int]
    /\ LastDate \in Nat /\ MonthOf \in [0 .. LastDate -> Nat]
    /\ \A d \in 0 .. LastDate, e \in 0 .. LastDate : d <= e => MonthOf[d] <= MonthOf[e]
    /\ Categories \subseteq CategoryIds
    /\ NULL \notin Accounts \cup CategoryIds \cup TransactionIds \cup BusinessType
                   \cup Int \cup Transaction \cup Transfer \cup Request
    /\ Requests \subseteq Request /\ MaxRequests \in Nat

VARIABLES
    transactions,   \* the table
    posted,         \* of each account, the postings in its estimated balance
    archived,       \* accounts whose status is ARCHIVED
    transfers,      \* the table
    audit,          \* the trail of the PATCHes; the position of a row is its
                    \* commit's, which no column records
    accepted,       \* how many requests have come
    pc, session     \* where each request is, when its transaction began and
                    \* what it has read

tables == <<transactions, posted, archived, transfers, audit>>
reportingVars == <<tables, accepted, pc, session>>

NoSession == [since |-> 0, request |-> NULL, seen |-> NULL, counted |-> NULL]

Transactions == {i \in TransactionIds : transactions[i] # NULL}
Transfers == {x \in TransferIds : transfers[x] # NULL}
OwnerOf(i) == Owner[transactions[i].account]

\* A new identity (uuid4); which one does not matter.
Fresh(ids) == CHOOSE id \in ids : TRUE

ReportingInit ==
    /\ transactions = [i \in TransactionIds |-> NULL]
    /\ posted = [a \in Accounts |-> {}]
    /\ archived = {}
    /\ transfers = [x \in TransferIds |-> NULL]
    /\ audit = <<>>
    /\ accepted = 0
    /\ pc = [t \in Threads |-> "idle"]
    /\ session = [t \in Threads |-> NoSession]

Hold(t, next, column, value) ==
    /\ pc' = [pc EXCEPT ![t] = next]
    /\ session' = [session EXCEPT ![t][column] = value]

\* The request is answered.
Answered(t) ==
    /\ pc' = [pc EXCEPT ![t] = "idle"]
    /\ session' = [session EXCEPT ![t] = NoSession]

\* When a request's transaction began, which only the rows of a PATCH record.
Began(r) == IF r.kind = "patch" THEN Len(audit) ELSE 0

\* A worker takes the request and the driver sends BEGIN; the first SELECT is a
\* round trip of its own.
begin(t) ==
    /\ pc[t] = "idle"
    /\ accepted < MaxRequests
    /\ accepted' = accepted + 1
    /\ \E r \in Requests :
          /\ pc' = [pc EXCEPT ![t] = r.kind]
          /\ session' = [session EXCEPT ![t] =
                            [NoSession EXCEPT !.since = Began(r), !.request = r]]
    /\ UNCHANGED tables

-----------------------------------------------------------------------------
(* Postings and archives, as modules Ledger and Accounts have them in full; *)
(* every posting here is a payment of its own.                             *)

create_transaction(t) ==
    LET a == session[t].request.row.account
    IN  /\ pc[t] = "post"
        /\ IF a \in archived THEN Answered(t)
           ELSE Hold(t, "post_write", "seen", posted[a])
        /\ UNCHANGED <<tables, accepted>>

\* The balance is that of the copy and this posting; one that equals the copy's
\* is not written.
post_write(t) ==
    LET row == session[t].request.row
        i == Fresh(TransactionIds \ Transactions)
    IN  /\ pc[t] = "post_write"
        /\ IF Transactions = TransactionIds   \* bound: no identity is left
           THEN UNCHANGED <<transactions, posted>>
           ELSE /\ transactions' = [transactions EXCEPT ![i] = row]
                /\ posted' = IF row.amount = 0 THEN posted
                             ELSE [posted EXCEPT ![row.account] = session[t].seen \cup {i}]
        /\ Answered(t)
        /\ UNCHANGED <<archived, transfers, audit, accepted>>

archive_account(t) ==
    /\ pc[t] = "archive"
    /\ archived' = archived \cup {session[t].request.account}
    /\ Answered(t)
    /\ UNCHANGED <<transactions, posted, transfers, audit, accepted>>

-----------------------------------------------------------------------------
(* PATCH /transactions/{id}                                                *)

\* get_by_id of the transaction and the user.
Owned(i, user) == i \in Transactions /\ OwnerOf(i) = user

\* The submitted fields that differ from the copy.
Changed(seen, change) == {f \in DOMAIN change : change[f] # seen[f]}

update_transaction(t) ==
    LET r == session[t].request
    IN  /\ pc[t] = "patch"
        /\ IF /\ Owned(r.id, r.user)
              /\ "type" \in DOMAIN r.change => r.change.type # NULL
              /\ Changed(transactions[r.id], r.change) # {}
           THEN Hold(t, "patch_write", "seen", transactions[r.id]) ELSE Answered(t)
        /\ UNCHANGED <<tables, accepted>>

\* Mutant: the whole copy is written.
CopyWritten(row, seen, change) ==
    [f \in DOMAIN row |-> IF f \in DOMAIN change THEN change[f] ELSE seen[f]]

\* The row after the flush: only the changed columns are written.
Patched(row, seen, change) ==
    [f \in DOMAIN row |-> IF f \in Changed(seen, change) THEN change[f] ELSE row[f]]

\* One entry per changed field, in the order of UPDATABLE_FIELDS.
Entries(n, i, seen, change) ==
    LET row(f) == [since |-> n, transaction |-> i, field |-> f,
                   old |-> seen[f], new |-> change[f]]
        entry(f) == IF f \in Changed(seen, change) THEN <<row(f)>> ELSE <<>>
    IN  entry("category") \o entry("type")

\* The foreign key refuses a category there is not; otherwise the row and its
\* entries are committed together.
patch_write(t) ==
    LET r == session[t].request
        seen == session[t].seen
    IN  /\ pc[t] = "patch_write"
        /\ IF "category" \in Changed(seen, r.change)
              /\ r.change.category \notin Categories \cup {NULL}
           THEN UNCHANGED <<transactions, audit>>
           ELSE /\ transactions' = [transactions EXCEPT ![r.id] = Patched(@, seen, r.change)]
                /\ audit' = audit \o Entries(session[t].since, r.id, seen, r.change)
        /\ Answered(t)
        /\ UNCHANGED <<posted, archived, transfers, accepted>>

-----------------------------------------------------------------------------
(* Transfers                                                               *)

\* Mutant: the two sides may be of one account.
AnyTwo(r) == /\ Owned(r.source, r.user)
             /\ r.destination # NULL =>
                   r.destination # r.source /\ Owned(r.destination, r.user)

\* Both sides the user's, two transactions on two accounts; the other side may
\* not be known yet.  That one of them is in another transfer is not asked.
Linkable(r) ==
    /\ Owned(r.source, r.user)
    /\ r.destination # NULL =>
          /\ r.destination # r.source
          /\ Owned(r.destination, r.user)
          /\ transactions[r.destination].account # transactions[r.source].account

\* What is checked never changes again, so check and insert are one step.  The
\* transactions stay as they are.
link_transfer(t) ==
    LET r == session[t].request
    IN  /\ pc[t] = "link"
        /\ transfers' =
              IF Linkable(r) /\ Transfers # TransferIds   \* bound: an identity is left
              THEN [transfers EXCEPT ![Fresh(TransferIds \ Transfers)] =
                      [user |-> r.user, source |-> r.source,
                       destination |-> r.destination, confirmed |-> FALSE]]
              ELSE transfers
        /\ Answered(t)
        /\ UNCHANGED <<transactions, posted, archived, audit, accepted>>

confirm_transfer(t) ==
    LET r == session[t].request
    IN  /\ pc[t] = "confirm"
        /\ IF r.id \in Transfers /\ transfers[r.id].user = r.user
           THEN Hold(t, "confirm_write", "seen", transfers[r.id]) ELSE Answered(t)
        /\ UNCHANGED <<tables, accepted>>

\* Written if it differs from the copy.
confirm_write(t) ==
    LET r == session[t].request
    IN  /\ pc[t] = "confirm_write"
        /\ transfers' = IF session[t].seen.confirmed = r.confirmed THEN transfers
                        ELSE [transfers EXCEPT ![r.id].confirmed = r.confirmed]
        /\ Answered(t)
        /\ UNCHANGED <<transactions, posted, archived, audit, accepted>>

-----------------------------------------------------------------------------
(* Answers of two queries: what is shown, and a count.                     *)

\* The user's accounts that are not archived, with their balances.
account_rows(user) ==
    [a \in {b \in Accounts : Owner[b] = user /\ b \notin archived} |-> posted[a]]

\* Mutant: what is counted is what reports count.
ReportableOnly(user) ==
    [a \in {b \in Accounts : Owner[b] = user} |->
        {i \in Transactions : /\ transactions[i].account = a
                              /\ transactions[i].type # "TRANSFER"}]

\* The transactions of each account: all of them, whatever type or date.
account_counts(user) ==
    [a \in {b \in Accounts : Owner[b] = user} |->
        {i \in Transactions : transactions[i].account = a}]

\* _apply_filters
Filtered(r) == {i \in Transactions : /\ OwnerOf(i) = r.user
                                     /\ r.account \in {NULL, transactions[i].account}
                                     /\ r.category \in {NULL, transactions[i].category}}

\* account_summaries, for the account summary and for net worth.
account_summaries(t) ==
    /\ pc[t] = "summary"
    /\ Hold(t, "summary_count", "seen", account_rows(session[t].request.user))
    /\ UNCHANGED <<tables, accepted>>

summary_count(t) ==
    /\ pc[t] = "summary_count"
    /\ Hold(t, "respond", "counted", account_counts(session[t].request.user))
    /\ UNCHANGED <<tables, accepted>>

\* list_transactions: a page that holds what matches.
list_for_user(t) ==
    LET found == Filtered(session[t].request)
    IN  /\ pc[t] = "list"
        /\ Hold(t, "list_count", "seen", [i \in found |-> transactions[i]])
        /\ UNCHANGED <<tables, accepted>>

count_for_user(t) ==
    /\ pc[t] = "list_count"
    /\ Hold(t, "respond", "counted", Filtered(session[t].request))
    /\ UNCHANGED <<tables, accepted>>

respond(t) ==
    /\ pc[t] = "respond"
    /\ Answered(t)
    /\ UNCHANGED <<tables, accepted>>

-----------------------------------------------------------------------------
ReportingStep(t) ==
    \/ begin(t)
    \/ create_transaction(t) \/ post_write(t) \/ archive_account(t)
    \/ update_transaction(t) \/ patch_write(t)
    \/ link_transfer(t) \/ confirm_transfer(t) \/ confirm_write(t)
    \/ account_summaries(t) \/ summary_count(t)
    \/ list_for_user(t) \/ count_for_user(t) \/ respond(t)

ReportingNext == \E t \in Threads : ReportingStep(t)

ReportingSpec == ReportingInit /\ [][ReportingNext]_reportingVars

-----------------------------------------------------------------------------
(* The reports, each one query.                                            *)

Amount(ids) == MapThenSumSet(LAMBDA i : transactions[i].amount, ids)
Directed(ids, direction) == {i \in ids : transactions[i].direction = direction}

\* Mutant: the last date counts up to its first instant.
ScopeToMidnight(user, first, last) ==
    {i \in Transactions : /\ OwnerOf(i) = user
                          /\ transactions[i].type # "TRANSFER"
                          /\ transactions[i].at # NULL
                          /\ transactions[i].at >= DayStart(first)
                          /\ transactions[i].at <= DayStart(last)}

\* The user's transactions that are reported for first .. last; a comparison
\* with a timestamp that is NULL is not true.
reporting_scope(user, first, last) ==
    {i \in Transactions : /\ OwnerOf(i) = user
                          /\ transactions[i].type # "TRANSFER"
                          /\ transactions[i].at # NULL
                          /\ transactions[i].at >= DayStart(first)
                          /\ transactions[i].at <= DayEnd(last)}

income_and_expenses(user, first, last) ==
    LET scope == reporting_scope(user, first, last)
    IN  [income |-> Amount(Directed(scope, "CREDIT")),
         expenses |-> Amount(Directed(scope, "DEBIT")),
         count |-> Cardinality(scope)]

\* What was spent per category; NULL is "Uncategorized".
category_breakdown(user, first, last) ==
    LET spent == Directed(reporting_scope(user, first, last), "DEBIT")
    IN  [c \in {transactions[i].category : i \in spent} |->
            Amount({i \in spent : transactions[i].category = c})]

\* Income and expenses of every month in which there is something to report.
monthly_income_and_expenses(user, first, last) ==
    LET scope == reporting_scope(user, first, last)
        month(i) == MonthOf[transactions[i].at \div 2]
        bucket(m) == {i \in scope : month(i) = m}
    IN  [m \in {month(i) : i \in scope} |->
            [income |-> Amount(Directed(bucket(m), "CREDIT")),
             expenses |-> Amount(Directed(bucket(m), "DEBIT"))]]

\* month_period: from the first date of a month to its last.
monthly_summary(user, month) ==
    LET days == {d \in Dates : MonthOf[d] = month}
    IN  income_and_expenses(user, Min(days), Max(days))

\* The estimated balance of an account, from the postings that are in it.
Balance(a) ==
    Opening[a] + MapThenSumSet(LAMBDA i : balance_delta(transactions[i].amount,
                                   transactions[i].direction, TypeOf[a]), posted[a])

\* What is owed is stored as a positive balance and subtracted.
net_worth(user) ==
    LET mine == {a \in Accounts : Owner[a] = user /\ a \notin archived}
        liabilities == {a \in mine : TypeOf[a] \in LIABILITY_ACCOUNT_TYPES}
    IN  MapThenSumSet(Balance, mine \ liabilities) - MapThenSumSet(Balance, liabilities)

-----------------------------------------------------------------------------
(* Properties.                                                             *)

ReportingSteps == {"idle", "post", "post_write", "archive", "patch", "patch_write",
    "link", "confirm", "confirm_write", "summary", "summary_count", "list",
    "list_count", "respond"}

\* The tables hold rows of their models; a balance is made of transactions of its
\* account; the sides of a transfer are transactions of its user on two accounts
\* (transfers/service.py: "Linking across users would let one account's balance
\* be moved by another user's transaction").
ReportingTypeOK ==
    /\ transactions \in [TransactionIds -> Transaction \cup {NULL}]
    /\ posted \in [Accounts -> SUBSET TransactionIds]
    /\ \A a \in Accounts : \A i \in posted[a] :
          i \in Transactions /\ transactions[i].account = a
    /\ archived \subseteq Accounts
    /\ transfers \in [TransferIds -> Transfer \cup {NULL}]
    /\ \A x \in Transfers :
          LET account(i) == transactions[i].account
              other == transfers[x].destination
          IN  /\ Owned(transfers[x].source, transfers[x].user)
              /\ other # NULL => /\ Owned(other, transfers[x].user)
                                 /\ account(other) # account(transfers[x].source)
    /\ audit \in Seq(AuditLog)
    /\ accepted \in 0 .. MaxRequests
    /\ pc \in [Threads -> ReportingSteps]
    /\ \A t \in Threads : session[t].request \in Requests \cup {NULL}

\* Spending per category adds up to the expenses of the same dates.
CategoriesAddUp(user) ==
    \A first \in Dates, last \in Dates : first <= last =>
        LET spent == category_breakdown(user, first, last)
        IN  MapThenSumSet(LAMBDA c : spent[c], DOMAIN spent)
                = income_and_expenses(user, first, last).expenses

Months == {MonthOf[d] : d \in Dates}

\* A month's summary says what the month's row over all dates says.
MonthsAgree(user) ==
    LET rows == monthly_income_and_expenses(user, 0, LastDate)
    IN  \A m \in Months :
            LET summary == monthly_summary(user, m)
            IN  IF m \in DOMAIN rows
                THEN rows[m].income = summary.income /\ rows[m].expenses = summary.expenses
                ELSE summary.count = 0

\* Months count every dated transaction that is no transfer, once.
MonthsCountAll(user) ==
    MapThenSumSet(LAMBDA m : monthly_summary(user, m).count, Months)
        = Cardinality({i \in Transactions : /\ OwnerOf(i) = user
                                            /\ transactions[i].at # NULL
                                            /\ transactions[i].type # "TRANSFER"})

\* What an account is worth before anything is posted.
Start(a) == IF TypeOf[a] \in LIABILITY_ACCOUNT_TYPES THEN -Opening[a] ELSE Opening[a]

\* Net worth is what came in less what went out through the balances.
NetWorthIsFlow(user) ==
    LET mine == {a \in Accounts : Owner[a] = user /\ a \notin archived}
        flow(d) == Amount(Directed(UNION {posted[a] : a \in mine}, d))
    IN  net_worth(user) = MapThenSumSet(Start, mine) + flow("CREDIT") - flow("DEBIT")

\* The reports of one user agree with one another, whatever was posted, moved to
\* another category, made a transfer or left without a date: spending per category
\* adds up to the expenses of the same dates, uncategorised spending included; a
\* month's summary says what the month's row over all dates says; months count
\* every dated transaction that is no transfer, once; and net worth is what came
\* in less what went out through the balances, on assets and liabilities alike,
\* transfers between the user's accounts included (reporting/repository.py,
\* service.py).
ReportsAgree ==
    \A u \in Users : /\ CategoriesAddUp(u)
                     /\ MonthsAgree(u) /\ MonthsCountAll(u)
                     /\ NetWorthIsFlow(u)

\* The rows of the trail that tell of field f of transaction i.
Telling(i, f) == {n \in 1 .. Len(audit) : audit[n].transaction = i /\ audit[n].field = f}

\* The trail tells the table, as far as its created_at orders it: of every field
\* a user has edited, the stored value is the new value of some row, and no row of
\* the field comes of a transaction that began after that one's commit.  PATCHes
\* that overlap write different fields of one transaction, or the same, and audit
\* old values nobody replaced (update_transaction compares with the copy of its
\* session, and flush writes what differs).
EditsTell ==
    \A i \in TransactionIds, f \in UPDATABLE_FIELDS : Telling(i, f) # {} =>
        \E n \in Telling(i, f) :
            /\ transactions[i] # NULL /\ transactions[i][f] = audit[n].new
            /\ \A k \in Telling(i, f) : audit[k].since < n

\* The count of an answer covers what the answer shows, although it is a second
\* query and anything may commit in between: a balance is never ahead of the
\* account's transaction_count, and a page is only longer than its total_records
\* by transactions that were filed elsewhere between the two queries
\* (account_summaries, list_transactions).
CountsCoverWhatIsShown ==
    [][\A t \in Threads : pc'[t] = "respond" /\ pc[t] # "respond" =>
          LET answer == session'[t]
          IN  CASE pc[t] = "summary_count" ->
                     \A a \in DOMAIN answer.seen : answer.seen[a] \subseteq answer.counted[a]
                [] pc[t] = "list_count" ->
                     \A i \in DOMAIN answer.seen :
                         \/ i \in answer.counted
                         \/ transactions[i].category # answer.seen[i].category]_reportingVars

\* "Linking the two sides is what lets reporting exclude it" (transfers/models.py:12).
LinkedIsExcluded ==
    \A x \in Transfers :
        transfers[x].source \notin reporting_scope(transfers[x].user, 0, LastDate)
=============================================================================
