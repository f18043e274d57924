--------------------------- MODULE AbstractLedger ---------------------------
(***************************************************************************)
(* What the ledger promises its user (api/ingest.py:71, balances/service.py *)
(* :71, docs/sprint-2-accounts.md:63): each posting moves the balance of    *)
(* its account by its signed amount, in one indivisible step, on top of     *)
(* whatever the balance is then; nothing is posted twice; an archived       *)
(* account is closed to everything but a message the bank sends about it,   *)
(* and to a reconciliation, which sets the balance.                         *)
(***************************************************************************)
EXTENDS FinancialCalculator, Sequences

CONSTANTS
    AccountIds, NULL,
    Edges       \* per status, the ones an edit may give the account next

VARIABLES
    book,       \* per account: NULL or its [type, status, balance]
    entries     \* what was posted, in order

abstractVars == <<book, entries>>

Fingerprint(e) == <<e.account, e.amount, e.direction, e.key>>

\* Only account id changes.
Only(id) == \A a \in AccountIds \ {id} : book'[a] = book[a]

Open(id) ==
    /\ book[id] = NULL /\ book'[id] # NULL
    /\ Only(id)
    /\ UNCHANGED entries

\* An edit of a live account, archiving included, follows an edge of the status
\* and leaves the balance alone.
Edit(id) ==
    /\ book[id] # NULL /\ book'[id] # NULL
    /\ book[id].status # "ARCHIVED"
    /\ book'[id].status \in {book[id].status} \cup Edges[book[id].status]
    /\ book'[id].balance = book[id].balance
    /\ Only(id)
    /\ UNCHANGED entries

\* Nothing of account id changes but its balance, which becomes b.
SetBalance(id, b) ==
    /\ book[id] # NULL /\ book'[id] # NULL
    /\ book'[id].balance = b
    /\ Representable(b)
    /\ book'[id].type = book[id].type
    /\ book'[id].status = book[id].status
    /\ Only(id)

Post(e) ==
    LET old == book[e.account]
    IN  /\ entries' = Append(entries, e)
        /\ \A i \in 1 .. Len(entries) : Fingerprint(entries[i]) # Fingerprint(e)
        /\ SetBalance(e.account,
                      old.balance + balance_delta(e.amount, e.direction, old.type))
        /\ old.status = "ARCHIVED" => e.raw # NULL

Reconcile(id) ==
    /\ SetBalance(id, book'[id].balance)
    /\ UNCHANGED entries

AbstractInit == entries = <<>>

AbstractNext ==
    \/ \E id \in AccountIds : Open(id) \/ Edit(id) \/ Reconcile(id)
    \/ /\ Len(entries') > Len(entries)
       /\ Post(entries'[Len(entries')])

AbstractSpec == AbstractInit /\ [][AbstractNext]_abstractVars
=============================================================================
