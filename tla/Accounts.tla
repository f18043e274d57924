------------------------------ MODULE Accounts ------------------------------
(***************************************************************************)
(* The accounts domain: app/domains/accounts/{service,repository}.py over   *)
(* the `accounts` table, as run by api/accounts.py.                         *)
(*                                                                         *)
(* Every endpoint is a plain `def`, so the requests of one user run         *)
(* concurrently on the server's thread pool, each with a SQLAlchemy session *)
(* of its own.  A session reads a row once, keeps that copy (the identity   *)
(* map), decides on the copy, and at flush writes the columns that differ   *)
(* from it: no row is locked and no version is compared.  An action is      *)
(* therefore one database round trip: a SELECT at READ COMMITTED, or a      *)
(* flush together with its commit (PostgreSQL makes the two atomic to the   *)
(* other sessions).                                                         *)
(***************************************************************************)
EXTENDS FinancialCalculator, Sequences, FiniteSets

CONSTANTS
    Threads,       \* request handlers that may run at the same time
    AccountIds,    \* identities of the rows of `accounts`
    NULL,          \* SQL NULL, an absent row, an unused local
    Banks,         \* bank names
    Digits,        \* last-four-digits values
    InitialAccounts, \* [AccountIds -> Account \cup {NULL}]: the table at the start
    Endpoints,     \* which requests the clients of this instance send
    NewAccounts,   \* bodies of POST /accounts, as rows
    Patches,       \* bodies of PATCH /accounts/{id}: functions on submitted fields
    MaxEvents,     \* bound: no request is accepted beyond this many audit events
    MaxStart       \* bound: no transaction begins after more audit events; with 0
                   \* the properties of created_at are not asked

AccountStatus == {"PENDING", "ACTIVE", "DISABLED", "ARCHIVED"}

ALLOWED_STATUS_TRANSITIONS ==
    [PENDING  |-> {"ACTIVE", "DISABLED", "ARCHIVED"},
     ACTIVE   |-> {"DISABLED", "ARCHIVED"},
     DISABLED |-> {"ACTIVE", "ARCHIVED"},
     ARCHIVED |-> {}]

\* A row of `accounts`.  Names, currency and timestamps decide nothing here.
Account == [bank : Banks \cup {NULL}, digits : Digits \cup {NULL},
            type : AccountType, status : AccountStatus,
            opening : Int, balance : Int]

\* Columns a request may write, and the values of each.
Columns == {"bank", "digits", "type", "status", "opening", "balance"}
UPDATABLE_FIELDS == {"bank", "digits", "type", "status"}
IDENTITY_FIELDS == {"bank", "digits", "type"}

ColumnValues(f) ==
    CASE f = "bank"   -> Banks \cup {NULL}
      [] f = "digits" -> Digits \cup {NULL}
      [] f = "type"   -> AccountType
      [] f = "status" -> AccountStatus
      [] OTHER        -> Int

\* A set of column writes: the values by column name.
IsChange(c) == /\ DOMAIN c \subseteq Columns
               /\ \A f \in DOMAIN c : c[f] \in ColumnValues(f)

NoChange == [f \in {} |-> NULL]

Identity(row) == <<row.bank, row.digits, row.type>>

\* uq_user_bank_lastfour_type: PostgreSQL never equates two NULLs.
Indexed(row) == row.bank # NULL /\ row.digits # NULL

ASSUME AccountsAssumption ==
    /\ NULL \notin AccountIds \cup Banks \cup Digits
    /\ InitialAccounts \in [AccountIds -> Account \cup {NULL}]
    /\ \A a, b \in AccountIds :
          /\ a # b /\ InitialAccounts[a] # NULL /\ InitialAccounts[b] # NULL
          /\ Indexed(InitialAccounts[a])
          => Identity(InitialAccounts[a]) # Identity(InitialAccounts[b])
    /\ NewAccounts \subseteq Account
    /\ \A row \in NewAccounts : row.balance = row.opening
    /\ \A id \in AccountIds : InitialAccounts[id] # NULL =>
          Representable(InitialAccounts[id].balance)
    /\ \A c \in Patches : IsChange(c) /\ DOMAIN c \subseteq UPDATABLE_FIELDS
    /\ NULL \notin Account
    /\ MaxEvents \in Nat /\ MaxStart \in Nat

VARIABLES
    accounts,   \* the table: [AccountIds -> Account \cup {NULL}]
    audit,      \* audit_log; the position of a row is its commit's, which no
                \* column records: created_at is the start of the transaction
    pc,         \* where each request handler is
    session     \* its session: when its transaction began, the row it loaded and
                \* the columns it will write

accountVars == <<accounts, audit, pc, session>>

NoSession == [since |-> 0, target |-> NULL, seen |-> NULL, change |-> NoChange]

Stored == {id \in AccountIds : accounts[id] # NULL}

AccountsInit ==
    /\ accounts = InitialAccounts
    /\ audit = <<>>
    /\ pc = [t \in Threads |-> "idle"]
    /\ session = [t \in Threads |-> NoSession]

-----------------------------------------------------------------------------
(* What the handlers are built from.                                       *)

\* A free worker takes a request of this kind.
Accepts(t, endpoint) ==
    /\ pc[t] = "idle"
    /\ endpoint \in Endpoints
    /\ Len(audit) + Cardinality({u \in Threads : pc[u] # "idle"}) < MaxEvents

\* When the transaction of a request that now reads its account began, as the
\* number of events committed by then: the driver sends BEGIN in a round trip
\* of its own before the first SELECT, and anything may commit in between.
Began == {n \in 0 .. MaxStart : n <= Len(audit)}

\* Session t goes on to `next`, holding its copy of row id and its changes.
HoldSince(t, n, next, id, row, c) ==
    /\ pc' = [pc EXCEPT ![t] = next]
    /\ session' = [session EXCEPT ![t] =
                      [since |-> n, target |-> id, seen |-> row, change |-> c]]

\* The same for a request whose events tell of no edit: their created_at is
\* left out.
Hold(t, next, id, row, c) == HoldSince(t, 0, next, id, row, c)

\* The request is answered and its session closed.
Close(t) == /\ pc' = [pc EXCEPT ![t] = "idle"]
            /\ session' = [session EXCEPT ![t] = NoSession]

\* UPDATE accounts SET <the changed columns>: the other columns stay as they are.
Write(row, c) == [f \in DOMAIN row |-> IF f \in DOMAIN c THEN c[f] ELSE row[f]]

\* Mutants: a column that was not sent is set to NULL; every column of the copy
\* is written back.
DifferingUnset(row, c) ==
    [f \in UPDATABLE_FIELDS |-> IF f \in DOMAIN c THEN c[f] ELSE NULL]

DifferingAll(row, c) ==
    IF \E g \in DOMAIN c : c[g] # row[g]
    THEN [f \in UPDATABLE_FIELDS |-> IF f \in DOMAIN c THEN c[f] ELSE row[f]]
    ELSE NoChange

\* The columns of c that differ from the loaded copy: all the ORM emits.
Differing(row, c) == [f \in {g \in DOMAIN c : c[g] # row[g]} |-> c[f]]

\* find_duplicate: `= NULL` is rendered IS NULL, so two NULLs match.
find_duplicate(row, exclude) ==
    \E id \in Stored \ {exclude} : Identity(accounts[id]) = Identity(row)

\* Mutant: no unique constraint behind the pre-check.
IndexAbsent(row, exclude) == FALSE

\* The INSERT or UPDATE would break the unique constraint.
IndexRejects(row, exclude) == Indexed(row) /\ find_duplicate(row, exclude)

\* Mutant: the old values are read after the columns were assigned.
EntryAfter(event, n, id, old, new) ==
    [event |-> event, since |-> n, entity |-> id,
     old |-> [f \in DOMAIN old |-> new[f]], new |-> new]

\* A row of audit_log; created_at is the start of its transaction, n.
Entry(event, n, id, old, new) ==
    [event |-> event, since |-> n, entity |-> id, old |-> old, new |-> new]

\* Mutant: archiving publishes nothing.
RecordEdits(entry) ==
    audit' = IF entry.event = "AccountArchived" THEN audit ELSE Append(audit, entry)

Record(entry) == audit' = Append(audit, entry)

-----------------------------------------------------------------------------
(* POST /accounts                                                          *)

create_account(t) ==
    /\ Accepts(t, "create")
    /\ \E row \in NewAccounts :
          /\ row.status # "ARCHIVED"
          /\ ~find_duplicate(row, NULL)
          /\ Hold(t, "create_insert", NULL, NULL, row)
    /\ UNCHANGED <<accounts, audit>>

\* The database refuses the INSERT of the row.
InsertFails(row) == IndexRejects(row, NULL) \/ ~Representable(row.opening)

\* add, publish, commit; the constraint is the backstop and rolls back.
create_insert(t) ==
    LET row == session[t].change
    IN  /\ pc[t] = "create_insert"
        /\ \/ /\ InsertFails(row)
              /\ UNCHANGED <<accounts, audit>>
           \/ /\ ~InsertFails(row)
              /\ \E id \in AccountIds \ Stored :
                    /\ accounts' = [accounts EXCEPT ![id] = row]
                    /\ Record(Entry("AccountCreated", 0, id, NoChange, NoChange))
        /\ Close(t)

-----------------------------------------------------------------------------
(* PATCH /accounts/{id}                                                    *)

\* Mutant: any status may follow any other.
StatusFree(current, patch) == TRUE

StatusAllowed(current, patch) ==
    "status" \in DOMAIN patch =>
        \/ patch.status = current
        \/ patch.status \in ALLOWED_STATUS_TRANSITIONS[current]

\* Mutant: the archived guard is missing.
AnyAccount(row) == TRUE

\* The guard of update_account: ArchivedAccountImmutableError otherwise.
Mutable(row) == row.status # "ARCHIVED"

\* get_account, the archived guard and _collect_changes, all on one read.
update_account(t) ==
    /\ Accepts(t, "update")
    /\ \E id \in Stored, patch \in Patches, n \in Began :
          LET row == accounts[id]
              changes == Differing(row, patch)
          IN  /\ Mutable(row)
              /\ StatusAllowed(row.status, patch)
              /\ DOMAIN changes # {}
              /\ HoldSince(t, n, IF DOMAIN changes \cap IDENTITY_FIELDS # {}
                                 THEN "update_guard" ELSE "update_write",
                           id, row, changes)
    /\ UNCHANGED <<accounts, audit>>

\* _guard_duplicate_identity: a second SELECT, before anything is written.
update_guard(t) ==
    LET s == session[t]
    IN  /\ pc[t] = "update_guard"
        /\ \/ /\ find_duplicate(Write(s.seen, s.change), s.target)
              /\ Close(t)
           \/ /\ ~find_duplicate(Write(s.seen, s.change), s.target)
              /\ pc' = [pc EXCEPT ![t] = "update_write"]
              /\ UNCHANGED session
        /\ UNCHANGED <<accounts, audit>>

\* flush, publish, commit.
update_write(t) ==
    LET s == session[t]
        row == Write(accounts[s.target], s.change)
        old == [f \in DOMAIN s.change |-> s.seen[f]]
    IN  /\ pc[t] = "update_write"
        /\ \/ /\ IndexRejects(row, s.target)
              /\ UNCHANGED <<accounts, audit>>
           \/ /\ ~IndexRejects(row, s.target)
              /\ accounts' = [accounts EXCEPT ![s.target] = row]
              /\ Record(Entry("AccountUpdated", s.since, s.target, old, s.change))
        /\ Close(t)

-----------------------------------------------------------------------------
(* DELETE /accounts/{id}                                                   *)

archive_account(t) ==
    /\ Accepts(t, "archive")
    /\ \E id \in Stored, n \in Began :
          /\ accounts[id].status # "ARCHIVED"
          /\ HoldSince(t, n, "archive_write", id, accounts[id],
                       [status |-> "ARCHIVED"])
    /\ UNCHANGED <<accounts, audit>>

archive_write(t) ==
    LET s == session[t]
    IN  /\ pc[t] = "archive_write"
        /\ accounts' = [accounts EXCEPT ![s.target] =
                           Write(accounts[s.target], s.change)]
        /\ Record(Entry("AccountArchived", s.since, s.target, NoChange, NoChange))
        /\ Close(t)

AccountsStep(t) ==
    \/ create_account(t) \/ create_insert(t)
    \/ update_account(t) \/ update_guard(t) \/ update_write(t)
    \/ archive_account(t) \/ archive_write(t)

AccountsNext == \E t \in Threads : AccountsStep(t)

AccountsSpec == AccountsInit /\ [][AccountsNext]_accountVars

-----------------------------------------------------------------------------
(* Properties.                                                             *)

AccountSteps == {"idle", "create_insert", "update_guard", "update_write",
                 "archive_write"}

IsSession(s) ==
    /\ DOMAIN s = {"since", "target", "seen", "change"}
    /\ s.since \in Nat
    /\ s.target \in AccountIds \cup {NULL}
    /\ s.seen \in Account \cup {NULL}
    /\ IsChange(s.change)

IsEntry(e) ==
    /\ DOMAIN e = {"event", "since", "entity", "old", "new"}
    /\ e.since \in Nat
    /\ e.event \in {"AccountCreated", "AccountUpdated", "AccountArchived"}
    /\ e.entity \in AccountIds
    /\ IsChange(e.old) /\ IsChange(e.new)

\* The table, the trail and every session hold well-formed values
\* (service.py's parsers and validators).
AccountsTypeOK ==
    /\ accounts \in [AccountIds -> Account \cup {NULL}]
    /\ \A i \in 1 .. Len(audit) : IsEntry(audit[i])
    /\ pc \in [Threads -> AccountSteps]
    /\ DOMAIN session = Threads /\ \A t \in Threads : IsSession(session[t])

\* Two accounts never hold the same bank, digits and type when both columns
\* are set, although create and update check before they write and several
\* requests may be between the check and the write (the "backstop" of
\* docs/sprint-2-accounts.md, repository.add and repository.flush).
UniqueIdentity ==
    \A a, b \in Stored :
        a # b /\ Indexed(accounts[a]) => Identity(accounts[a]) # Identity(accounts[b])

\* What entry e of the trail says of column f of account id.
Tells(e, id, f) ==
    /\ e.entity = id
    /\ \/ e.event = "AccountUpdated" /\ f \in DOMAIN e.new
       \/ e.event = "AccountArchived" /\ f = "status"

Told(e, f) == IF e.event = "AccountArchived" THEN "ARCHIVED" ELSE e.new[f]

\* The entries of the trail that tell of column f of account id.
Telling(id, f) == {i \in 1 .. Len(audit) : Tells(audit[i], id, f)}

\* The trail tells the table, as far as its created_at orders it: for every
\* account and every column a user has edited, the stored value is the one some
\* entry tells, and every entry that tells of the column comes of a transaction
\* that began before that one committed.  The stored value is therefore the
\* newest row's, or that of an edit still running when the newest one began
\* (flush writes only the changed columns; the event is in the same commit).
TrailTells ==
    \A id \in AccountIds, f \in UPDATABLE_FIELDS : Telling(id, f) # {} =>
        \E i \in Telling(id, f) :
            /\ accounts[id] # NULL /\ accounts[id][f] = Told(audit[i], f)
            /\ \A j \in Telling(id, f) : audit[j].since < i

\* Column f of account id held v at some moment between the commits of events n
\* and m of the log: v is the value the column had after event n, or one told since.
Held(log, id, f, v, n, m) ==
    LET telling == {j \in 1 .. m : Tells(log[j], id, f)}
    IN  \/ \E j \in telling : /\ Told(log[j], f) = v
                             /\ \A k \in telling : k <= n => k <= j
        \/ /\ \A k \in telling : k > n
           /\ InitialAccounts[id] # NULL => InitialAccounts[id][f] = v

\* The old value of an edit is read on a copy that another edit may overtake, so
\* the trail need not be a chain; but it is never older than the transaction
\* that audits it: the column held it at some moment since that began, "so a
\* reviewer can see exactly what moved" (domains/audit/service.py:55;
\* _collect_changes, service.py:212).
OldWasStored ==
    \A i \in 1 .. Len(audit) : audit[i].event = "AccountUpdated" =>
        \A f \in DOMAIN audit[i].old :
            Held(audit, audit[i].entity, f, audit[i].old[f], audit[i].since, i - 1)

\* A column changes only by a commit that leaves a trace of it in the trail
\* (service.py publishes inside the transaction of the change).
NoUnauditedEdit ==
    [][\A id \in Stored, f \in UPDATABLE_FIELDS :
          accounts'[id][f] # accounts[id][f] =>
              /\ Len(audit') = Len(audit) + 1
              /\ Tells(audit'[Len(audit')], id, f)]_accountVars

\* Only a PATCH of the status that read the row before the archive committed
\* can bring an archived account back (update_account's guard is on the copy):
\* an edit of any other column, a posting or a reconciliation never does.
OnlyStalePatchRevives ==
    [][\A id \in Stored :
          accounts[id].status = "ARCHIVED" /\ accounts'[id].status # "ARCHIVED" =>
              \E t \in Threads : /\ pc[t] = "update_write"
                                 /\ session[t].target = id
                                 /\ session[t].seen.status # "ARCHIVED"
                                 /\ "status" \in DOMAIN session[t].change
                                 /\ session[t].change.status # session[t].seen.status]_accountVars

\* "`ARCHIVED` is terminal. An archived account cannot be modified"
\* (docs/sprint-2-accounts.md:63; the guard of update_account), its balance
\* apart: messages are posted to it and a user may reconcile it.
ArchivedIsTerminal ==
    [][\A id \in Stored, f \in UPDATABLE_FIELDS :
          accounts[id].status = "ARCHIVED" => accounts'[id][f] = accounts[id][f]]_accountVars

\* Every status change is an edge of ALLOWED_STATUS_TRANSITIONS, compound
\* edits included.
StatusLifecycle ==
    [][\A id \in Stored :
          LET from == accounts[id].status
              to   == accounts'[id].status
          IN  from # to => to \in ALLOWED_STATUS_TRANSITIONS[from]]_accountVars
=============================================================================
