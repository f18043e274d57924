------------------------------- MODULE Ledger -------------------------------
(***************************************************************************)
(* Manual posting and reconciliation: domains/transactions/{service,        *)
(* repository,fingerprint}.py and domains/balances/service.py behind        *)
(* POST /transactions and POST /accounts/{id}/reconcile.                    *)
(*                                                                         *)
(* The balance engine is a publisher of the TransactionCreated event: it    *)
(* runs in the posting's own database transaction, on the copy of the       *)
(* account the session already holds, and the commit writes the balance it  *)
(* computed as a constant.                                                  *)
(***************************************************************************)
EXTENDS Accounts, FiniteSetsExt

CONSTANTS
    Payments,      \* bodies of POST /transactions
    Keys,          \* minute, merchant and reference number of a payment, as one value
    RawEventIds,   \* identities of the rows of raw_events
    ActualBalances \* bodies of POST /accounts/{id}/reconcile

\* What is asked to be posted; raw is NULL for a manual posting.
Payment == [raw : RawEventIds \cup {NULL}, amount : Nat,
            direction : TransactionDirection, key : Keys]

\* A row of `transactions`.
Transaction == [account : AccountIds, raw : RawEventIds \cup {NULL}, amount : Nat,
                direction : TransactionDirection, key : Keys]

ASSUME LedgerAssumption ==
    /\ Payments \subseteq {p \in Payment : p.raw = NULL}
    /\ ActualBalances \subseteq Int
    \* nothing was posted or reconciled before the start
    /\ \A id \in AccountIds : InitialAccounts[id] # NULL =>
          InitialAccounts[id].balance = InitialAccounts[id].opening
    /\ NULL \notin RawEventIds \cup Keys \cup Payment
    /\ NULL \notin [type : AccountType, status : AccountStatus, balance : Int]

VARIABLES
    transactions,  \* the table, in commit order
    payment        \* per handler: the posting it is making, or NULL

ledgerVars == <<accounts, audit, pc, session, transactions, payment>>

LedgerInit ==
    /\ AccountsInit
    /\ transactions = <<>>
    /\ payment = [t \in Threads |-> NULL]

-----------------------------------------------------------------------------
(* What a posting is made of.                                              *)

\* build_transaction_fingerprint, the user left out.
Fingerprint(e) == <<e.account, e.amount, e.direction, e.key>>

\* Mutant: the signed amount is stored.
RowSigned(id, p) == [account |-> id, raw |-> p.raw,
                     amount |-> IF p.direction = "DEBIT" THEN p.amount ELSE -p.amount,
                     direction |-> p.direction, key |-> p.key]

RowOf(id, p) == [account |-> id, raw |-> p.raw, amount |-> p.amount,
                 direction |-> p.direction, key |-> p.key]

\* The row handler t is about to insert.
Pending(t) == RowOf(session[t].target, payment[t])

\* find_by_fingerprint, and the unique index of the same columns.
Posted(e) == \E i \in 1 .. Len(transactions) :
                 Fingerprint(transactions[i]) = Fingerprint(e)

\* Mutants: the event is delivered twice; the opening balance is taken.
AppliedTwice(t) ==
    session[t].seen.balance
        + 2 * balance_delta(payment[t].amount, payment[t].direction, session[t].seen.type)

AppliedToOpening(t) ==
    session[t].seen.opening
        + balance_delta(payment[t].amount, payment[t].direction, session[t].seen.type)

\* apply_transaction: the new balance, computed on the session's copy.
AppliedBalance(t) ==
    session[t].seen.balance
        + balance_delta(payment[t].amount, payment[t].direction, session[t].seen.type)

\* The stored row after the flush of balance b: a balance equal to the loaded
\* one is not written.
FlushBalance(row, seen, b) == Write(row, Differing(seen, [balance |-> b]))

\* INSERT, audit row, balance UPDATE and COMMIT.
PostEffect(t) ==
    LET s == session[t]
    IN  /\ transactions' = Append(transactions, Pending(t))
        /\ accounts' = [accounts EXCEPT ![s.target] =
                           FlushBalance(accounts[s.target], s.seen, AppliedBalance(t))]
        /\ Record(Entry("TransactionCreated", 0, Len(transactions) + 1, NoChange, NoChange))

\* Mutant: no unique index behind the pre-check.
PostOverflows(t) == ~Representable(payment[t].amount) \/ ~Representable(AppliedBalance(t))

\* The unique index or NUMERIC(18,2) refuses the flush: everything rolls back.
PostFails(t) ==
    \/ Posted(Pending(t))
    \/ ~Representable(payment[t].amount)
    \/ ~Representable(AppliedBalance(t))

-----------------------------------------------------------------------------
(* POST /transactions                                                      *)

\* get_by_id and the archived guard.
create_transaction(t) ==
    /\ Accepts(t, "post")
    /\ \E id \in Stored, p \in Payments :
          /\ accounts[id].status # "ARCHIVED"
          /\ Hold(t, "post_check", id, accounts[id], NoChange)
          /\ payment' = [payment EXCEPT ![t] = p]
    /\ UNCHANGED <<accounts, audit, transactions>>

ClosePost(t) == Close(t) /\ payment' = [payment EXCEPT ![t] = NULL]

\* The duplicate pre-check.
post_check(t) ==
    /\ pc[t] = "post_check"
    /\ \/ /\ Posted(Pending(t))
          /\ ClosePost(t)
       \/ /\ ~Posted(Pending(t))
          /\ pc' = [pc EXCEPT ![t] = "post_write"]
          /\ UNCHANGED <<session, payment>>
    /\ UNCHANGED <<accounts, audit, transactions>>

post_write(t) ==
    /\ pc[t] = "post_write"
    /\ \/ PostFails(t) /\ UNCHANGED <<accounts, audit, transactions>>
       \/ ~PostFails(t) /\ PostEffect(t)
    /\ ClosePost(t)

-----------------------------------------------------------------------------
(* POST /accounts/{id}/reconcile                                           *)

\* The account is read whatever its status.
reconcile_account(t) ==
    /\ Accepts(t, "reconcile")
    /\ \E id \in Stored, actual \in ActualBalances :
          Hold(t, "reconcile_write", id, accounts[id], [balance |-> actual])
    /\ UNCHANGED <<accounts, audit, transactions, payment>>

\* The audit row and the changed balance commit together.
reconcile_write(t) ==
    LET s == session[t]
    IN  /\ pc[t] = "reconcile_write"
        /\ \/ /\ ~Representable(s.change.balance)
              /\ UNCHANGED <<accounts, audit>>
           \/ /\ Representable(s.change.balance)
              /\ accounts' = [accounts EXCEPT ![s.target] =
                                 FlushBalance(accounts[s.target], s.seen, s.change.balance)]
              /\ Record(Entry("BalanceReconciled", 0, s.target,
                              [balance |-> s.seen.balance], s.change))
        /\ Close(t)
        /\ UNCHANGED <<transactions, payment>>

LedgerStep(t) ==
    \/ create_transaction(t) \/ post_check(t) \/ post_write(t)
    \/ reconcile_account(t) \/ reconcile_write(t)

LedgerNext ==
    \/ AccountsNext /\ UNCHANGED <<transactions, payment>>
    \/ \E t \in Threads : LedgerStep(t)

LedgerSpec == LedgerInit /\ [][LedgerNext]_ledgerVars

-----------------------------------------------------------------------------
(* Properties.                                                             *)

LedgerSteps == AccountSteps \cup {"post_check", "post_write", "reconcile_write"}

IsLedgerEntry(e) ==
    \/ IsEntry(e)
    \/ /\ DOMAIN e = {"event", "since", "entity", "old", "new"}
       /\ e.since \in Nat
       /\ IsChange(e.old) /\ IsChange(e.new)
       /\ \/ e.event = "TransactionCreated" /\ e.entity \in Nat
          \/ e.event = "BalanceReconciled" /\ e.entity \in AccountIds

\* Every table, the trail and every session hold well-formed values, and each
\* stored balance fits its column.
LedgerTypeOK ==
    /\ accounts \in [AccountIds -> Account \cup {NULL}]
    /\ \A id \in Stored : Representable(accounts[id].balance)
    /\ \A i \in 1 .. Len(audit) : IsLedgerEntry(audit[i])
    /\ transactions \in Seq(Transaction)
    /\ pc \in [Threads -> LedgerSteps]
    /\ DOMAIN session = Threads /\ \A t \in Threads : IsSession(session[t])
    /\ payment \in [Threads -> Payment \cup {NULL}]

\* No two transactions have one fingerprint, although several requests may be
\* between the pre-check and the INSERT ("the index is what actually holds
\* under concurrent ingestion", create_transaction).
NoDoublePosting ==
    \A i, j \in 1 .. Len(transactions) :
        Fingerprint(transactions[i]) = Fingerprint(transactions[j]) => i = j

\* The postings of account id, as indices, and the effect of one.
PostingsOn(id) == {k \in 1 .. Len(transactions) : transactions[k].account = id}
Effect(k, id) == balance_delta(transactions[k].amount, transactions[k].direction,
                               accounts[id].type)

\* Nothing but postings set the balance of account id: it was never reconciled,
\* and its type, which gives a posting its sign, never edited.
PostingsOnly(id) ==
    \A i \in 1 .. Len(audit) : audit[i].entity = id =>
        /\ audit[i].event # "BalanceReconciled"
        /\ "type" \notin DOMAIN audit[i].new

\* The most concurrent requests can do to a balance is lose whole postings: it
\* is the opening balance plus the effects of some of the account's
\* transactions, the latest among them; none is applied twice or in part, none
\* of another account, and no edit or archive takes one back.
DriftIsLostPostings ==
    \A id \in Stored : PostingsOnly(id) =>
        \E S \in SUBSET PostingsOn(id) :
            /\ PostingsOn(id) # {} => Max(PostingsOn(id)) \in S
            /\ accounts[id].balance =
                   accounts[id].opening + MapThenSumSet(LAMBDA k : Effect(k, id), S)

\* "a balance can never drift from the transactions that produced it"
\* (api/ingest.py:72), when nothing but postings set it.
NeverDrifts ==
    \A id \in Stored : PostingsOnly(id) =>
        accounts[id].balance =
            accounts[id].opening
                + MapThenSumSet(LAMBDA k : Effect(k, id), PostingsOn(id))

\* The concrete ledger seen as the abstract one.
Book == [id \in AccountIds |->
            IF accounts[id] = NULL THEN NULL
            ELSE [type |-> accounts[id].type, status |-> accounts[id].status,
                  balance |-> accounts[id].balance]]

Abstract == INSTANCE AbstractLedger WITH
                book <- Book, entries <- transactions,
                Edges <- ALLOWED_STATUS_TRANSITIONS

\* What handler t is about to write was decided on a copy that another request
\* has overtaken where it matters: an edit by a change of the status, a posting
\* by a change of anything the book shows.  The write of an archive or of a
\* reconciliation reads nothing of its copy that could mislead it.
Overtaken(t) ==
    LET seen == session[t].seen
        row  == accounts[session[t].target]
    IN  \/ pc[t] = "update_write" /\ row.status # seen.status
        \/ /\ pc[t] = "post_write"
           /\ \/ row.type # seen.type
              \/ row.status # seen.status
              \/ row.balance # seen.balance

\* Whatever overlaps, the ledger departs from the abstract one only in the
\* write of an overtaken edit or posting: every other step of every handler
\* (a stale archive or reconciliation, an edit of a row whose balance moved)
\* is one of its steps or changes nothing it shows.
OnlyOvertakenDepart ==
    [][(\E t \in Threads : pc'[t] # pc[t] /\ Overtaken(t))
       \/ [Abstract!AbstractNext]_(Abstract!abstractVars)]_ledgerVars

\* With one request at a time the ledger is the abstract one: read, decide,
\* compute and write behave as one step.
ImplementsAbstractLedger == Abstract!AbstractSpec
=============================================================================
