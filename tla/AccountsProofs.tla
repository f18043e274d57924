--------------------------- MODULE AccountsProofs ---------------------------
(***************************************************************************)
(* Theorems of Accounts, for every set of threads, ids, bodies and patches. *)
(***************************************************************************)
EXTENDS Accounts, TLAPS

-----------------------------------------------------------------------------
(* The operators the handlers are built from.                              *)

LEMMA WriteTyped ==
    ASSUME NEW row \in Account, NEW c, IsChange(c)
    PROVE  Write(row, c) \in Account
<1> DEFINE w == Write(row, c)
<1>1. DOMAIN row = Columns
  BY DEF Account, Columns
<1>2. /\ w.bank \in Banks \cup {NULL} /\ w.digits \in Digits \cup {NULL}
      /\ w.type \in AccountType /\ w.status \in AccountStatus
      /\ w.opening \in Int /\ w.balance \in Int
  BY <1>1 DEF Write, IsChange, ColumnValues, Account, Columns
<1>3. w = [bank |-> w.bank, digits |-> w.digits, type |-> w.type,
           status |-> w.status, opening |-> w.opening, balance |-> w.balance]
  BY <1>1 DEF Write, Columns
<1> QED BY <1>2, <1>3 DEF Account

LEMMA DifferingTyped ==
    ASSUME NEW row, NEW c, IsChange(c)
    PROVE  IsChange(Differing(row, c))
BY DEF IsChange, Differing

LEMMA RowIsChange ==
    ASSUME NEW row \in Account
    PROVE  IsChange(row)
BY DEF IsChange, Account, Columns, ColumnValues

\* Some set contains the elements of s: all a proof needs to know of a log.
IsSeq(s) == \E S : s \in Seq(S)

LEMMA AppendToSeq ==
    ASSUME NEW s, NEW e, IsSeq(s)
    PROVE  /\ IsSeq(Append(s, e))
           /\ Len(s) \in Nat
           /\ Len(Append(s, e)) = Len(s) + 1
           /\ \A i \in 1 .. Len(s) : Append(s, e)[i] = s[i]
           /\ Append(s, e)[Len(s) + 1] = e
<1>1. PICK S : s \in Seq(S)
  BY DEF IsSeq
<1>2. s \in Seq(S \cup {e})
  BY <1>1
<1>3. Append(s, e) \in Seq(S \cup {e})
  BY <1>2
<1> QED BY <1>2, <1>3 DEF IsSeq

-----------------------------------------------------------------------------
(* Type correctness.                                                       *)

\* What the steps of the accounts handlers need and keep.  It bounds no pc, so
\* that it also holds while a handler is inside another component.
AccountsInd ==
    /\ accounts \in [AccountIds -> Account \cup {NULL}]
    /\ IsSeq(audit)
    /\ DOMAIN pc = Threads
    /\ DOMAIN session = Threads
    /\ \A t \in Threads :
          /\ IsSession(session[t])
          /\ pc[t] = "create_insert" =>
                /\ session[t].change \in Account
                /\ session[t].change.balance = session[t].change.opening
          /\ pc[t] \in {"update_guard", "update_write", "archive_write"} =>
                /\ session[t].target \in Stored
                /\ session[t].seen \in Account
                /\ session[t].seen.status # "ARCHIVED"
                /\ DOMAIN session[t].change \subseteq UPDATABLE_FIELDS
          /\ pc[t] = "archive_write" => session[t].change = [status |-> "ARCHIVED"]

LEMMA AccountsInitInd == AccountsInit => AccountsInd
<1> SUFFICES ASSUME AccountsInit PROVE AccountsInd
  OBVIOUS
<1>1. accounts \in [AccountIds -> Account \cup {NULL}]
  BY AccountsAssumption DEF AccountsInit
<1>2. IsSeq(audit)
  BY DEF AccountsInit, IsSeq
<1>3. IsSession(NoSession)
  BY DEF IsSession, NoSession, NoChange, IsChange
<1> QED BY <1>1, <1>2, <1>3 DEF AccountsInit, AccountsInd

\* A step of one handler keeps every handler's session well formed, provided
\* its own new session is and the table loses no row.
LEMMA HoldKeeps ==
    ASSUME AccountsInd, NEW t \in Threads, NEW n, NEW next, NEW id, NEW row, NEW c,
           IsSession([since |-> n, target |-> id, seen |-> row, change |-> c]),
           next = "create_insert" => c \in Account /\ c.balance = c.opening,
           next \in {"update_guard", "update_write", "archive_write"} =>
               /\ id \in Stored /\ row \in Account /\ row.status # "ARCHIVED"
               /\ DOMAIN c \subseteq UPDATABLE_FIELDS,
           next = "archive_write" => c = [status |-> "ARCHIVED"],
           HoldSince(t, n, next, id, row, c), UNCHANGED <<accounts, audit>>
    PROVE  AccountsInd'
BY DEF AccountsInd, HoldSince, Stored

LEMMA CloseKeeps ==
    ASSUME AccountsInd, NEW t \in Threads, Close(t),
           accounts' \in [AccountIds -> Account \cup {NULL}],
           \A id \in Stored : accounts'[id] # NULL,
           IsSeq(audit')
    PROVE  AccountsInd'
<1>1. IsSession(NoSession)
  BY DEF IsSession, NoSession, NoChange, IsChange
<1> QED BY <1>1 DEF AccountsInd, Close, Stored

\* Every step of an accounts handler keeps the invariant, and adds to the trail
\* nothing or one well-formed event.
LEMMA AccountsStepInd ==
    ASSUME AccountsInd, NEW t \in Threads, AccountsStep(t)
    PROVE  /\ AccountsInd'
           /\ audit' = audit \/ \E e : IsEntry(e) /\ audit' = Append(audit, e)
<1> USE AccountsAssumption
<1>a. IsChange(NoChange)
  BY DEF IsChange, NoChange
<1>1. CASE create_account(t)
  <2>1. PICK row \in NewAccounts : Hold(t, "create_insert", NULL, NULL, row)
    BY <1>1 DEF create_account
  <2>2. row \in Account /\ row.balance = row.opening
    OBVIOUS
  <2>3. IsSession([since |-> 0, target |-> NULL, seen |-> NULL, change |-> row])
    BY <2>2, RowIsChange DEF IsSession
  <2> QED BY <1>1, <2>1, <2>2, <2>3, HoldKeeps DEF create_account, Hold
<1>2. CASE create_insert(t)
  <2> DEFINE row == session[t].change
  <2>1. row \in Account /\ Close(t)
    BY <1>2 DEF create_insert, AccountsInd
  <2>2. CASE UNCHANGED <<accounts, audit>>
    BY <2>1, <2>2, CloseKeeps DEF AccountsInd, Stored
  <2>3. CASE \E id \in AccountIds \ Stored :
               /\ accounts' = [accounts EXCEPT ![id] = row]
               /\ Record(Entry("AccountCreated", 0, id, NoChange, NoChange))
    <3>1. PICK id \in AccountIds \ Stored :
               /\ accounts' = [accounts EXCEPT ![id] = row]
               /\ Record(Entry("AccountCreated", 0, id, NoChange, NoChange))
      BY <2>3
    <3>2. IsEntry(Entry("AccountCreated", 0, id, NoChange, NoChange))
      BY <1>a DEF IsEntry, Entry
    <3>3. IsSeq(audit')
      BY <3>1, AppendToSeq DEF Record, AccountsInd
    <3> QED BY <2>1, <3>1, <3>2, <3>3, CloseKeeps DEF AccountsInd, Stored, Record
  <2> QED BY <1>2, <2>2, <2>3 DEF create_insert
<1>3. CASE update_account(t)
  <2>1. PICK id \in Stored, patch \in Patches, n \in Began,
             next \in {"update_guard", "update_write"} :
             /\ HoldSince(t, n, next, id, accounts[id], Differing(accounts[id], patch))
             /\ accounts[id].status # "ARCHIVED"
    BY <1>3, Zenon DEF update_account, Mutable
  <2>2. accounts[id] \in Account
    BY DEF Stored, AccountsInd
  <2>5. DOMAIN Differing(accounts[id], patch) \subseteq UPDATABLE_FIELDS
    BY DEF Differing
  <2>3. IsChange(Differing(accounts[id], patch))
    BY DifferingTyped
  <2>4. IsSession([since |-> n, target |-> id, seen |-> accounts[id],
                   change |-> Differing(accounts[id], patch)])
    BY <2>2, <2>3 DEF IsSession, Stored, Began
  <2> QED BY <1>3, <2>1, <2>2, <2>4, <2>5, HoldKeeps DEF update_account
<1>4. CASE update_guard(t)
  <2>1. CASE Close(t)
    BY <1>4, <2>1, CloseKeeps DEF update_guard, AccountsInd, Stored
  <2>2. CASE pc' = [pc EXCEPT ![t] = "update_write"] /\ UNCHANGED session
    BY <1>4, <2>2 DEF update_guard, AccountsInd, Stored
  <2> QED BY <1>4, <2>1, <2>2 DEF update_guard
<1>5. CASE update_write(t)
  <2> DEFINE s == session[t]
             row == Write(accounts[s.target], s.change)
             old == [f \in DOMAIN s.change |-> s.seen[f]]
  <2>1. /\ s.target \in Stored /\ accounts[s.target] \in Account
        /\ s.seen \in Account /\ IsChange(s.change) /\ s.since \in Nat /\ Close(t)
    BY <1>5 DEF update_write, AccountsInd, Stored, IsSession
  <2>2. row \in Account
    BY <2>1, WriteTyped
  <2>3. IsChange(old)
    <3>1. IsChange(s.seen)
      BY <2>1, RowIsChange
    <3>2. DOMAIN s.seen = Columns
      BY <2>1 DEF Account, Columns
    <3>3. /\ DOMAIN s.change \subseteq Columns
          /\ \A f \in DOMAIN s.change : s.seen[f] \in ColumnValues(f)
      BY <2>1, <3>1, <3>2 DEF IsChange
    <3> QED BY <3>3 DEF IsChange
  <2>4. IsEntry(Entry("AccountUpdated", s.since, s.target, old, s.change))
    BY <2>1, <2>3 DEF IsEntry, Entry, Stored
  <2>5. CASE UNCHANGED <<accounts, audit>>
    BY <2>1, <2>5, CloseKeeps DEF AccountsInd, Stored
  <2>6. CASE /\ accounts' = [accounts EXCEPT ![s.target] = row]
             /\ Record(Entry("AccountUpdated", s.since, s.target, old, s.change))
    <3>1. IsSeq(audit')
      BY <2>6, AppendToSeq DEF Record, AccountsInd
    <3> QED BY <2>1, <2>2, <2>4, <2>6, <3>1, CloseKeeps DEF AccountsInd, Stored, Record
  <2> QED BY <1>5, <2>5, <2>6 DEF update_write
<1>6. CASE archive_account(t)
  <2>1. PICK id \in Stored, n \in Began :
             /\ HoldSince(t, n, "archive_write", id, accounts[id], [status |-> "ARCHIVED"])
             /\ accounts[id].status # "ARCHIVED"
    BY <1>6 DEF archive_account
  <2>2. IsSession([since |-> n, target |-> id, seen |-> accounts[id],
                   change |-> [status |-> "ARCHIVED"]])
    BY DEF IsSession, Began, Stored, AccountsInd, IsChange, ColumnValues, Columns, AccountStatus
  <2> QED BY <1>6, <2>1, <2>2, HoldKeeps DEF archive_account, Stored, AccountsInd,
          UPDATABLE_FIELDS
<1>7. CASE archive_write(t)
  <2> DEFINE s == session[t]
             row == Write(accounts[s.target], s.change)
  <2>1. /\ s.target \in Stored /\ accounts[s.target] \in Account
        /\ IsChange(s.change) /\ s.since \in Nat /\ Close(t)
    BY <1>7 DEF archive_write, AccountsInd, Stored, IsSession
  <2>2. row \in Account
    BY <2>1, WriteTyped
  <2>3. /\ accounts' = [accounts EXCEPT ![s.target] = row]
        /\ Record(Entry("AccountArchived", s.since, s.target, NoChange, NoChange))
    BY <1>7 DEF archive_write
  <2>4. IsEntry(Entry("AccountArchived", s.since, s.target, NoChange, NoChange))
    BY <2>1, <1>a DEF IsEntry, Entry, Stored
  <2>5. IsSeq(audit')
    BY <2>3, AppendToSeq DEF Record, AccountsInd
  <2> QED BY <2>1, <2>2, <2>3, <2>4, <2>5, CloseKeeps DEF AccountsInd, Stored, Record
<1> QED BY <1>1, <1>2, <1>3, <1>4, <1>5, <1>6, <1>7 DEF AccountsStep

\* Type correctness of the accounts component.
THEOREM AccountsTypeCorrect == AccountsSpec => []AccountsTypeOK
<1> DEFINE Inv == AccountsInd /\ AccountsTypeOK
<1>1. AccountsInit => Inv
  BY AccountsInitInd DEF AccountsInit, AccountsTypeOK, AccountsInd, AccountSteps
<1>2. Inv /\ [AccountsNext]_accountVars => Inv'
  <2> SUFFICES ASSUME Inv, [AccountsNext]_accountVars PROVE Inv'
    OBVIOUS
  <2>1. CASE UNCHANGED accountVars
    BY <2>1 DEF accountVars, AccountsInd, AccountsTypeOK, Stored
  <2>2. ASSUME NEW t \in Threads, AccountsStep(t) PROVE Inv'
    <3>1. /\ AccountsInd'
          /\ audit' = audit \/ \E e : IsEntry(e) /\ audit' = Append(audit, e)
      BY <2>2, AccountsStepInd
    <3>2. pc' \in [Threads -> AccountSteps]
      BY <2>2 DEF AccountsStep, create_account, create_insert, update_account,
           update_guard, update_write, archive_account, archive_write, Hold, HoldSince, Close,
           AccountsTypeOK, AccountSteps
    <3>3. \A i \in 1 .. Len(audit') : IsEntry(audit'[i])
      BY <3>1, AppendToSeq DEF AccountsTypeOK, AccountsInd
    <3> QED BY <3>1, <3>2, <3>3 DEF AccountsInd, AccountsTypeOK
  <2> QED BY <2>1, <2>2 DEF AccountsNext
<1> QED BY <1>1, <1>2, PTL DEF AccountsSpec

\* The accounts handlers open accounts with a representable balance, the opening
\* one, and leave both balances of a stored account alone.
LEMMA AccountsStepBalance ==
    ASSUME AccountsInd, NEW t \in Threads, AccountsStep(t)
    PROVE  /\ \A id \in Stored : /\ accounts'[id] # NULL
                                 /\ accounts'[id].balance = accounts[id].balance
                                 /\ accounts'[id].opening = accounts[id].opening
           /\ \A id \in AccountIds \ Stored :
                 accounts'[id] # NULL =>
                     /\ Representable(accounts'[id].balance)
                     /\ accounts'[id].balance = accounts'[id].opening
<1>1. CASE UNCHANGED accounts
  BY <1>1 DEF Stored
<1>2. CASE create_insert(t)
  <2>1. \/ UNCHANGED accounts
        \/ \E id \in AccountIds \ Stored :
              /\ accounts' = [accounts EXCEPT ![id] = session[t].change]
              /\ Representable(session[t].change.opening)
    BY <1>2 DEF create_insert, InsertFails
  <2> QED BY <1>1, <1>2, <2>1 DEF create_insert, AccountsInd, Stored
<1>3. CASE update_write(t) \/ archive_write(t)
  <2> DEFINE s == session[t]
             row == Write(accounts[s.target], s.change)
  <2>1. UNCHANGED accounts \/ accounts' = [accounts EXCEPT ![s.target] = row]
    BY <1>3 DEF update_write, archive_write
  <2>2. /\ s.target \in Stored /\ accounts[s.target] \in Account /\ IsChange(s.change)
        /\ DOMAIN s.change \subseteq UPDATABLE_FIELDS
    BY <1>3 DEF update_write, archive_write, AccountsInd, Stored, IsSession
  <2>3. row \in Account /\ row # NULL
    BY <2>2, WriteTyped, AccountsAssumption
  <2>4. /\ row.balance = accounts[s.target].balance
        /\ row.opening = accounts[s.target].opening
    BY <2>2 DEF Write, UPDATABLE_FIELDS, Account
  <2> HIDE DEF row
  <2> QED BY <1>1, <2>1, <2>2, <2>3, <2>4 DEF AccountsInd, Stored
<1> QED BY <1>1, <1>2, <1>3 DEF AccountsStep, create_account, update_account,
         update_guard, archive_account

-----------------------------------------------------------------------------
(* The unique identity of accounts.                                        *)

LEMMA AccountsStepUnique ==
    ASSUME AccountsInd, UniqueIdentity, NEW t \in Threads, AccountsStep(t)
    PROVE  UniqueIdentity'
<1>1. CASE UNCHANGED accounts
  BY <1>1 DEF UniqueIdentity, Stored
<1>2. CASE create_insert(t)
  <2>1. SUFFICES ASSUME NEW id \in AccountIds \ Stored, NEW row \in Account,
                        ~IndexRejects(row, NULL),
                        accounts' = [accounts EXCEPT ![id] = row]
                 PROVE  UniqueIdentity'
    BY <1>1, <1>2 DEF create_insert, InsertFails, AccountsInd
  <2>2. Indexed(row) => \A a \in Stored : Identity(accounts[a]) # Identity(row)
    BY <2>1, AccountsAssumption DEF IndexRejects, find_duplicate, Stored
  <2>3. \A a \in AccountIds : accounts'[a] = IF a = id THEN row ELSE accounts[a]
    BY <2>1 DEF AccountsInd
  <2> QED BY <2>2, <2>3 DEF UniqueIdentity, Stored, Indexed, Identity
<1>3. CASE update_write(t)
  <2> DEFINE id == session[t].target
             row == Write(accounts[id], session[t].change)
  <2>1. SUFFICES ASSUME ~IndexRejects(row, id), accounts' = [accounts EXCEPT ![id] = row]
                 PROVE  UniqueIdentity'
    BY <1>1, <1>3 DEF update_write
  <2>2. id \in Stored
    BY <1>3 DEF update_write, AccountsInd
  <2>3. Indexed(row) => \A a \in Stored \ {id} : Identity(accounts[a]) # Identity(row)
    BY <2>1 DEF IndexRejects, find_duplicate
  <2>4. \A a \in AccountIds : accounts'[a] = IF a = id THEN row ELSE accounts[a]
    BY <2>1 DEF AccountsInd
  <2> HIDE DEF row
  <2> QED BY <2>2, <2>3, <2>4 DEF UniqueIdentity, Stored, Indexed, Identity
<1>4. CASE archive_write(t)
  <2> DEFINE id == session[t].target
             row == Write(accounts[id], session[t].change)
  <2>1. id \in Stored /\ accounts[id] \in Account
    BY <1>4 DEF archive_write, AccountsInd, Stored
  <2>2. Identity(row) = Identity(accounts[id]) /\ (Indexed(row) <=> Indexed(accounts[id]))
    BY <1>4, <2>1 DEF archive_write, AccountsInd, Write, Identity, Indexed, Account
  <2>3. \A a \in AccountIds : accounts'[a] = IF a = id THEN row ELSE accounts[a]
    BY <1>4 DEF archive_write, AccountsInd
  <2> HIDE DEF row
  <2> QED BY <2>1, <2>2, <2>3 DEF UniqueIdentity, Stored
<1> QED BY <1>1, <1>2, <1>3, <1>4 DEF AccountsStep, create_account, update_account,
         update_guard, archive_account

\* No two stored accounts share a complete identity.
THEOREM AccountsUniqueIdentity == AccountsSpec => []UniqueIdentity
<1> DEFINE Inv == AccountsInd /\ UniqueIdentity
<1>1. AccountsInit => Inv
  BY AccountsInitInd, AccountsAssumption DEF AccountsInit, UniqueIdentity, Stored
<1>2. Inv /\ [AccountsNext]_accountVars => Inv'
  <2> SUFFICES ASSUME Inv, [AccountsNext]_accountVars PROVE Inv'
    OBVIOUS
  <2>1. CASE UNCHANGED accountVars
    BY <2>1 DEF accountVars, AccountsInd, Stored, UniqueIdentity
  <2>2. ASSUME NEW t \in Threads, AccountsStep(t) PROVE Inv'
    BY <2>2, AccountsStepInd, AccountsStepUnique
  <2> QED BY <2>1, <2>2 DEF AccountsNext
<1> QED BY <1>1, <1>2, PTL DEF AccountsSpec

-----------------------------------------------------------------------------
(* The audit trail.                                                        *)

\* Every edit in progress began after some of the events committed so far.
SinceInd == \A t \in Threads : session[t].since \in 0 .. Len(audit)

\* A handler's transaction began where its session says or has just been chosen.
LEMMA SinceKept ==
    ASSUME AccountsInd, AccountsInd', SinceInd,
           audit' = audit \/ \E e : Record(e),
           \A t \in Threads : session'[t].since \in {session[t].since} \cup Began
    PROVE  SinceInd'
<1>1. /\ Len(audit) \in Nat
      /\ Len(audit') \in {Len(audit), Len(audit) + 1}
  BY AppendToSeq DEF Record, AccountsInd, IsSeq
<1>2. \A t \in Threads : session'[t].since \in 0 .. Len(audit)
  BY <1>1 DEF SinceInd, Began
<1> QED BY <1>1, <1>2 DEF SinceInd

LEMMA AccountsStepSince ==
    ASSUME AccountsInd, SinceInd, NEW t \in Threads, AccountsStep(t)
    PROVE  SinceInd'
<1>1. AccountsInd' /\ (audit' = audit \/ \E e : Record(e))
  BY AccountsStepInd DEF Record
<1>2. 0 \in Began
  BY AccountsAssumption DEF Began, AccountsInd, IsSeq
<1>3. \A u \in Threads : session'[u].since \in {session[u].since} \cup Began
  BY <1>2 DEF AccountsStep, create_account, create_insert, update_account, update_guard,
     update_write, archive_account, archive_write, Hold, HoldSince, Close, NoSession,
     AccountsInd
<1> QED BY <1>1, <1>3, SinceKept

\* Only stored accounts are told of, so a new row starts without a history.
TrailInd ==
    /\ \A i \in 1 .. Len(audit) : audit[i].since \in Nat
    /\ \A id \in AccountIds, f \in UPDATABLE_FIELDS :
          Telling(id, f) # {} => id \in Stored

\* Appending an event that tells of nothing, while the told columns stay, keeps
\* the trail true; so does appending one that tells what was written by a
\* transaction that began before.
LEMMA TrailExtends ==
    ASSUME AccountsInd, TrailTells, TrailInd, NEW e, Record(e),
           e.since \in 0 .. Len(audit),
           \A id \in Stored : accounts'[id] # NULL,
           \A id \in AccountIds, f \in UPDATABLE_FIELDS :
              IF Tells(e, id, f)
              THEN accounts'[id] # NULL /\ accounts'[id][f] = Told(e, f)
              ELSE id \in Stored => accounts'[id][f] = accounts[id][f]
    PROVE  TrailInd' /\ TrailTells'
<1> DEFINE n == Len(audit)
<1>1. /\ n \in Nat /\ Len(audit') = n + 1
      /\ \A i \in 1 .. n : audit'[i] = audit[i]
      /\ audit'[n + 1] = e
  BY AppendToSeq DEF Record, AccountsInd
<1>2. \A id \in AccountIds, f \in UPDATABLE_FIELDS :
         Telling(id, f)' = IF Tells(e, id, f) THEN Telling(id, f) \cup {n + 1}
                                              ELSE Telling(id, f)
  BY <1>1 DEF Telling, Tells
<1>3. \A id \in AccountIds, f \in UPDATABLE_FIELDS : Telling(id, f) \subseteq 1 .. n
  BY DEF Telling
<1>4. TrailInd'
  <2>1. \A id \in AccountIds, f \in UPDATABLE_FIELDS :
            Telling(id, f)' # {} => accounts'[id] # NULL
    BY <1>2 DEF TrailInd, Stored
  <2>2. \A i \in 1 .. Len(audit') : audit'[i].since \in Nat
    BY <1>1 DEF TrailInd
  <2> QED BY <2>1, <2>2 DEF TrailInd, Stored
<1>5. ASSUME NEW id \in AccountIds, NEW f \in UPDATABLE_FIELDS, Telling(id, f)' # {}
      PROVE  \E i \in Telling(id, f)' :
                /\ accounts'[id] # NULL /\ accounts'[id][f] = Told(audit'[i], f)
                /\ \A j \in Telling(id, f)' : audit'[j].since < i
  <2>1. CASE Tells(e, id, f)
    <3>1. \A j \in Telling(id, f)' : audit'[j].since < n + 1
      <4>1. ASSUME NEW j \in Telling(id, f) PROVE audit[j].since < n + 1
        <5>1. PICK i \in Telling(id, f) : audit[j].since < i
          BY DEF TrailTells
        <5>2. audit[j].since \in Nat /\ i \in 1 .. n
          BY <1>3 DEF TrailInd
        <5> QED BY <1>1, <5>1, <5>2
      <4> QED BY <1>1, <1>2, <1>3, <4>1
    <3> QED BY <1>1, <1>2, <2>1, <3>1
  <2>2. CASE ~Tells(e, id, f)
    <3>1. id \in Stored /\ accounts'[id] # NULL /\ accounts'[id][f] = accounts[id][f]
      BY <1>2, <1>5, <2>2 DEF TrailInd
    <3>2. PICK i \in Telling(id, f) : /\ accounts[id][f] = Told(audit[i], f)
                                      /\ \A j \in Telling(id, f) : audit[j].since < i
      BY <1>2, <1>5, <2>2 DEF TrailTells
    <3> QED BY <1>1, <1>2, <1>3, <2>2, <3>1, <3>2
  <2> QED BY <2>1, <2>2
<1>6. TrailTells'
  BY <1>5 DEF TrailTells, Told
<1> QED BY <1>4, <1>6

\* What a committing step of handler t does: it records one event, which tells
\* what it wrote to the columns it tells of, and leaves the other columns alone.
Records(t, e) ==
    /\ Record(e) /\ Close(t)
    /\ e.since \in 0 .. Len(audit)
    /\ \A id \in Stored : accounts'[id] # NULL
    /\ \A id \in AccountIds, f \in UPDATABLE_FIELDS :
          IF Tells(e, id, f)
          THEN accounts'[id] # NULL /\ accounts'[id][f] = Told(e, f)
          ELSE id \in Stored => accounts'[id][f] = accounts[id][f]
    /\ e.event = "AccountUpdated" =>
          /\ pc[t] = "update_write"
          /\ e = Entry("AccountUpdated", session[t].since, session[t].target,
                       [f \in DOMAIN session[t].change |-> session[t].seen[f]],
                       session[t].change)

LEMMA AccountsStepRecords ==
    ASSUME AccountsInd, SinceInd, NEW t \in Threads, AccountsStep(t)
    PROVE  UNCHANGED <<accounts, audit>> \/ \E e : Records(t, e)
<1> DEFINE s == session[t]
<1>2. ASSUME create_insert(t), ~UNCHANGED <<accounts, audit>> PROVE \E e : Records(t, e)
  <2>1. PICK id \in AccountIds \ Stored :
           /\ accounts' = [accounts EXCEPT ![id] = s.change]
           /\ Record(Entry("AccountCreated", 0, id, NoChange, NoChange))
    BY <1>2 DEF create_insert
  <2> DEFINE e == Entry("AccountCreated", 0, id, NoChange, NoChange)
  <2>2. \A a \in AccountIds, f \in UPDATABLE_FIELDS : ~Tells(e, a, f)
    BY DEF Tells, Entry
  <2>3. \A a \in Stored : accounts'[a] # NULL /\ accounts'[a] = accounts[a]
    BY <2>1 DEF AccountsInd, Stored
  <2>4. e.since \in 0 .. Len(audit) /\ e.event # "AccountUpdated"
    BY AppendToSeq DEF Entry, AccountsInd
  <2>5. Close(t)
    BY <1>2 DEF create_insert
  <2> HIDE DEF e
  <2> QED BY <2>1, <2>2, <2>3, <2>4, <2>5 DEF e, Records
<1>3. ASSUME update_write(t), ~UNCHANGED <<accounts, audit>> PROVE \E e : Records(t, e)
  <2> DEFINE id == s.target
             row == Write(accounts[id], s.change)
             old == [f \in DOMAIN s.change |-> s.seen[f]]
             e == Entry("AccountUpdated", s.since, id, old, s.change)
  <2>1. accounts' = [accounts EXCEPT ![id] = row] /\ Record(e) /\ Close(t)
    BY <1>3 DEF update_write
  <2>2. /\ id \in Stored /\ accounts[id] \in Account /\ IsChange(s.change)
        /\ DOMAIN accounts[id] = Columns
    BY <1>3 DEF update_write, AccountsInd, Stored, IsSession, Account, Columns
  <2>3. row \in Account /\ row # NULL
    BY <2>2, WriteTyped, AccountsAssumption
  <2>4. \A f \in UPDATABLE_FIELDS :
           row[f] = IF f \in DOMAIN s.change THEN s.change[f] ELSE accounts[id][f]
    BY <2>2 DEF Write, Columns, UPDATABLE_FIELDS
  <2>5. \A a \in AccountIds, f \in UPDATABLE_FIELDS :
           /\ Tells(e, a, f) <=> a = id /\ f \in DOMAIN s.change
           /\ Told(e, f) = s.change[f]
    BY DEF Tells, Told, Entry
  <2>6. \A a \in AccountIds : accounts'[a] = IF a = id THEN row ELSE accounts[a]
    BY <2>1 DEF AccountsInd
  <2>7. \A a \in Stored : accounts'[a] # NULL
    BY <2>3, <2>6 DEF Stored
  <2>9. e.since \in 0 .. Len(audit)
    BY DEF Entry, SinceInd
  <2>10. pc[t] = "update_write" /\ e = Entry("AccountUpdated", s.since, id, old, s.change)
    BY <1>3 DEF update_write
  <2> HIDE DEF row, e
  <2>8. \A a \in AccountIds, f \in UPDATABLE_FIELDS :
           IF Tells(e, a, f)
           THEN accounts'[a] # NULL /\ accounts'[a][f] = Told(e, f)
           ELSE a \in Stored => accounts'[a][f] = accounts[a][f]
    BY <2>3, <2>4, <2>5, <2>6
  <2> QED BY <2>1, <2>7, <2>8, <2>9, <2>10 DEF Records
<1>4. ASSUME archive_write(t) PROVE \E e : Records(t, e)
  <2> DEFINE id == s.target
             row == Write(accounts[id], s.change)
             e == Entry("AccountArchived", s.since, id, NoChange, NoChange)
  <2>1. accounts' = [accounts EXCEPT ![id] = row] /\ Record(e) /\ Close(t)
    BY <1>4 DEF archive_write
  <2>2. /\ id \in Stored /\ accounts[id] \in Account /\ IsChange(s.change)
        /\ DOMAIN accounts[id] = Columns /\ s.change = [status |-> "ARCHIVED"]
    BY <1>4 DEF archive_write, AccountsInd, Stored, IsSession, Account, Columns
  <2>3. row \in Account /\ row # NULL
    BY <2>2, WriteTyped, AccountsAssumption
  <2>4. \A f \in UPDATABLE_FIELDS :
           row[f] = IF f = "status" THEN "ARCHIVED" ELSE accounts[id][f]
    BY <2>2 DEF Write, Columns, UPDATABLE_FIELDS
  <2>5. \A a \in AccountIds, f \in UPDATABLE_FIELDS :
           /\ Tells(e, a, f) <=> a = id /\ f = "status"
           /\ Told(e, f) = "ARCHIVED"
    BY DEF Tells, Told, Entry
  <2>6. \A a \in AccountIds : accounts'[a] = IF a = id THEN row ELSE accounts[a]
    BY <2>1 DEF AccountsInd
  <2>7. \A a \in Stored : accounts'[a] # NULL
    BY <2>3, <2>6 DEF Stored
  <2>9. e.since \in 0 .. Len(audit) /\ e.event # "AccountUpdated"
    BY DEF Entry, SinceInd
  <2> HIDE DEF row, e
  <2>8. \A a \in AccountIds, f \in UPDATABLE_FIELDS :
           IF Tells(e, a, f)
           THEN accounts'[a] # NULL /\ accounts'[a][f] = Told(e, f)
           ELSE a \in Stored => accounts'[a][f] = accounts[a][f]
    BY <2>3, <2>4, <2>5, <2>6
  <2> QED BY <2>1, <2>7, <2>8, <2>9 DEF Records
<1> QED BY <1>2, <1>3, <1>4 DEF AccountsStep, create_account, update_account,
         update_guard, archive_account

LEMMA AccountsStepTrail ==
    ASSUME AccountsInd, SinceInd, TrailInd, TrailTells, NEW t \in Threads, AccountsStep(t)
    PROVE  TrailInd' /\ TrailTells'
<1>1. CASE UNCHANGED <<accounts, audit>>
  BY <1>1 DEF TrailInd, TrailTells, Telling, Stored, Tells, Told
<1>2. ASSUME NEW e, Records(t, e) PROVE TrailInd' /\ TrailTells'
  BY <1>2, TrailExtends DEF Records
<1> QED BY <1>1, <1>2, AccountsStepRecords

LEMMA TrailInit ==
    ASSUME AccountsInit
    PROVE  SinceInd /\ TrailInd /\ TrailTells
<1>1. Len(audit) = 0
  BY DEF AccountsInit
<1>2. \A id \in AccountIds, f \in UPDATABLE_FIELDS : Telling(id, f) = {}
  BY <1>1 DEF Telling
<1>3. SinceInd
  BY <1>1 DEF AccountsInit, SinceInd, NoSession
<1> QED BY <1>1, <1>2, <1>3 DEF TrailInd, TrailTells

\* However edits overlap, the stored value of a column is told by the newest row
\* of the trail or by one whose transaction was running when that one's began.
THEOREM AccountsTrailTells == AccountsSpec => []TrailTells
<1> DEFINE Inv == AccountsInd /\ SinceInd /\ TrailInd /\ TrailTells
<1>1. AccountsInit => Inv
  BY AccountsInitInd, TrailInit
<1>2. Inv /\ [AccountsNext]_accountVars => Inv'
  <2> SUFFICES ASSUME Inv, [AccountsNext]_accountVars PROVE Inv'
    OBVIOUS
  <2>1. CASE UNCHANGED accountVars
    BY <2>1 DEF accountVars, AccountsInd, Stored, SinceInd, TrailInd, TrailTells, Telling,
       Tells, Told
  <2>2. ASSUME NEW t \in Threads, AccountsStep(t) PROVE Inv'
    BY <2>2, AccountsStepInd, AccountsStepSince, AccountsStepTrail
  <2> QED BY <2>1, <2>2 DEF AccountsNext
<1> QED BY <1>1, <1>2, PTL DEF AccountsSpec

-----------------------------------------------------------------------------
(* The old values of the trail.                                            *)

LEMMA HeldSameLog ==
    ASSUME NEW log, NEW more, NEW id, NEW f, NEW v, NEW n \in Nat, NEW m \in Nat,
           \A j \in 1 .. m : more[j] = log[j], Held(log, id, f, v, n, m)
    PROVE  Held(more, id, f, v, n, m)
BY DEF Held

LEMMA HeldSinceEarlier ==
    ASSUME NEW log, NEW id, NEW f, NEW v, NEW n \in Nat, NEW m \in Nat,
           NEW k \in 0 .. n, Held(log, id, f, v, n, m)
    PROVE  Held(log, id, f, v, k, m)
BY DEF Held

LEMMA HeldUntilLater ==
    ASSUME NEW log, NEW id, NEW f, NEW v, NEW m \in Nat, NEW n \in 0 .. m,
           Held(log, id, f, v, n, m)
    PROVE  Held(log, id, f, v, n, m + 1)
BY DEF Held

\* The last event told v, or told nothing and v was held before it.
LEMMA HeldNow ==
    ASSUME NEW log, NEW id, NEW f, NEW v, NEW m \in Nat,
           IF Tells(log[m + 1], id, f) THEN v = Told(log[m + 1], f)
                                       ELSE Held(log, id, f, v, m, m)
    PROVE  Held(log, id, f, v, m + 1, m + 1)
<1>1. CASE Tells(log[m + 1], id, f)
  BY <1>1 DEF Held
<1>2. CASE ~Tells(log[m + 1], id, f)
  <2>1. {j \in 1 .. m + 1 : Tells(log[j], id, f)} = {j \in 1 .. m : Tells(log[j], id, f)}
    BY <1>2
  <2>2. \A k \in 1 .. m : (k <= m + 1 <=> k <= m) /\ ~(k > m) /\ ~(k > m + 1)
    OBVIOUS
  <2> QED BY <1>2, <2>1, <2>2 DEF Held
<1> QED BY <1>1, <1>2

Editing == {"update_guard", "update_write"}

\* The table holds what was told last, and an edit in progress what its column
\* held when its transaction began or since.
HeldInd ==
    /\ \A id \in AccountIds : InitialAccounts[id] # NULL => id \in Stored
    /\ \A id \in Stored, f \in UPDATABLE_FIELDS :
          Held(audit, id, f, accounts[id][f], Len(audit), Len(audit))
    /\ \A t \in Threads : pc[t] \in Editing =>
          \A f \in DOMAIN session[t].change :
             Held(audit, session[t].target, f, session[t].seen[f],
                  session[t].since, Len(audit))

\* Committing an event that tells what was written, or nothing, keeps the old
\* values true, its own included.
LEMMA RecordHeld ==
    ASSUME AccountsInd, SinceInd, TrailInd, HeldInd, OldWasStored, NEW e, Record(e),
           \A id \in Stored : accounts'[id] # NULL,
           \A id \in AccountIds, f \in UPDATABLE_FIELDS :
              IF Tells(e, id, f)
              THEN accounts'[id] # NULL /\ accounts'[id][f] = Told(e, f)
              ELSE id \in Stored => accounts'[id][f] = accounts[id][f],
           \A t \in Threads : pc'[t] \in Editing =>
              pc[t] \in Editing /\ session'[t] = session[t],
           e.event = "AccountUpdated" => \A f \in DOMAIN e.old :
              Held(audit, e.entity, f, e.old[f], e.since, Len(audit)),
           e.since \in Nat
    PROVE  HeldInd' /\ OldWasStored'
<1> DEFINE N == Len(audit)
<1>1. /\ N \in Nat /\ Len(audit') = N + 1
      /\ \A i \in 1 .. N : audit'[i] = audit[i]
      /\ audit'[N + 1] = e
  BY AppendToSeq DEF Record, AccountsInd
<1> HIDE DEF N
<1>2. \A id \in AccountIds : InitialAccounts[id] # NULL => accounts'[id] # NULL
  BY DEF HeldInd, Stored
<1>3. ASSUME NEW id \in AccountIds, accounts'[id] # NULL, NEW f \in UPDATABLE_FIELDS
      PROVE  Held(audit', id, f, accounts'[id][f], N + 1, N + 1)
  <2>1. ASSUME ~Tells(e, id, f) PROVE Held(audit, id, f, accounts'[id][f], N, N)
    <3>1. CASE id \in Stored
      BY <1>3, <2>1, <3>1 DEF HeldInd, N
    <3>2. CASE id \notin Stored
      <4>1. InitialAccounts[id] = NULL /\ Telling(id, f) = {}
        BY <3>2 DEF HeldInd, TrailInd
      <4> QED BY <1>1, <4>1 DEF Held, Telling, N
    <3> QED BY <3>1, <3>2
  <2>2. ASSUME ~Tells(e, id, f) PROVE Held(audit', id, f, accounts'[id][f], N, N)
    BY <1>1, <2>1, <2>2, HeldSameLog
  <2>3. Tells(e, id, f) => accounts'[id][f] = Told(e, f)
    BY <1>3
  <2> QED BY <1>1, <2>2, <2>3, HeldNow
<1>4. ASSUME NEW t \in Threads, pc'[t] \in Editing, NEW f \in DOMAIN session'[t].change
      PROVE  Held(audit', session'[t].target, f, session'[t].seen[f],
                  session'[t].since, N + 1)
  <2>1. /\ session'[t] = session[t] /\ session[t].since \in 0 .. N
        /\ Held(audit, session[t].target, f, session[t].seen[f], session[t].since, N)
    BY <1>4 DEF HeldInd, SinceInd, N
  <2>2. Held(audit', session[t].target, f, session[t].seen[f], session[t].since, N)
    BY <1>1, <2>1, HeldSameLog
  <2> QED BY <1>1, <2>1, <2>2, HeldUntilLater
<1>5. HeldInd'
  BY <1>1, <1>2, <1>3, <1>4 DEF HeldInd, Stored, Editing
<1>6. ASSUME NEW i \in 1 .. N + 1, audit'[i].event = "AccountUpdated",
             NEW f \in DOMAIN audit'[i].old
      PROVE  Held(audit', audit'[i].entity, f, audit'[i].old[f], audit'[i].since, i - 1)
  <2>1. /\ i - 1 \in 0 .. N /\ audit'[i].since \in Nat
    BY <1>1 DEF TrailInd, N
  <2>2. Held(audit, audit'[i].entity, f, audit'[i].old[f], audit'[i].since, i - 1)
    BY <1>1, <1>6 DEF OldWasStored, N
  <2> QED BY <1>1, <2>1, <2>2, HeldSameLog
<1> QED BY <1>1, <1>5, <1>6 DEF OldWasStored

LEMMA AccountsStepHeld ==
    ASSUME AccountsInd, SinceInd, TrailInd, HeldInd, OldWasStored,
           NEW t \in Threads, AccountsStep(t)
    PROVE  HeldInd' /\ OldWasStored'
<1> DEFINE s == session[t]
<1> USE AccountsAssumption
<1>1. CASE UNCHANGED <<accounts, audit>>
  <2>1. SUFFICES \A u \in Threads : pc'[u] \in Editing =>
                    \A f \in DOMAIN session'[u].change :
                       Held(audit, session'[u].target, f, session'[u].seen[f],
                            session'[u].since, Len(audit))
    BY <1>1 DEF HeldInd, OldWasStored, Stored, Editing
  <2>2. CASE update_account(t)
    <3>1. PICK id \in Stored, patch \in Patches, n \in Began :
             /\ session' = [session EXCEPT ![t] =
                    [since |-> n, target |-> id, seen |-> accounts[id],
                     change |-> Differing(accounts[id], patch)]]
             /\ \A u \in Threads \ {t} : pc'[u] = pc[u]
      BY <2>2 DEF update_account, HoldSince, AccountsInd
    <3>2. \A f \in DOMAIN Differing(accounts[id], patch) : f \in UPDATABLE_FIELDS
      BY DEF Differing
    <3>3. Len(audit) \in Nat /\ n \in 0 .. Len(audit) /\ id \in AccountIds
      BY AppendToSeq DEF Began, AccountsInd, Stored
    <3>4. \A f \in UPDATABLE_FIELDS : Held(audit, id, f, accounts[id][f], n, Len(audit))
      BY <3>3, HeldSinceEarlier DEF HeldInd
    <3>5. /\ session'[t].target = id /\ session'[t].seen = accounts[id]
          /\ session'[t].since = n /\ session'[t].change = Differing(accounts[id], patch)
          /\ \A u \in Threads \ {t} : session'[u] = session[u]
      BY <3>1 DEF AccountsInd
    <3> QED BY <3>1, <3>2, <3>4, <3>5 DEF HeldInd
  <2>3. CASE ~update_account(t)
    <3>1. \A u \in Threads : pc'[u] \in Editing =>
              pc[u] \in Editing /\ session'[u] = session[u]
      BY <2>3 DEF AccountsStep, create_account, create_insert, update_guard, update_write,
         archive_account, archive_write, Hold, HoldSince, Close, Editing, AccountsInd
    <3> QED BY <3>1 DEF HeldInd
  <2> QED BY <2>2, <2>3
<1>2. ASSUME NEW e, Records(t, e) PROVE HeldInd' /\ OldWasStored'
  <2>1. /\ Record(e) /\ e.since \in Nat
        /\ \A id \in Stored : accounts'[id] # NULL
        /\ \A id \in AccountIds, f \in UPDATABLE_FIELDS :
              IF Tells(e, id, f)
              THEN accounts'[id] # NULL /\ accounts'[id][f] = Told(e, f)
              ELSE id \in Stored => accounts'[id][f] = accounts[id][f]
    BY <1>2 DEF Records
  <2>2. \A u \in Threads : pc'[u] \in Editing =>
            pc[u] \in Editing /\ session'[u] = session[u]
    BY <1>2 DEF Records, Close, Editing, AccountsInd
  <2>3. e.event = "AccountUpdated" => \A f \in DOMAIN e.old :
            Held(audit, e.entity, f, e.old[f], e.since, Len(audit))
    <3>1. SUFFICES ASSUME pc[t] = "update_write",
                          e = Entry("AccountUpdated", s.since, s.target,
                                    [f \in DOMAIN s.change |-> s.seen[f]], s.change)
                   PROVE  \A f \in DOMAIN e.old :
                             Held(audit, e.entity, f, e.old[f], e.since, Len(audit))
      BY <1>2 DEF Records
    <3> QED BY <3>1 DEF HeldInd, Editing, Entry
  <2> QED BY <2>1, <2>2, <2>3, RecordHeld
<1> QED BY <1>1, <1>2, AccountsStepRecords

LEMMA HeldInit ==
    ASSUME AccountsInit
    PROVE  HeldInd /\ OldWasStored
<1>1. Len(audit) = 0
  BY DEF AccountsInit
<1>2. \A id \in AccountIds : accounts[id] = InitialAccounts[id]
  BY DEF AccountsInit
<1>3. \A id \in AccountIds, f \in UPDATABLE_FIELDS :
         Held(audit, id, f, accounts[id][f], Len(audit), Len(audit))
  BY <1>1, <1>2 DEF Held
<1>4. \A t \in Threads : pc[t] \notin Editing
  BY DEF AccountsInit, Editing
<1> QED BY <1>1, <1>2, <1>3, <1>4 DEF HeldInd, OldWasStored, Stored

\* However edits overlap, an audited old value was in its column at some moment of
\* the transaction that audits it.
THEOREM AccountsOldWasStored == AccountsSpec => []OldWasStored
<1> DEFINE Inv == AccountsInd /\ SinceInd /\ TrailInd /\ TrailTells /\ HeldInd /\ OldWasStored
<1>1. AccountsInit => Inv
  BY AccountsInitInd, TrailInit, HeldInit
<1>2. Inv /\ [AccountsNext]_accountVars => Inv'
  <2> SUFFICES ASSUME Inv, [AccountsNext]_accountVars PROVE Inv'
    OBVIOUS
  <2>1. CASE UNCHANGED accountVars
    BY <2>1 DEF accountVars, AccountsInd, Stored, SinceInd, TrailInd, TrailTells, Telling,
       Tells, Told, HeldInd, OldWasStored
  <2>2. ASSUME NEW t \in Threads, AccountsStep(t) PROVE Inv'
    BY <2>2, AccountsStepInd, AccountsStepSince, AccountsStepTrail, AccountsStepHeld
  <2> QED BY <2>1, <2>2 DEF AccountsNext
<1> QED BY <1>1, <1>2, PTL DEF AccountsSpec
=============================================================================
