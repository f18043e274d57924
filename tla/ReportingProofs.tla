-------------------------- MODULE ReportingProofs --------------------------
(***************************************************************************)
(* Theorems of Reporting, for any number of requests, users, accounts,      *)
(* transactions and transfers, and every calendar.                         *)
(***************************************************************************)
EXTENDS Reporting, Sums, TLAPS

-----------------------------------------------------------------------------
(* The inductive invariant.                                                *)

\* The transactions of an account, in a table of transactions.
On(rows, a) == {i \in TransactionIds : rows[i] # NULL /\ rows[i].account = a}

Shape(s) == s = [c \in {"since", "request", "seen", "counted"} |-> s[c]]

\* The kind of the request that is at a step.
KindAt == [post |-> "post", post_write |-> "post", archive |-> "archive",
           patch |-> "patch", patch_write |-> "patch", link |-> "link",
           confirm |-> "confirm", confirm_write |-> "confirm",
           summary |-> "summary", summary_count |-> "summary",
           list |-> "list", list_count |-> "list"]

\* What a request with session s holds at a step, over tables of transactions and
\* transfers.
HeldAt(step, s, rows, links) ==
    /\ Shape(s)
    /\ s.request \in Requests \cup {NULL}
    /\ step \in ReportingSteps \ {"idle", "respond"} =>
          s.request \in Requests /\ s.request.kind = KindAt[step]
    /\ step = "post_write" => s.seen \subseteq On(rows, s.request.row.account)
    /\ step = "patch_write" =>
          /\ rows[s.request.id] # NULL
          /\ s.seen \in Transaction
          /\ "type" \in DOMAIN s.request.change => s.request.change.type # NULL
    /\ step = "confirm_write" => links[s.request.id] # NULL
    /\ step = "summary_count" =>
          \A a \in DOMAIN s.seen : /\ a \in Accounts /\ Owner[a] = s.request.user
                                   /\ s.seen[a] \subseteq On(rows, a)
    /\ step = "list_count" =>
          \A i \in DOMAIN s.seen :
              /\ i \in TransactionIds /\ rows[i] # NULL
              /\ Owner[rows[i].account] = s.request.user
              /\ s.request.account \in {NULL, rows[i].account}
              /\ s.request.category \in {NULL, s.seen[i].category}

\* The sides of a transfer x.
Sides(x, rows) ==
    /\ rows[x.source] # NULL /\ Owner[rows[x.source].account] = x.user
    /\ x.destination # NULL =>
          /\ rows[x.destination] # NULL /\ Owner[rows[x.destination].account] = x.user
          /\ rows[x.destination].account # rows[x.source].account

\* The rows of the trail `log` that tell of field f of transaction i.
TellingIn(log, i, f) == {n \in 1 .. Len(log) : log[n].transaction = i /\ log[n].field = f}

\* The trail `log` tells the table `rows`; every row of it was committed after its
\* transaction began.
Shows(log, rows) ==
    /\ \A n \in 1 .. Len(log) : log[n].since < n
    /\ \A i \in TransactionIds, f \in UPDATABLE_FIELDS : TellingIn(log, i, f) # {} =>
          \E n \in TellingIn(log, i, f) :
              /\ rows[i] # NULL /\ rows[i][f] = log[n].new
              /\ \A k \in TellingIn(log, i, f) : log[k].since < n

\* A session began when the trail was no longer than it is.
BeganBy(s, log) == s.since \in 0 .. Len(log)

TablesOK(rows, balances, gone, links, log, n) ==
    /\ rows \in [TransactionIds -> Transaction \cup {NULL}]
    /\ balances \in [Accounts -> SUBSET TransactionIds]
    /\ \A a \in Accounts : balances[a] \subseteq On(rows, a)
    /\ gone \subseteq Accounts
    /\ links \in [TransferIds -> Transfer \cup {NULL}]
    /\ \A x \in TransferIds : links[x] # NULL => Sides(links[x], rows)
    /\ log \in Seq(AuditLog)
    /\ n \in 0 .. MaxRequests

Tables == TablesOK(transactions, posted, archived, transfers, audit, accepted)

ReportingInd ==
    /\ Tables
    /\ Shows(audit, transactions)
    /\ pc \in [Threads -> ReportingSteps]
    /\ session = [t \in Threads |-> session[t]]
    /\ \A t \in Threads : /\ HeldAt(pc[t], session[t], transactions, transfers)
                          /\ BeganBy(session[t], audit)

LEMMA RequestShape ==
    ASSUME NEW r \in Requests
    PROVE  /\ r.kind = "post" => r.row \in Transaction
           /\ r.kind = "patch" => r.id \in TransactionIds /\ r.change \in Changes
           /\ r.kind = "link" => /\ r.user \in Users /\ r.source \in TransactionIds
                                 /\ r.destination \in TransactionIds \cup {NULL}
           /\ r.kind = "confirm" => r.id \in TransferIds /\ r.confirmed \in BOOLEAN
           /\ r.kind = "archive" => r.account \in Accounts
           /\ r.kind \in {"post", "patch", "link", "confirm", "archive", "summary", "list"}
           /\ KindAt[r.kind] = r.kind
<1>1. r \in Request
  BY ReportingAssumption
<1>2. CASE r \in PostRequest
  BY <1>2 DEF PostRequest, KindAt
<1>3. CASE r \in PatchRequest
  BY <1>3 DEF PatchRequest, KindAt
<1>4. CASE r \in LinkRequest
  BY <1>4 DEF LinkRequest, KindAt
<1>5. CASE r \in ConfirmRequest
  BY <1>5 DEF ConfirmRequest, KindAt
<1>6. CASE r \in ArchiveRequest \cup SummaryRequest \cup ListRequest
  BY <1>6 DEF ArchiveRequest, SummaryRequest, ListRequest, KindAt
<1> QED BY <1>1, <1>2, <1>3, <1>4, <1>5, <1>6 DEF Request

LEMMA ReportingInitInd == ReportingInit => ReportingInd
<1> SUFFICES ASSUME ReportingInit PROVE ReportingInd
  OBVIOUS
<1> USE ReportingAssumption DEF ReportingInit
<1>1. Tables
  BY DEF Tables, TablesOK
<1>2. Shows(audit, transactions)
  BY DEF Shows, TellingIn
<1>3. \A t \in Threads : /\ HeldAt(pc[t], session[t], transactions, transfers)
                         /\ BeganBy(session[t], audit)
  BY DEF HeldAt, Shape, NoSession, ReportingSteps, BeganBy
<1> QED BY <1>1, <1>2, <1>3 DEF ReportingInd, ReportingSteps

-----------------------------------------------------------------------------
(* Steps.                                                                  *)

\* Nothing is deleted, and a transaction stays on its account.
Grows(rows, new) ==
    \A i \in TransactionIds : rows[i] # NULL => new[i] # NULL /\ new[i].account = rows[i].account

Links(links, new) == \A x \in TransferIds : links[x] # NULL => new[x] # NULL

Lengthens(log, new) == 0 .. Len(log) \subseteq 0 .. Len(new)

\* What a step of request t may do to the tables, and to its own session.
Moves(t) ==
    /\ TablesOK(transactions', posted', archived', transfers', audit', accepted')
    /\ Shows(audit', transactions')
    /\ Grows(transactions, transactions') /\ Links(transfers, transfers')
    /\ Lengthens(audit, audit')
    /\ \E next \in ReportingSteps : \E s :
          /\ pc' = [pc EXCEPT ![t] = next] /\ session' = [session EXCEPT ![t] = s]
          /\ HeldAt(next, s, transactions', transfers') /\ BeganBy(s, audit')

LEMMA HeldStays ==
    ASSUME NEW step, NEW s, NEW rows, NEW new, NEW links, NEW newLinks,
           HeldAt(step, s, rows, links), Grows(rows, new), Links(links, newLinks)
    PROVE  HeldAt(step, s, new, newLinks)
<1>1. \A a : On(rows, a) \subseteq On(new, a)
  BY DEF On, Grows
<1>2. step = "patch_write" => new[s.request.id] # NULL
  BY RequestShape DEF HeldAt, Grows, KindAt, ReportingSteps
<1>3. step = "confirm_write" => newLinks[s.request.id] # NULL
  BY RequestShape DEF HeldAt, Links, KindAt, ReportingSteps
<1>4. step = "list_count" =>
          \A i \in DOMAIN s.seen :
              /\ i \in TransactionIds /\ new[i] # NULL
              /\ Owner[new[i].account] = s.request.user
              /\ s.request.account \in {NULL, new[i].account}
              /\ s.request.category \in {NULL, s.seen[i].category}
  BY DEF HeldAt, Grows
<1> QED BY <1>1, <1>2, <1>3, <1>4 DEF HeldAt

LEMMA MovesKeep ==
    ASSUME ReportingInd, NEW t \in Threads, Moves(t)
    PROVE  ReportingInd'
<1>1. PICK next, s :
          /\ next \in ReportingSteps
          /\ pc' = [pc EXCEPT ![t] = next] /\ session' = [session EXCEPT ![t] = s]
          /\ HeldAt(next, s, transactions', transfers') /\ BeganBy(s, audit')
  BY DEF Moves
<1>2. pc' \in [Threads -> ReportingSteps] /\ session' = [u \in Threads |-> session'[u]]
  BY <1>1 DEF ReportingInd
<1>3. \A u \in Threads : /\ HeldAt(pc'[u], session'[u], transactions', transfers')
                         /\ BeganBy(session'[u], audit')
  <2> SUFFICES ASSUME NEW u \in Threads
               PROVE  /\ HeldAt(pc'[u], session'[u], transactions', transfers')
                      /\ BeganBy(session'[u], audit')
    OBVIOUS
  <2>1. CASE u = t
    BY <1>1, <2>1 DEF ReportingInd
  <2>2. CASE u # t
    <3>1. pc'[u] = pc[u] /\ session'[u] = session[u]
      BY <1>1, <2>2 DEF ReportingInd
    <3>2. /\ HeldAt(pc[u], session[u], transactions', transfers')
          /\ BeganBy(session[u], audit')
      BY HeldStays DEF ReportingInd, Moves, BeganBy, Lengthens
    <3> QED BY <3>1, <3>2
  <2> QED BY <2>1, <2>2
<1>4. Tables' /\ Shows(audit, transactions)'
  BY DEF Moves, Tables
<1> QED BY <1>2, <1>3, <1>4 DEF ReportingInd

LEMMA AnsweredMoves ==
    ASSUME ReportingInd, NEW t \in Threads, Answered(t),
           TablesOK(transactions', posted', archived', transfers', audit', accepted'),
           Shows(audit', transactions'),
           Grows(transactions, transactions'), Links(transfers, transfers'),
           Lengthens(audit, audit')
    PROVE  Moves(t)
<1>1. HeldAt("idle", NoSession, transactions', transfers')
  BY DEF HeldAt, Shape, NoSession, ReportingSteps
<1>2. BeganBy(NoSession, audit')
  BY DEF TablesOK, BeganBy, NoSession
<1> QED BY <1>1, <1>2 DEF Moves, Answered, ReportingSteps

LEMMA HoldMoves ==
    ASSUME ReportingInd, NEW t \in Threads, NEW next \in ReportingSteps,
           NEW column \in {"seen", "counted"}, NEW value,
           Hold(t, next, column, value), UNCHANGED <<tables, accepted>>,
           HeldAt(next, [session[t] EXCEPT ![column] = value], transactions, transfers)
    PROVE  Moves(t)
<1>1. session' = [session EXCEPT ![t] = [session[t] EXCEPT ![column] = value]]
  BY DEF Hold
<1>2. /\ TablesOK(transactions', posted', archived', transfers', audit', accepted')
      /\ Shows(audit', transactions')
      /\ transactions' = transactions /\ transfers' = transfers /\ audit' = audit
  BY DEF ReportingInd, Tables, tables
<1>3. BeganBy([session[t] EXCEPT ![column] = value], audit')
  <2>1. BeganBy(session[t], audit) /\ Shape(session[t])
    BY DEF ReportingInd, HeldAt
  <2>2. [session[t] EXCEPT ![column] = value].since = session[t].since
    BY <2>1 DEF Shape
  <2> QED BY <1>2, <2>1, <2>2 DEF BeganBy
<1> QED BY <1>1, <1>2, <1>3 DEF Moves, Hold, Grows, Links, Lengthens

\* A step that changes no table and answers the request.
LEMMA SilentMoves ==
    ASSUME ReportingInd, NEW t \in Threads, Answered(t), UNCHANGED <<tables, accepted>>
    PROVE  Moves(t)
<1>1. /\ TablesOK(transactions', posted', archived', transfers', audit', accepted')
      /\ Shows(audit', transactions')
      /\ Grows(transactions, transactions') /\ Links(transfers, transfers')
      /\ Lengthens(audit, audit')
  BY DEF ReportingInd, Tables, tables, Grows, Links, Lengthens
<1> QED BY <1>1, AnsweredMoves

\* The request of a thread at a step of a handler.
LEMMA Handling ==
    ASSUME ReportingInd, NEW t \in Threads, pc[t] \notin {"idle", "respond"}
    PROVE  /\ HeldAt(pc[t], session[t], transactions, transfers)
           /\ Shape(session[t])
           /\ session[t].request \in Requests
           /\ pc[t] \in ReportingSteps /\ session[t].request.kind = KindAt[pc[t]]
BY DEF ReportingInd, HeldAt

LEMMA BeginMoves ==
    ASSUME ReportingInd, NEW t \in Threads, begin(t)
    PROVE  Moves(t)
<1>1. PICK r \in Requests :
          /\ pc' = [pc EXCEPT ![t] = r.kind]
          /\ session' = [session EXCEPT ![t] =
                            [NoSession EXCEPT !.since = Began(r), !.request = r]]
  BY DEF begin
<1> DEFINE s == [NoSession EXCEPT !.since = Began(r), !.request = r]
<1>2. r.kind \in ReportingSteps /\ HeldAt(r.kind, s, transactions, transfers)
  <2>1. r.kind \in {"post", "patch", "link", "confirm", "archive", "summary", "list"}
        /\ KindAt[r.kind] = r.kind
    BY RequestShape
  <2> QED BY <2>1 DEF HeldAt, Shape, NoSession, ReportingSteps
<1>3. /\ TablesOK(transactions', posted', archived', transfers', audit', accepted')
      /\ Shows(audit', transactions')
      /\ transactions' = transactions /\ transfers' = transfers /\ audit' = audit
  BY ReportingAssumption DEF begin, ReportingInd, Tables, TablesOK, tables
<1>4. BeganBy(s, audit')
  <2>1. Len(audit) \in Nat
    BY DEF ReportingInd, Tables, TablesOK
  <2>2. s.since = Began(r)
    BY DEF NoSession
  <2> QED BY <1>3, <2>1, <2>2 DEF BeganBy, Began
<1> HIDE DEF s
<1> QED BY <1>1, <1>2, <1>3, <1>4 DEF Moves, Grows, Links, Lengthens, s

LEMMA FreshIn == ASSUME NEW S, S # {} PROVE Fresh(S) \in S
BY DEF Fresh

LEMMA PostMoves ==
    ASSUME ReportingInd, NEW t \in Threads, create_transaction(t) \/ post_write(t)
    PROVE  Moves(t)
<1> DEFINE r == session[t].request
           a == r.row.account
<1>1. CASE create_transaction(t)
  <2>1. pc[t] = "post" /\ r \in Requests /\ r.kind = "post" /\ Shape(session[t])
        /\ UNCHANGED <<tables, accepted>>
    BY <1>1, Handling DEF create_transaction, KindAt
  <2>2. CASE a \in archived
    BY <1>1, <2>1, <2>2, SilentMoves DEF create_transaction
  <2>3. CASE a \notin archived
    <3>1. Hold(t, "post_write", "seen", posted[a])
      BY <1>1, <2>3 DEF create_transaction
    <3>2. posted[a] \subseteq On(transactions, a)
      BY <2>1, RequestShape DEF ReportingInd, Tables, TablesOK, Transaction
    <3>3. HeldAt("post_write", [session[t] EXCEPT !["seen"] = posted[a]], transactions, transfers)
      BY <2>1, <3>2 DEF HeldAt, Shape, KindAt
    <3> QED BY <2>1, <3>1, <3>3, HoldMoves DEF ReportingSteps
  <2> QED BY <2>2, <2>3
<1>2. CASE post_write(t)
  <2> DEFINE i == Fresh(TransactionIds \ Transactions)
  <2>1. /\ pc[t] = "post_write" /\ r \in Requests /\ r.kind = "post"
        /\ session[t].seen \subseteq On(transactions, a)
        /\ Answered(t) /\ UNCHANGED <<archived, transfers, audit, accepted>>
    BY <1>2, Handling DEF post_write, KindAt, HeldAt
  <2>2. r.row \in Transaction /\ a \in Accounts
    BY <2>1, RequestShape DEF Transaction
  <2>3. CASE Transactions = TransactionIds
    BY <1>2, <2>1, <2>3, SilentMoves DEF post_write, tables
  <2>4. CASE Transactions # TransactionIds
    <3>1. /\ transactions' = [transactions EXCEPT ![i] = r.row]
          /\ \/ posted' = posted
             \/ posted' = [posted EXCEPT ![a] = session[t].seen \cup {i}]
      BY <1>2, <2>4 DEF post_write
    <3>2. i \in TransactionIds /\ transactions[i] = NULL
      BY <2>4, FreshIn DEF Transactions
    <3>3. Tables /\ Shows(audit, transactions)
      BY DEF ReportingInd
    <3>4. /\ transactions' \in [TransactionIds -> Transaction \cup {NULL}]
          /\ Grows(transactions, transactions')
          /\ \A j \in TransactionIds : transactions[j] # NULL => transactions'[j] = transactions[j]
      BY <2>2, <3>1, <3>2, <3>3 DEF Tables, TablesOK, Grows
    <3>5. i \in On(transactions', a)
      BY <2>2, <3>1, <3>2, <3>3, ReportingAssumption DEF Tables, TablesOK, On
    <3>6. \A b \in Accounts : On(transactions, b) \subseteq On(transactions', b)
      BY <3>4 DEF On, Grows
    <3>7. /\ posted' \in [Accounts -> SUBSET TransactionIds]
          /\ \A b \in Accounts : posted'[b] \subseteq On(transactions', b)
      <4>1. /\ posted \in [Accounts -> SUBSET TransactionIds]
            /\ \A b \in Accounts : posted[b] \subseteq On(transactions, b)
        BY <3>3 DEF Tables, TablesOK
      <4>2. On(transactions', a) \subseteq TransactionIds
        BY DEF On
      <4>3. session[t].seen \cup {i} \subseteq On(transactions', a)
        BY <2>1, <2>2, <3>5, <3>6
      <4> HIDE DEF a, i
      <4> QED BY <2>2, <3>1, <3>6, <4>1, <4>2, <4>3
    <3>8. \A x \in TransferIds : transfers[x] # NULL => Sides(transfers[x], transactions')
      <4> SUFFICES ASSUME NEW x \in TransferIds, transfers[x] # NULL
                   PROVE  Sides(transfers[x], transactions')
        OBVIOUS
      <4>1. Sides(transfers[x], transactions) /\ transfers[x] \in Transfer
        BY <3>3 DEF Tables, TablesOK
      <4> QED BY <3>4, <4>1, ReportingAssumption DEF Sides, Transfer
    <3>9. Shows(audit, transactions')
      <4> HIDE DEF i, r
      <4> QED BY <2>1, <3>3, <3>4 DEF Shows
    <3>10. TablesOK(transactions', posted', archived', transfers', audit', accepted')
      BY <2>1, <3>3, <3>4, <3>7, <3>8 DEF Tables, TablesOK
    <3> QED BY <2>1, <3>4, <3>9, <3>10, AnsweredMoves DEF Links, Lengthens
  <2> QED BY <2>3, <2>4
<1> QED BY <1>1, <1>2

-----------------------------------------------------------------------------
(* An edit and its trail.                                                  *)

LEMMA ChangeShape ==
    ASSUME NEW seen \in Transaction, NEW change \in Changes,
           "type" \in DOMAIN change => change.type # NULL,
           "category" \in Changed(seen, change) => change.category \in Categories \cup {NULL}
    PROVE  /\ Changed(seen, change) \subseteq UPDATABLE_FIELDS
           /\ "category" \in Changed(seen, change) => change["category"] \in Categories \cup {NULL}
           /\ "type" \in Changed(seen, change) => change["type"] \in BusinessType
BY DEF Changes, Changed, UPDATABLE_FIELDS

LEMMA PatchedRow ==
    ASSUME NEW row \in Transaction, NEW seen \in Transaction, NEW change \in Changes,
           "type" \in DOMAIN change => change.type # NULL,
           "category" \in Changed(seen, change) => change.category \in Categories \cup {NULL}
    PROVE  /\ Patched(row, seen, change) \in Transaction
           /\ Patched(row, seen, change).account = row.account
           /\ \A f \in UPDATABLE_FIELDS :
                 Patched(row, seen, change)[f] =
                     IF f \in Changed(seen, change) THEN change[f] ELSE row[f]
<1> DEFINE C == Changed(seen, change)
           p == Patched(row, seen, change)
<1>1. /\ C \subseteq {"category", "type"}
      /\ "category" \in C => change["category"] \in Categories \cup {NULL}
      /\ "type" \in C => change["type"] \in BusinessType
  BY ChangeShape DEF UPDATABLE_FIELDS
<1>2. p = [f \in {"account", "direction", "amount", "at", "type", "category"} |->
              IF f \in C THEN change[f] ELSE row[f]]
  BY DEF Patched, Transaction
<1> HIDE DEF C, p
<1>3. p \in Transaction
  BY <1>1, <1>2 DEF Transaction
<1> QED BY <1>1, <1>2, <1>3 DEF UPDATABLE_FIELDS, C, p

LEMMA TwoEntries ==
    ASSUME NEW S, NEW x \in S, NEW y \in S
    PROVE  /\ <<x>> \o <<y>> \in Seq(S) /\ Len(<<x>> \o <<y>>) = 2
           /\ (<<x>> \o <<y>>)[1] = x /\ (<<x>> \o <<y>>)[2] = y
<1>1. <<x>> \in Seq(S) /\ <<y>> \in Seq(S) /\ Len(<<x>>) = 1 /\ Len(<<y>>) = 1
  OBVIOUS
<1> QED BY <1>1

LEMMA EntriesTell ==
    ASSUME NEW n \in Nat, NEW i \in TransactionIds, NEW seen \in Transaction, NEW change \in Changes,
           "type" \in DOMAIN change => change.type # NULL,
           "category" \in Changed(seen, change) => change.category \in Categories \cup {NULL}
    PROVE  /\ Entries(n, i, seen, change) \in Seq(AuditLog)
           /\ \A k \in 1 .. Len(Entries(n, i, seen, change)) :
                 LET entry == Entries(n, i, seen, change)[k]
                 IN  /\ entry.since = n /\ entry.transaction = i
                     /\ entry.field \in Changed(seen, change)
                     /\ entry.new = change[entry.field]
           /\ \A f \in Changed(seen, change) :
                 \E k \in 1 .. Len(Entries(n, i, seen, change)) :
                    Entries(n, i, seen, change)[k].field = f
<1> DEFINE C == Changed(seen, change)
           row(f) == [since |-> n, transaction |-> i, field |-> f,
                     old |-> seen[f], new |-> change[f]]
           entry(f) == IF f \in C THEN <<row(f)>> ELSE <<>>
<1>1. /\ C \subseteq {"category", "type"}
      /\ "category" \in C => change["category"] \in Categories \cup {NULL}
      /\ "type" \in C => change["type"] \in BusinessType
  BY ChangeShape DEF UPDATABLE_FIELDS
<1>2. Entries(n, i, seen, change) = entry("category") \o entry("type")
  BY DEF Entries
<1>3. /\ "category" \in C => row("category") \in AuditLog
      /\ "type" \in C => row("type") \in AuditLog
  BY <1>1 DEF AuditLog, UPDATABLE_FIELDS, Transaction
<1>4. \A f : row(f).since = n /\ row(f).transaction = i /\ row(f).field = f /\ row(f).new = change[f]
  OBVIOUS
<1> HIDE DEF C, row
<1>5. CASE "category" \in C /\ "type" \in C
  <2>1. Entries(n, i, seen, change) = <<row("category")>> \o <<row("type")>>
    BY <1>2, <1>5
  <2> DEFINE e == Entries(n, i, seen, change)
  <2>2. e \in Seq(AuditLog) /\ Len(e) = 2 /\ e[1] = row("category") /\ e[2] = row("type")
    BY <1>3, <1>5, <2>1, TwoEntries
  <2> HIDE DEF e
  <2>3. \A k \in 1 .. Len(e) : /\ e[k].since = n
                                /\ e[k].transaction = i /\ e[k].field \in C
                                /\ e[k].new = change[e[k].field]
    BY <1>4, <1>5, <2>2
  <2>4. \A f \in C : \E k \in 1 .. Len(e) : e[k].field = f
    BY <1>1, <1>4, <2>2
  <2> QED BY <2>2, <2>3, <2>4 DEF e, C
<1>6. CASE "category" \in C /\ "type" \notin C
  <2>1. Entries(n, i, seen, change) = <<row("category")>>
    BY <1>2, <1>3, <1>6
  <2> QED BY <1>1, <1>3, <1>4, <1>6, <2>1 DEF C
<1>7. CASE "category" \notin C /\ "type" \in C
  <2>1. Entries(n, i, seen, change) = <<row("type")>>
    BY <1>2, <1>3, <1>7
  <2> QED BY <1>1, <1>3, <1>4, <1>7, <2>1 DEF C
<1>8. CASE "category" \notin C /\ "type" \notin C
  <2>1. Entries(n, i, seen, change) = <<>>
    BY <1>2, <1>8
  <2> QED BY <1>1, <1>8, <2>1 DEF C
<1> QED BY <1>5, <1>6, <1>7, <1>8

\* The trail of one more edit, of a transaction that began when the trail was no
\* longer than it is, tells the edited table.
LEMMA EditShows ==
    ASSUME NEW rows \in [TransactionIds -> Transaction \cup {NULL}], NEW log \in Seq(AuditLog),
           Shows(log, rows), NEW n \in 0 .. Len(log),
           NEW i \in TransactionIds, rows[i] # NULL,
           NEW seen \in Transaction, NEW change \in Changes,
           "type" \in DOMAIN change => change.type # NULL,
           "category" \in Changed(seen, change) => change.category \in Categories \cup {NULL}
    PROVE  Shows(log \o Entries(n, i, seen, change),
                 [rows EXCEPT ![i] = Patched(rows[i], seen, change)])
<1> DEFINE E == Entries(n, i, seen, change)
           p == Patched(rows[i], seen, change)
           C == Changed(seen, change)
           new == [rows EXCEPT ![i] = p]
           all == log \o E
<1>1. /\ E \in Seq(AuditLog)
      /\ \A k \in 1 .. Len(E) : /\ E[k].since = n /\ E[k].transaction = i
                                /\ E[k].field \in C /\ E[k].new = change[E[k].field]
      /\ \A f \in C : \E k \in 1 .. Len(E) : E[k].field = f
  BY EntriesTell
<1>2. /\ p \in Transaction /\ p # NULL
      /\ \A f \in UPDATABLE_FIELDS : p[f] = IF f \in C THEN change[f] ELSE rows[i][f]
  BY PatchedRow, ReportingAssumption
<1>3. C \subseteq UPDATABLE_FIELDS
  BY ChangeShape
<1>4. /\ all \in Seq(AuditLog) /\ Len(all) = Len(log) + Len(E) /\ Len(log) \in Nat /\ Len(E) \in Nat
      /\ \A k \in 1 .. Len(log) : all[k] = log[k]
      /\ \A k \in 1 .. Len(E) : all[Len(log) + k] = E[k]
  BY <1>1
<1>5. \A j \in TransactionIds : new[j] = IF j = i THEN p ELSE rows[j]
  OBVIOUS
<1>6. \A k \in 1 .. Len(log) : log[k].since \in Nat
  <2>1. \A k \in 1 .. Len(log) : log[k] \in AuditLog
    OBVIOUS
  <2> QED BY <2>1 DEF AuditLog
<1> HIDE DEF E, p, C, new, all
<1>7. \A k \in 1 .. Len(all) :
          k \in 1 .. Len(log) \/ \E m \in 1 .. Len(E) : k = Len(log) + m
  <2> SUFFICES ASSUME NEW k \in 1 .. Len(all), k \notin 1 .. Len(log)
               PROVE  \E m \in 1 .. Len(E) : k = Len(log) + m
    OBVIOUS
  <2>1. k - Len(log) \in 1 .. Len(E) /\ k = Len(log) + (k - Len(log))
    BY <1>4
  <2> QED BY <2>1
<1>8. \A k \in 1 .. Len(all) : all[k].since <= Len(log)
  <2> SUFFICES ASSUME NEW k \in 1 .. Len(all) PROVE all[k].since <= Len(log)
    OBVIOUS
  <2>1. CASE k \in 1 .. Len(log)
    <3>1. all[k] = log[k] /\ log[k].since < k /\ log[k].since \in Nat
      BY <1>4, <1>6, <2>1 DEF Shows
    <3> QED BY <1>4, <2>1, <3>1
  <2>2. CASE \E m \in 1 .. Len(E) : k = Len(log) + m
    BY <1>1, <1>4, <2>2
  <2> QED BY <1>7, <2>1, <2>2
<1>9. \A k \in 1 .. Len(all) : all[k].since < k
  <2> SUFFICES ASSUME NEW k \in 1 .. Len(all) PROVE all[k].since < k
    OBVIOUS
  <2>1. CASE k \in 1 .. Len(log)
    BY <1>4, <2>1 DEF Shows
  <2>2. CASE \E m \in 1 .. Len(E) : k = Len(log) + m
    <3>1. PICK m \in 1 .. Len(E) : k = Len(log) + m
      BY <2>2
    <3>2. all[k].since = n
      BY <1>1, <1>4, <3>1
    <3> QED BY <1>4, <3>1, <3>2
  <2> QED BY <1>7, <2>1, <2>2
<1>10. ASSUME NEW j \in TransactionIds, NEW f \in UPDATABLE_FIELDS, TellingIn(all, j, f) # {}
       PROVE  \E m \in TellingIn(all, j, f) :
                  /\ new[j] # NULL /\ new[j][f] = all[m].new
                  /\ \A k \in TellingIn(all, j, f) : all[k].since < m
  <2>1. CASE j = i /\ f \in C
    <3>1. PICK k \in 1 .. Len(E) : E[k].field = f
      BY <1>1, <2>1
    <3> DEFINE m == Len(log) + k
    <3>2. all[m] = E[k] /\ m \in 1 .. Len(all) /\ m > Len(log) /\ m \in Nat
      BY <1>4, <3>1
    <3>3. all[m].transaction = i /\ all[m].field = f /\ all[m].new = change[f]
      BY <1>1, <3>1, <3>2
    <3> HIDE DEF m
    <3>4. m \in TellingIn(all, j, f)
      BY <2>1, <3>2, <3>3 DEF TellingIn
    <3>5. new[j] # NULL /\ new[j][f] = all[m].new
      BY <1>2, <1>5, <2>1, <3>3
    <3>6. \A l \in TellingIn(all, j, f) : all[l].since < m
      <4> SUFFICES ASSUME NEW l \in TellingIn(all, j, f) PROVE all[l].since < m
        OBVIOUS
      <4>1. l \in 1 .. Len(all) /\ all[l].since <= Len(log)
        BY <1>8 DEF TellingIn
      <4>2. all[l] \in AuditLog
        BY <1>4, <4>1
      <4>3. all[l].since \in Nat
        BY <4>2 DEF AuditLog
      <4> QED BY <1>4, <3>2, <4>1, <4>3
    <3> QED BY <3>4, <3>5, <3>6
  <2>2. CASE ~(j = i /\ f \in C)
    <3>1. \A k \in TellingIn(all, j, f) : k \in TellingIn(log, j, f) /\ all[k] = log[k]
      <4> SUFFICES ASSUME NEW k \in TellingIn(all, j, f)
                   PROVE  k \in TellingIn(log, j, f) /\ all[k] = log[k]
        OBVIOUS
      <4>1. k \in 1 .. Len(all) /\ all[k].transaction = j /\ all[k].field = f
        BY DEF TellingIn
      <4>2. ASSUME NEW m \in 1 .. Len(E), k = Len(log) + m PROVE FALSE
        <5>1. all[k] = E[m]
          BY <1>4, <4>2
        <5> QED BY <1>1, <2>2, <4>1, <5>1
      <4>3. k \in 1 .. Len(log)
        BY <1>7, <4>1, <4>2
      <4> QED BY <1>4, <4>1, <4>3 DEF TellingIn
    <3>2. PICK m \in TellingIn(log, j, f) :
              /\ rows[j] # NULL /\ rows[j][f] = log[m].new
              /\ \A k \in TellingIn(log, j, f) : log[k].since < m
      BY <1>10, <3>1 DEF Shows
    <3>3. m \in TellingIn(all, j, f) /\ all[m] = log[m]
      BY <1>4, <3>2 DEF TellingIn
    <3>4. new[j] # NULL /\ new[j][f] = rows[j][f]
      BY <1>2, <1>5, <2>2, <3>2
    <3> QED BY <3>1, <3>2, <3>3, <3>4
  <2> QED BY <2>1, <2>2
<1>11. Shows(all, new)
  BY <1>9, <1>10 DEF Shows
<1> QED BY <1>11 DEF all, new, E, p

LEMMA PatchMoves ==
    ASSUME ReportingInd, NEW t \in Threads, update_transaction(t) \/ patch_write(t)
    PROVE  Moves(t)
<1> DEFINE r == session[t].request
           seen == session[t].seen
<1>1. CASE update_transaction(t)
  <2>1. /\ pc[t] = "patch" /\ r \in Requests /\ r.kind = "patch" /\ Shape(session[t])
        /\ UNCHANGED <<tables, accepted>>
    BY <1>1, Handling DEF update_transaction, KindAt
  <2> DEFINE passes == /\ Owned(r.id, r.user)
                       /\ "type" \in DOMAIN r.change => r.change.type # NULL
                       /\ Changed(transactions[r.id], r.change) # {}
  <2>2. CASE ~passes
    <3>1. Answered(t)
      BY <1>1, <2>2 DEF update_transaction
    <3> QED BY <2>1, <3>1, SilentMoves
  <2>3. CASE passes
    <3>1. Hold(t, "patch_write", "seen", transactions[r.id])
      BY <1>1, <2>3 DEF update_transaction
    <3>2. /\ r.id \in TransactionIds /\ transactions[r.id] # NULL
          /\ transactions[r.id] \in Transaction
      BY <2>1, <2>3, RequestShape DEF Owned, Transactions, ReportingInd, Tables, TablesOK
    <3>3. HeldAt("patch_write", [session[t] EXCEPT !["seen"] = transactions[r.id]],
                 transactions, transfers)
      BY <2>1, <2>3, <3>2 DEF HeldAt, Shape, KindAt
    <3> QED BY <2>1, <3>1, <3>3, HoldMoves DEF ReportingSteps
  <2> QED BY <2>2, <2>3
<1>2. CASE patch_write(t)
  <2>1. /\ pc[t] = "patch_write" /\ r \in Requests /\ r.kind = "patch"
        /\ transactions[r.id] # NULL /\ seen \in Transaction
        /\ "type" \in DOMAIN r.change => r.change.type # NULL
        /\ Answered(t) /\ UNCHANGED <<posted, archived, transfers, accepted>>
        /\ session[t].since \in 0 .. Len(audit)
    <3>1. pc[t] = "patch_write" /\ Answered(t) /\ UNCHANGED <<posted, archived, transfers, accepted>>
      BY <1>2 DEF patch_write
    <3>2. /\ HeldAt("patch_write", session[t], transactions, transfers)
          /\ r \in Requests /\ r.kind = "patch"
      BY <3>1, Handling DEF KindAt
    <3>3. session[t].since \in 0 .. Len(audit)
      BY DEF ReportingInd, BeganBy
    <3> QED BY <3>1, <3>2, <3>3 DEF HeldAt
  <2>2. r.id \in TransactionIds /\ r.change \in Changes
    BY <2>1, RequestShape
  <2> DEFINE refused == /\ "category" \in Changed(seen, r.change)
                        /\ r.change.category \notin Categories \cup {NULL}
  <2>3. CASE refused
    <3>1. UNCHANGED <<transactions, audit>>
      BY <1>2, <2>3 DEF patch_write
    <3> QED BY <2>1, <3>1, SilentMoves DEF tables
  <2>4. CASE ~refused
    <3> DEFINE old == transactions[r.id]
               new == Patched(old, seen, r.change)
    <3>1. /\ transactions' = [transactions EXCEPT ![r.id] = new]
          /\ audit' = audit \o Entries(session[t].since, r.id, seen, r.change)
      BY <1>2, <2>4 DEF patch_write
    <3>2. Tables /\ Shows(audit, transactions)
      BY DEF ReportingInd
    <3>3. /\ transactions \in [TransactionIds -> Transaction \cup {NULL}]
          /\ audit \in Seq(AuditLog) /\ old \in Transaction
      BY <2>1, <2>2, <3>2 DEF Tables, TablesOK
    <3>4. new \in Transaction /\ new # NULL /\ new.account = old.account
      <4>1. new \in Transaction /\ new.account = old.account
        <5>1. "category" \in Changed(seen, r.change) => r.change.category \in Categories \cup {NULL}
          BY <2>4
        <5> HIDE DEF r, seen, old
        <5> QED BY <2>1, <2>2, <3>3, <5>1, PatchedRow
      <4> QED BY <4>1, ReportingAssumption
    <3>5. audit' \in Seq(AuditLog) /\ Lengthens(audit, audit')
      <4>1. Entries(session[t].since, r.id, seen, r.change) \in Seq(AuditLog)
        BY <2>1, <2>2, <2>4, <3>3, EntriesTell
      <4> HIDE DEF r, seen
      <4> QED BY <3>1, <3>3, <4>1 DEF Lengthens
    <3>6. Shows(audit', transactions')
      <4>1. Shows(audit \o Entries(session[t].since, r.id, seen, r.change), [transactions EXCEPT ![r.id] = new])
        BY <2>1, <2>2, <2>4, <3>2, <3>3, EditShows
      <4> QED BY <3>1, <4>1
    <3> HIDE DEF new, r, seen
    <3>7. /\ transactions' \in [TransactionIds -> Transaction \cup {NULL}]
          /\ \A j \in TransactionIds : transactions[j] # NULL =>
                transactions'[j] # NULL /\ transactions'[j].account = transactions[j].account
      BY <2>2, <3>1, <3>3, <3>4
    <3>8. \A b : On(transactions, b) \subseteq On(transactions', b)
      BY <3>7 DEF On
    <3>9. \A x \in TransferIds : transfers[x] # NULL => Sides(transfers[x], transactions')
      <4> SUFFICES ASSUME NEW x \in TransferIds, transfers[x] # NULL
                   PROVE  Sides(transfers[x], transactions')
        OBVIOUS
      <4>1. Sides(transfers[x], transactions) /\ transfers[x] \in Transfer
        BY <3>2 DEF Tables, TablesOK
      <4> QED BY <3>7, <4>1, ReportingAssumption DEF Sides, Transfer
    <3>10. TablesOK(transactions', posted', archived', transfers', audit', accepted')
      BY <2>1, <3>2, <3>5, <3>7, <3>8, <3>9 DEF Tables, TablesOK
    <3> QED BY <2>1, <3>5, <3>6, <3>7, <3>10, AnsweredMoves DEF Grows, Links
  <2> QED BY <2>3, <2>4
<1> QED BY <1>1, <1>2

LEMMA ArchiveMoves ==
    ASSUME ReportingInd, NEW t \in Threads, archive_account(t)
    PROVE  Moves(t)
<1>1. /\ session[t].request \in Requests /\ session[t].request.kind = "archive"
  BY Handling DEF archive_account, KindAt
<1>2. archived' \subseteq Accounts
  BY <1>1, RequestShape DEF archive_account, ReportingInd, Tables, TablesOK
<1>3. /\ TablesOK(transactions', posted', archived', transfers', audit', accepted')
      /\ Shows(audit', transactions') /\ transactions' = transactions /\ transfers' = transfers
      /\ audit' = audit
  BY <1>2 DEF archive_account, ReportingInd, Tables, TablesOK
<1> QED BY <1>3, AnsweredMoves DEF archive_account, Grows, Links, Lengthens

LEMMA LinkMoves ==
    ASSUME ReportingInd, NEW t \in Threads, link_transfer(t)
    PROVE  Moves(t)
<1> DEFINE r == session[t].request
           x == Fresh(TransferIds \ Transfers)
           new == [user |-> r.user, source |-> r.source,
                   destination |-> r.destination, confirmed |-> FALSE]
<1>1. /\ r \in Requests /\ r.kind = "link"
      /\ Answered(t) /\ UNCHANGED <<transactions, posted, archived, audit, accepted>>
  BY Handling DEF link_transfer, KindAt
<1>2. new \in Transfer /\ new # NULL
  <2>1. /\ r.user \in Users /\ r.source \in TransactionIds
        /\ r.destination \in TransactionIds \cup {NULL}
    BY <1>1, RequestShape
  <2>2. new \in Transfer
    BY <2>1 DEF Transfer
  <2> QED BY <2>2, ReportingAssumption
<1>3. Tables /\ Shows(audit, transactions)
  BY DEF ReportingInd
<1>4. CASE Linkable(r) /\ Transfers # TransferIds
  <2>1. x \in TransferIds /\ transfers[x] = NULL
    BY <1>4, FreshIn DEF Transfers
  <2>2. transfers' = [transfers EXCEPT ![x] = new]
    BY <1>4 DEF link_transfer
  <2>3. Sides(new, transactions)
    BY <1>4 DEF Linkable, Owned, OwnerOf, Transactions, Sides
  <2> HIDE DEF x, new
  <2>4. /\ transfers' \in [TransferIds -> Transfer \cup {NULL}]
        /\ \A y \in TransferIds : transfers'[y] # NULL => Sides(transfers'[y], transactions)
        /\ Links(transfers, transfers')
    BY <1>2, <1>3, <2>1, <2>2, <2>3 DEF Tables, TablesOK, Links
  <2>5. TablesOK(transactions', posted', archived', transfers', audit', accepted')
    BY <1>1, <1>3, <2>4 DEF Tables, TablesOK
  <2> QED BY <1>1, <1>3, <2>4, <2>5, AnsweredMoves DEF Grows, Lengthens
<1>5. CASE ~(Linkable(r) /\ Transfers # TransferIds)
  <2>1. transfers' = transfers
    BY <1>5 DEF link_transfer
  <2> QED BY <1>1, <2>1, SilentMoves DEF tables
<1> QED BY <1>4, <1>5

LEMMA ConfirmMoves ==
    ASSUME ReportingInd, NEW t \in Threads, confirm_transfer(t) \/ confirm_write(t)
    PROVE  Moves(t)
<1> DEFINE r == session[t].request
<1>1. CASE confirm_transfer(t)
  <2>1. /\ pc[t] = "confirm" /\ r \in Requests /\ r.kind = "confirm" /\ Shape(session[t])
        /\ UNCHANGED <<tables, accepted>>
    BY <1>1, Handling DEF confirm_transfer, KindAt
  <2>2. CASE ~(r.id \in Transfers /\ transfers[r.id].user = r.user)
    BY <1>1, <2>1, <2>2, SilentMoves DEF confirm_transfer
  <2>3. CASE r.id \in Transfers /\ transfers[r.id].user = r.user
    <3>1. Hold(t, "confirm_write", "seen", transfers[r.id])
      BY <1>1, <2>3 DEF confirm_transfer
    <3>2. HeldAt("confirm_write", [session[t] EXCEPT !["seen"] = transfers[r.id]],
                 transactions, transfers)
      BY <2>1, <2>3 DEF HeldAt, Shape, KindAt, Transfers
    <3> QED BY <2>1, <3>1, <3>2, HoldMoves DEF ReportingSteps
  <2> QED BY <2>2, <2>3
<1>2. CASE confirm_write(t)
  <2>1. /\ r \in Requests /\ r.kind = "confirm" /\ transfers[r.id] # NULL
        /\ Answered(t) /\ UNCHANGED <<transactions, posted, archived, audit, accepted>>
    BY <1>2, Handling DEF confirm_write, KindAt, HeldAt
  <2>2. r.id \in TransferIds /\ r.confirmed \in BOOLEAN
    BY <2>1, RequestShape
  <2>3. Tables /\ Shows(audit, transactions)
    BY DEF ReportingInd
  <2>4. transfers[r.id] \in Transfer
    BY <2>1, <2>2, <2>3 DEF Tables, TablesOK
  <2> DEFINE new == [transfers[r.id] EXCEPT !.confirmed = r.confirmed]
  <2>5. CASE transfers' = transfers
    BY <2>1, <2>5, SilentMoves DEF tables
  <2>6. CASE transfers' = [transfers EXCEPT ![r.id] = new]
    <3>1. /\ new \in Transfer /\ new # NULL /\ new.user = transfers[r.id].user
          /\ new.source = transfers[r.id].source /\ new.destination = transfers[r.id].destination
      BY <2>2, <2>4, ReportingAssumption DEF Transfer
    <3>2. Sides(new, transactions)
      BY <2>1, <2>2, <2>3, <3>1 DEF Tables, TablesOK, Sides
    <3> HIDE DEF new, r
    <3>3. /\ transfers' \in [TransferIds -> Transfer \cup {NULL}]
          /\ \A y \in TransferIds : transfers'[y] # NULL => Sides(transfers'[y], transactions)
          /\ Links(transfers, transfers')
      BY <2>2, <2>3, <2>6, <3>1, <3>2 DEF Tables, TablesOK, Links
    <3>4. TablesOK(transactions', posted', archived', transfers', audit', accepted')
      BY <2>1, <2>3, <3>3 DEF Tables, TablesOK
    <3> QED BY <2>1, <2>3, <3>3, <3>4, AnsweredMoves DEF Grows, Lengthens
  <2>7. transfers' = transfers \/ transfers' = [transfers EXCEPT ![r.id] = new]
    BY <1>2 DEF confirm_write
  <2> QED BY <2>5, <2>6, <2>7
<1> QED BY <1>1, <1>2

\* The first query of an answer.
LEMMA ViewMoves ==
    ASSUME ReportingInd, NEW t \in Threads, account_summaries(t) \/ list_for_user(t)
    PROVE  Moves(t)
<1> DEFINE r == session[t].request
<1>1. CASE account_summaries(t)
  <2> DEFINE rows == account_rows(r.user)
  <2>1. /\ r \in Requests /\ r.kind = "summary" /\ Shape(session[t])
        /\ UNCHANGED <<tables, accepted>> /\ Hold(t, "summary_count", "seen", rows)
    BY <1>1, Handling DEF account_summaries, KindAt
  <2>2. \A a \in DOMAIN rows : /\ a \in Accounts /\ Owner[a] = r.user
                               /\ rows[a] \subseteq On(transactions, a)
    BY DEF account_rows, ReportingInd, Tables, TablesOK
  <2> HIDE DEF rows
  <2>3. HeldAt("summary_count", [session[t] EXCEPT !["seen"] = rows], transactions, transfers)
    BY <2>1, <2>2 DEF HeldAt, Shape, KindAt
  <2> QED BY <2>1, <2>3, HoldMoves DEF ReportingSteps
<1>2. CASE list_for_user(t)
  <2> DEFINE rows == [i \in Filtered(r) |-> transactions[i]]
  <2>1. /\ r \in Requests /\ r.kind = "list" /\ Shape(session[t])
        /\ UNCHANGED <<tables, accepted>> /\ Hold(t, "list_count", "seen", rows)
    BY <1>2, Handling DEF list_for_user, KindAt
  <2>2. \A i \in DOMAIN rows :
            /\ i \in TransactionIds /\ transactions[i] # NULL
            /\ Owner[transactions[i].account] = r.user
            /\ r.account \in {NULL, transactions[i].account}
            /\ r.category \in {NULL, rows[i].category}
    BY DEF Filtered, Transactions, OwnerOf
  <2> HIDE DEF rows
  <2>3. HeldAt("list_count", [session[t] EXCEPT !["seen"] = rows], transactions, transfers)
    BY <2>1, <2>2 DEF HeldAt, Shape, KindAt
  <2> QED BY <2>1, <2>3, HoldMoves DEF ReportingSteps
<1> QED BY <1>1, <1>2

LEMMA CountMoves ==
    ASSUME ReportingInd, NEW t \in Threads, summary_count(t) \/ count_for_user(t)
    PROVE  Moves(t)
<1>1. /\ session[t].request \in Requests /\ Shape(session[t])
      /\ UNCHANGED <<tables, accepted>>
  BY Handling DEF summary_count, count_for_user
<1>2. PICK counts : Hold(t, "respond", "counted", counts)
  BY DEF summary_count, count_for_user
<1>3. HeldAt("respond", [session[t] EXCEPT !["counted"] = counts], transactions, transfers)
  BY <1>1 DEF HeldAt, Shape, ReportingSteps
<1> QED BY <1>1, <1>2, <1>3, HoldMoves DEF ReportingSteps

LEMMA ReportingStepMoves ==
    ASSUME ReportingInd, NEW t \in Threads, ReportingStep(t)
    PROVE  Moves(t)
<1>1. CASE respond(t)
  BY <1>1, SilentMoves DEF respond
<1> QED BY <1>1, BeginMoves, PostMoves, PatchMoves, ArchiveMoves, LinkMoves, ConfirmMoves,
           ViewMoves, CountMoves DEF ReportingStep

LEMMA ReportingInvariant == ReportingSpec => []ReportingInd
<1>1. ReportingInd /\ [ReportingNext]_reportingVars => ReportingInd'
  <2> SUFFICES ASSUME ReportingInd, [ReportingNext]_reportingVars PROVE ReportingInd'
    OBVIOUS
  <2>1. ASSUME NEW t \in Threads, ReportingStep(t) PROVE ReportingInd'
    BY <2>1, ReportingStepMoves, MovesKeep
  <2>2. CASE UNCHANGED reportingVars
    BY <2>2 DEF reportingVars, tables, ReportingInd, Tables
  <2> QED BY <2>1, <2>2 DEF ReportingNext
<1> QED BY <1>1, ReportingInitInd, PTL DEF ReportingSpec

-----------------------------------------------------------------------------
(* Theorems.                                                               *)

\* The tables hold rows of their models, balances are made of transactions of
\* their accounts, and the sides of every transfer are its user's, on two accounts.
THEOREM ReportingTypeCorrect == ReportingSpec => []ReportingTypeOK
<1>1. ReportingInd => ReportingTypeOK
  <2> SUFFICES ASSUME ReportingInd PROVE ReportingTypeOK
    OBVIOUS
  <2>1. Tables
    BY DEF ReportingInd
  <2>2. \A a \in Accounts : \A i \in posted[a] :
            i \in Transactions /\ transactions[i].account = a
    BY <2>1 DEF Tables, TablesOK, On, Transactions
  <2>3. ASSUME NEW x \in Transfers
        PROVE  /\ Owned(transfers[x].source, transfers[x].user)
               /\ transfers[x].destination # NULL =>
                     /\ Owned(transfers[x].destination, transfers[x].user)
                     /\ transactions[transfers[x].destination].account
                            # transactions[transfers[x].source].account
    <3>1. transfers[x] \in Transfer /\ Sides(transfers[x], transactions)
      BY <2>1 DEF Tables, TablesOK, Transfers
    <3> QED BY <3>1 DEF Transfer, Sides, Owned, OwnerOf, Transactions
  <2>4. \A t \in Threads : session[t].request \in Requests \cup {NULL}
    BY DEF ReportingInd, HeldAt
  <2> QED BY <2>1, <2>2, <2>3, <2>4 DEF ReportingTypeOK, Tables, TablesOK, ReportingInd
<1> QED BY <1>1, ReportingInvariant, PTL

\* Of every field a user has edited, the stored value is the new value of a row of
\* the trail after whose commit no PATCH of the field began, however PATCHes
\* overlap.
THEOREM ReportingEditsTell == ReportingSpec => []EditsTell
<1>1. ReportingInd => EditsTell
  BY DEF ReportingInd, Shows, EditsTell, Telling, TellingIn
<1> QED BY <1>1, ReportingInvariant, PTL

LEMMA AnswersCovered ==
    ASSUME ReportingInd, ReportingNext,
           NEW t \in Threads, pc'[t] = "respond", pc[t] # "respond"
    PROVE  CASE pc[t] = "summary_count" ->
                  \A a \in DOMAIN session'[t].seen :
                      session'[t].seen[a] \subseteq session'[t].counted[a]
             [] pc[t] = "list_count" ->
                  \A i \in DOMAIN session'[t].seen :
                      \/ i \in session'[t].counted
                      \/ transactions[i].category # session'[t].seen[i].category
<1> USE DEF ReportingInd
<1>1. summary_count(t) \/ count_for_user(t)
  <2>1. PICK u \in Threads : ReportingStep(u)
    BY DEF ReportingNext
  <2>2. pc'[u] = "respond" => summary_count(u) \/ count_for_user(u) \/ respond(u)
    <3>1. ASSUME begin(u) PROVE pc'[u] # "respond"
      <4>1. PICK r \in Requests : pc' = [pc EXCEPT ![u] = r.kind]
        BY <3>1 DEF begin
      <4> QED BY <4>1, RequestShape
    <3> QED BY <2>1, <3>1 DEF ReportingStep, create_transaction, post_write, archive_account,
               update_transaction, patch_write, link_transfer, confirm_transfer, confirm_write,
               account_summaries, list_for_user, Hold, Answered
  <2>3. \E next : pc' = [pc EXCEPT ![u] = next]
    BY <2>1, ReportingStepMoves DEF Moves
  <2>4. u = t
    BY <2>3
  <2>5. ~respond(t)
    BY DEF respond
  <2> QED BY <2>2, <2>4, <2>5
<1> DEFINE r == session[t].request
           s == session[t]
<1>2. Shape(s) /\ HeldAt(pc[t], s, transactions, transfers)
  BY DEF HeldAt
<1>3. CASE summary_count(t)
  <2>1. /\ pc[t] = "summary_count"
        /\ session'[t].seen = s.seen /\ session'[t].counted = account_counts(r.user)
    BY <1>2, <1>3 DEF summary_count, Hold, Shape
  <2>2. ASSUME NEW a \in DOMAIN s.seen
        PROVE  s.seen[a] \subseteq account_counts(r.user)[a]
    <3>1. a \in Accounts /\ Owner[a] = r.user /\ s.seen[a] \subseteq On(transactions, a)
      BY <1>2, <2>1, <2>2 DEF HeldAt
    <3> QED BY <3>1 DEF account_counts, On, Transactions
  <2> QED BY <2>1, <2>2
<1>4. CASE count_for_user(t)
  <2>1. /\ pc[t] = "list_count"
        /\ session'[t].seen = s.seen /\ session'[t].counted = Filtered(r)
    BY <1>2, <1>4 DEF count_for_user, Hold, Shape
  <2>2. ASSUME NEW i \in DOMAIN s.seen
        PROVE  i \in Filtered(r) \/ transactions[i].category # s.seen[i].category
    <3>1. /\ i \in TransactionIds /\ transactions[i] # NULL
          /\ Owner[transactions[i].account] = r.user
          /\ r.account \in {NULL, transactions[i].account}
          /\ r.category \in {NULL, s.seen[i].category}
      BY <1>2, <2>1, <2>2 DEF HeldAt
    <3> QED BY <3>1 DEF Filtered, Transactions, OwnerOf
  <2> QED BY <2>1, <2>2
<1> QED BY <1>1, <1>3, <1>4

\* Whatever commits between the two queries of an answer, its count covers what it
\* shows, but for transactions that were filed elsewhere in between.
THEOREM ReportingCountsCover == ReportingSpec => CountsCoverWhatIsShown
<1> DEFINE Covered ==
        \A t \in Threads : pc'[t] = "respond" /\ pc[t] # "respond" =>
            LET answer == session'[t]
            IN  CASE pc[t] = "summary_count" ->
                       \A a \in DOMAIN answer.seen : answer.seen[a] \subseteq answer.counted[a]
                  [] pc[t] = "list_count" ->
                       \A i \in DOMAIN answer.seen :
                           \/ i \in answer.counted
                           \/ transactions[i].category # answer.seen[i].category
<1>1. ReportingInd /\ [ReportingNext]_reportingVars => [Covered]_reportingVars
  <2> SUFFICES ASSUME ReportingInd, ReportingNext PROVE Covered
    OBVIOUS
  <2> QED BY AnswersCovered
<1> QED BY <1>1, ReportingInvariant, PTL DEF ReportingSpec, CountsCoverWhatIsShown

-----------------------------------------------------------------------------
(* The reports agree.                                                      *)

\* The sums the reports are stated with, as Totals.
LEMMA AmountSum ==
    ASSUME NEW S, IsFiniteSet(S)
    PROVE  MapThenSumSet(LAMBDA i : transactions[i].amount, S) = Total([x \in S |-> transactions[x].amount], S)
<1> DEFINE w == [x \in S |-> transactions[x].amount]
           iter[s \in SUBSET S] ==
               IF s = {} THEN 0
               ELSE LET x == CHOOSE x \in s : TRUE IN transactions[x].amount + iter[s \ {x}]
<1>1. MapThenSumSet(LAMBDA i : transactions[i].amount, S) = iter[S]
  BY DEF MapThenSumSet, MapThenFoldSet
<1>2. iter = CHOOSE f : f = [s \in SUBSET S |-> IF s = {} THEN 0
                                  ELSE transactions[Any(s)].amount + f[s \ {Any(s)}]]
  BY DEF Any
<1>3. \A f : Fold(f, w, S) = [s \in SUBSET S |-> IF s = {} THEN 0
                                  ELSE transactions[Any(s)].amount + f[s \ {Any(s)}]]
  BY AnyIsElement DEF Fold
<1>4. \E f : f = Fold(f, w, S)
  <2> HIDE DEF w
  <2> QED BY FoldExists
<1>5. iter = Fold(iter, w, S)
  <2> HIDE DEF w, iter
  <2> QED BY <1>2, <1>3, <1>4
<1> QED
  <2> HIDE DEF w, iter
  <2> QED BY <1>1, <1>5, FoldIsTotal DEF w

LEMMA SpentSum ==
    ASSUME NEW user, NEW first, NEW last, NEW S, IsFiniteSet(S)
    PROVE  MapThenSumSet(LAMBDA c : category_breakdown(user, first, last)[c], S) = Total(category_breakdown(user, first, last), S)
<1> DEFINE w == category_breakdown(user, first, last)
           iter[s \in SUBSET S] ==
               IF s = {} THEN 0
               ELSE LET x == CHOOSE x \in s : TRUE IN category_breakdown(user, first, last)[x] + iter[s \ {x}]
<1>1. MapThenSumSet(LAMBDA c : category_breakdown(user, first, last)[c], S) = iter[S]
  BY DEF MapThenSumSet, MapThenFoldSet
<1>2. iter = CHOOSE f : f = [s \in SUBSET S |-> IF s = {} THEN 0
                                  ELSE category_breakdown(user, first, last)[Any(s)] + f[s \ {Any(s)}]]
  BY DEF Any
<1>3. \A f : Fold(f, w, S) = [s \in SUBSET S |-> IF s = {} THEN 0
                                  ELSE category_breakdown(user, first, last)[Any(s)] + f[s \ {Any(s)}]]
  BY AnyIsElement DEF Fold
<1>4. \E f : f = Fold(f, w, S)
  <2> HIDE DEF w
  <2> QED BY FoldExists
<1>5. iter = Fold(iter, w, S)
  <2> HIDE DEF w, iter
  <2> QED BY <1>2, <1>3, <1>4
<1> QED
  <2> HIDE DEF w, iter
  <2> QED BY <1>1, <1>5, FoldIsTotal DEF w

LEMMA CountSum ==
    ASSUME NEW user, NEW S, IsFiniteSet(S)
    PROVE  MapThenSumSet(LAMBDA m : monthly_summary(user, m).count, S) = Total([x \in S |-> monthly_summary(user, x).count], S)
<1> DEFINE w == [x \in S |-> monthly_summary(user, x).count]
           iter[s \in SUBSET S] ==
               IF s = {} THEN 0
               ELSE LET x == CHOOSE x \in s : TRUE IN monthly_summary(user, x).count + iter[s \ {x}]
<1>1. MapThenSumSet(LAMBDA m : monthly_summary(user, m).count, S) = iter[S]
  BY DEF MapThenSumSet, MapThenFoldSet
<1>2. iter = CHOOSE f : f = [s \in SUBSET S |-> IF s = {} THEN 0
                                  ELSE monthly_summary(user, Any(s)).count + f[s \ {Any(s)}]]
  BY DEF Any
<1>3. \A f : Fold(f, w, S) = [s \in SUBSET S |-> IF s = {} THEN 0
                                  ELSE monthly_summary(user, Any(s)).count + f[s \ {Any(s)}]]
  BY AnyIsElement DEF Fold
<1>4. \E f : f = Fold(f, w, S)
  <2> HIDE DEF w
  <2> QED BY FoldExists
<1>5. iter = Fold(iter, w, S)
  <2> HIDE DEF w, iter
  <2> QED BY <1>2, <1>3, <1>4
<1> QED
  <2> HIDE DEF w, iter
  <2> QED BY <1>1, <1>5, FoldIsTotal DEF w

LEMMA DeltaSum ==
    ASSUME NEW a, NEW S, IsFiniteSet(S)
    PROVE  MapThenSumSet(LAMBDA i : balance_delta(transactions[i].amount,
                    transactions[i].direction, TypeOf[a]), S) = Total([x \in S |-> balance_delta(transactions[x].amount, transactions[x].direction, TypeOf[a])], S)
<1> DEFINE w == [x \in S |-> balance_delta(transactions[x].amount, transactions[x].direction, TypeOf[a])]
           iter[s \in SUBSET S] ==
               IF s = {} THEN 0
               ELSE LET x == CHOOSE x \in s : TRUE IN balance_delta(transactions[x].amount, transactions[x].direction, TypeOf[a]) + iter[s \ {x}]
<1>1. MapThenSumSet(LAMBDA i : balance_delta(transactions[i].amount,
                    transactions[i].direction, TypeOf[a]), S) = iter[S]
  BY DEF MapThenSumSet, MapThenFoldSet
<1>2. iter = CHOOSE f : f = [s \in SUBSET S |-> IF s = {} THEN 0
                                  ELSE balance_delta(transactions[Any(s)].amount, transactions[Any(s)].direction, TypeOf[a]) + f[s \ {Any(s)}]]
  BY DEF Any
<1>3. \A f : Fold(f, w, S) = [s \in SUBSET S |-> IF s = {} THEN 0
                                  ELSE balance_delta(transactions[Any(s)].amount, transactions[Any(s)].direction, TypeOf[a]) + f[s \ {Any(s)}]]
  BY AnyIsElement DEF Fold
<1>4. \E f : f = Fold(f, w, S)
  <2> HIDE DEF w
  <2> QED BY FoldExists
<1>5. iter = Fold(iter, w, S)
  <2> HIDE DEF w, iter
  <2> QED BY <1>2, <1>3, <1>4
<1> QED
  <2> HIDE DEF w, iter
  <2> QED BY <1>1, <1>5, FoldIsTotal DEF w

LEMMA BalanceSum ==
    ASSUME NEW S, IsFiniteSet(S)
    PROVE  MapThenSumSet(Balance, S) = Total([x \in S |-> Balance(x)], S)
<1> DEFINE w == [x \in S |-> Balance(x)]
           iter[s \in SUBSET S] ==
               IF s = {} THEN 0
               ELSE LET x == CHOOSE x \in s : TRUE IN Balance(x) + iter[s \ {x}]
<1>1. MapThenSumSet(Balance, S) = iter[S]
  BY DEF MapThenSumSet, MapThenFoldSet
<1>2. iter = CHOOSE f : f = [s \in SUBSET S |-> IF s = {} THEN 0
                                  ELSE Balance(Any(s)) + f[s \ {Any(s)}]]
  BY DEF Any
<1>3. \A f : Fold(f, w, S) = [s \in SUBSET S |-> IF s = {} THEN 0
                                  ELSE Balance(Any(s)) + f[s \ {Any(s)}]]
  BY AnyIsElement DEF Fold
<1>4. \E f : f = Fold(f, w, S)
  <2> HIDE DEF w
  <2> QED BY FoldExists
<1>5. iter = Fold(iter, w, S)
  <2> HIDE DEF w, iter
  <2> QED BY <1>2, <1>3, <1>4
<1> QED
  <2> HIDE DEF w, iter
  <2> QED BY <1>1, <1>5, FoldIsTotal DEF w

LEMMA StartSum ==
    ASSUME NEW S, IsFiniteSet(S)
    PROVE  MapThenSumSet(Start, S) = Total([x \in S |-> Start(x)], S)
<1> DEFINE w == [x \in S |-> Start(x)]
           iter[s \in SUBSET S] ==
               IF s = {} THEN 0
               ELSE LET x == CHOOSE x \in s : TRUE IN Start(x) + iter[s \ {x}]
<1>1. MapThenSumSet(Start, S) = iter[S]
  BY DEF MapThenSumSet, MapThenFoldSet
<1>2. iter = CHOOSE f : f = [s \in SUBSET S |-> IF s = {} THEN 0
                                  ELSE Start(Any(s)) + f[s \ {Any(s)}]]
  BY DEF Any
<1>3. \A f : Fold(f, w, S) = [s \in SUBSET S |-> IF s = {} THEN 0
                                  ELSE Start(Any(s)) + f[s \ {Any(s)}]]
  BY AnyIsElement DEF Fold
<1>4. \E f : f = Fold(f, w, S)
  <2> HIDE DEF w
  <2> QED BY FoldExists
<1>5. iter = Fold(iter, w, S)
  <2> HIDE DEF w, iter
  <2> QED BY <1>2, <1>3, <1>4
<1> QED
  <2> HIDE DEF w, iter
  <2> QED BY <1>1, <1>5, FoldIsTotal DEF w

\* A posting on a table of finitely many.
LEMMA RowTyped ==
    ASSUME ReportingInd, NEW i \in Transactions
    PROVE  /\ transactions[i].amount \in Nat /\ transactions[i].direction \in {"DEBIT", "CREDIT"}
           /\ transactions[i].at \in Instants \cup {NULL}
<1>1. transactions[i] \in Transaction
  BY DEF ReportingInd, Tables, TablesOK, Transactions
<1> QED BY <1>1 DEF Transaction, TransactionDirection

Amounts == [i \in Transactions |-> transactions[i].amount]

LEMMA AmountIsTotal ==
    ASSUME ReportingInd, IsFiniteSet(Transactions), NEW S \in SUBSET Transactions
    PROVE  /\ IsFiniteSet(S) /\ Amount(S) = Total(Amounts, S)
           /\ \A i \in S : Amounts[i] \in Int
<1>1. IsFiniteSet(S)
  BY FS_Subset
<1>2. Amount(S) = Total([i \in S |-> transactions[i].amount], S)
  BY <1>1, AmountSum DEF Amount
<1>3. PICK v, w : v = [i \in S |-> transactions[i].amount] /\ w = Amounts
  OBVIOUS
<1>4. \A i \in S : v[i] = w[i]
  BY <1>3 DEF Amounts
<1>5. Total(v, S) = Total(w, S)
  BY <1>1, <1>4, TotalSame
<1>6. \A i \in S : Amounts[i] \in Int
  BY RowTyped DEF Amounts
<1> QED BY <1>1, <1>2, <1>3, <1>5, <1>6

LEMMA ImageFinite ==
    ASSUME NEW S, IsFiniteSet(S), NEW f, NEW T, \A y \in T : \E x \in S : y = f[x],
           \A x \in S : f[x] \in T
    PROVE  IsFiniteSet(T)
<1> PICK g : g = [x \in S |-> f[x]]
  OBVIOUS
<1>1. g \in Surjection(S, T)
  BY DEF Surjection
<1> QED BY <1>1, FS_Surjection

\* Every spending is in one category, NULL included.
LEMMA CategoriesAgree ==
    ASSUME ReportingInd, IsFiniteSet(Transactions), NEW user, NEW first, NEW last
    PROVE  MapThenSumSet(LAMBDA c : category_breakdown(user, first, last)[c],
                         DOMAIN category_breakdown(user, first, last))
               = income_and_expenses(user, first, last).expenses
<1>1. PICK spent : spent = Directed(reporting_scope(user, first, last), "DEBIT")
  OBVIOUS
<1>2. spent \subseteq Transactions /\ IsFiniteSet(spent)
  BY <1>1, FS_Subset DEF Directed, reporting_scope
<1>3. PICK D : D = {transactions[i].category : i \in spent}
  OBVIOUS
<1>4. IsFiniteSet(D)
  <2> DEFINE f == [i \in spent |-> transactions[i].category]
  <2>1. (\A c \in D : \E i \in spent : c = f[i]) /\ \A i \in spent : f[i] \in D
    BY <1>3
  <2> HIDE DEF f
  <2> QED BY <1>2, <2>1, ImageFinite
<1>5. PICK parts : parts = [c \in D |-> {i \in spent : transactions[i].category = c}]
  OBVIOUS
<1>6. PICK shown : shown = category_breakdown(user, first, last)
  OBVIOUS
<1>7. shown = [c \in D |-> Amount(parts[c])]
  BY <1>1, <1>3, <1>5, <1>6 DEF category_breakdown
<1>8. \A c \in D : parts[c] \in SUBSET Transactions /\ IsFiniteSet(parts[c])
                   /\ \A i \in parts[c] : Amounts[i] \in Int
  BY <1>2, <1>5, AmountIsTotal
<1>9. UNION {parts[c] : c \in D} = spent
  <2>1. \A c \in D : parts[c] \subseteq spent
    BY <1>5
  <2>2. \A i \in spent : \E c \in D : i \in parts[c]
    BY <1>3, <1>5
  <2> QED BY <2>1, <2>2
<1>10. \A c, d \in D : c # d => parts[c] \cap parts[d] = {}
  BY <1>5
<1>11. PICK w : w = Amounts
  OBVIOUS
<1>12. Total([c \in D |-> Total(w, parts[c])], D) = Total(w, spent)
  BY <1>4, <1>8, <1>9, <1>10, <1>11, TotalParts
<1>13. \A c \in D : Amount(parts[c]) = Total(w, parts[c])
  BY <1>8, <1>11, AmountIsTotal
<1>14. shown = [c \in D |-> Total(w, parts[c])]
  BY <1>7, <1>13
<1>15. Amount(spent) = Total(w, spent)
  BY <1>2, <1>11, AmountIsTotal
<1>16. Total(shown, DOMAIN shown) = Amount(spent) /\ IsFiniteSet(DOMAIN shown)
  <2>1. DOMAIN shown = D
    BY <1>14
  <2> QED BY <1>4, <1>12, <1>14, <1>15, <2>1
<1>17. MapThenSumSet(LAMBDA c : category_breakdown(user, first, last)[c],
                     DOMAIN category_breakdown(user, first, last))
           = Total(category_breakdown(user, first, last), DOMAIN category_breakdown(user, first, last))
  BY <1>6, <1>16, SpentSum
<1>19. income_and_expenses(user, first, last).expenses = Amount(spent)
  BY <1>1 DEF income_and_expenses
<1> QED BY <1>6, <1>16, <1>17, <1>19, Zenon

-----------------------------------------------------------------------------
(* Months.                                                                 *)

\* A finite set of dates has a first and a last.
LEMMA FirstAndLast ==
    ASSUME NEW S, IsFiniteSet(S), S \subseteq Int, S # {}
    PROVE  /\ Min(S) \in S /\ \A d \in S : Min(S) <= d
           /\ Max(S) \in S /\ \A d \in S : d <= Max(S)
<1> DEFINE Good == {T \in SUBSET S : T # {} => /\ \E x \in T : \A y \in T : x <= y
                                              /\ \E x \in T : \A y \in T : x >= y}
<1>1. ASSUME NEW T \in SUBSET S, \A U \in SUBSET T : U # T => U \in Good
      PROVE  T \in Good
  <2> SUFFICES ASSUME T # {} PROVE /\ \E x \in T : \A y \in T : x <= y
                                   /\ \E x \in T : \A y \in T : x >= y
    OBVIOUS
  <2>1. PICK a \in T : TRUE
    OBVIOUS
  <2>2. T \ {a} \in Good
    BY <1>1, <2>1
  <2>3. CASE T \ {a} = {}
    BY <2>1, <2>3
  <2>4. CASE T \ {a} # {}
    <3>1. PICK x \in T \ {a}, z \in T \ {a} : \A y \in T \ {a} : x <= y /\ z >= y
      BY <2>2, <2>4
    <3> QED BY <2>1, <3>1
  <2> QED BY <2>3, <2>4
<1>2. \A T \in SUBSET S : T \in Good
  <2> HIDE DEF Good
  <2> QED BY <1>1, SubsetInduction
<1>3. /\ \E x \in S : \A y \in S : x <= y
      /\ \E x \in S : \A y \in S : x >= y
  BY <1>2
<1> QED BY <1>3 DEF Min, Max

\* The date of an instant.
LEMMA DateOf ==
    ASSUME NEW at \in Instants
    PROVE  /\ at \div 2 \in Dates
           /\ \A d \in Dates : /\ at >= DayStart(d) <=> at \div 2 >= d
                               /\ at <= DayEnd(d) <=> at \div 2 <= d
<1>1. LastDate \in Nat
  BY ReportingAssumption
<1>2. at \in Nat /\ at <= 2 * LastDate + 1
  BY <1>1 DEF Instants
<1>3. PICK k \in Int : k = at \div 2
  BY <1>2
<1>4. 2 * k <= at /\ at <= 2 * k + 1
  BY <1>2, <1>3
<1>5. k \in Dates
  BY <1>1, <1>2, <1>4 DEF Dates
<1>6. \A d \in Dates : /\ at >= DayStart(d) <=> k >= d
                       /\ at <= DayEnd(d) <=> k <= d
  BY <1>1, <1>2, <1>4 DEF Dates, DayStart, DayEnd
<1> QED BY <1>3, <1>5, <1>6

MonthAt(i) == MonthOf[transactions[i].at \div 2]

\* What is reported for a month, as for its dates as for all of them.
LEMMA MonthScope ==
    ASSUME ReportingInd, IsFiniteSet(Transactions), NEW user, NEW m \in Months
    PROVE  LET days == {d \in Dates : MonthOf[d] = m}
           IN  reporting_scope(user, Min(days), Max(days))
                   = {i \in reporting_scope(user, 0, LastDate) : MonthAt(i) = m}
<1> PICK days : days = {d \in Dates : MonthOf[d] = m}
  OBVIOUS
<1>1. /\ LastDate \in Nat /\ MonthOf \in [Dates -> Nat] /\ days \subseteq Dates /\ days # {}
      /\ \A d \in Dates, e \in Dates : d <= e => MonthOf[d] <= MonthOf[e]
  BY ReportingAssumption DEF Dates, Months
<1>2. IsFiniteSet(days) /\ days \subseteq Int
  <2>1. IsFiniteSet(0 .. LastDate)
    BY <1>1, FS_Interval
  <2> QED BY <1>1, <2>1, FS_Subset DEF Dates
<1>3. PICK first \in days, last \in days :
          first = Min(days) /\ last = Max(days) /\ \A d \in days : first <= d /\ d <= last
  BY <1>1, <1>2, FirstAndLast
<1>4. \A d \in Dates : MonthOf[d] = m <=> first <= d /\ d <= last
  <2> SUFFICES ASSUME NEW d \in Dates, first <= d, d <= last PROVE MonthOf[d] = m
    BY <1>3
  <2>1. MonthOf[first] <= MonthOf[d] /\ MonthOf[d] <= MonthOf[last]
    BY <1>1
  <2> QED BY <1>1, <2>1
<1>5. first \in Dates /\ last \in Dates /\ 0 \in Dates /\ LastDate \in Dates
  BY <1>1 DEF Dates
<1>6. ASSUME NEW i \in Transactions, transactions[i].at # NULL
      PROVE  /\ transactions[i].at >= DayStart(0) /\ transactions[i].at <= DayEnd(LastDate)
             /\ MonthAt(i) = m <=> /\ transactions[i].at >= DayStart(first)
                                   /\ transactions[i].at <= DayEnd(last)
  <2>1. PICK at \in Instants : at = transactions[i].at
    BY <1>6, RowTyped
  <2>2. /\ at \div 2 \in Dates
        /\ \A d \in Dates : /\ at >= DayStart(d) <=> at \div 2 >= d
                            /\ at <= DayEnd(d) <=> at \div 2 <= d
    BY DateOf
  <2>3. PICK k \in Dates : k = at \div 2
    BY <2>2
  <2>4. /\ k >= 0 /\ k <= LastDate
        /\ first <= k <=> k >= first
    BY <1>1, <1>5 DEF Dates
  <2> QED BY <1>4, <1>5, <2>1, <2>2, <2>3, <2>4 DEF MonthAt
<1> QED BY <1>3, <1>6 DEF reporting_scope

\* The summary of a month, in terms of what is reported for all dates.
LEMMA MonthSummary ==
    ASSUME ReportingInd, IsFiniteSet(Transactions), NEW user, NEW m \in Months,
           NEW bucket, bucket = {i \in reporting_scope(user, 0, LastDate) : MonthAt(i) = m}
    PROVE  monthly_summary(user, m) = [income |-> Amount(Directed(bucket, "CREDIT")),
                                       expenses |-> Amount(Directed(bucket, "DEBIT")),
                                       count |-> Cardinality(bucket)]
<1> PICK days : days = {d \in Dates : MonthOf[d] = m}
  OBVIOUS
<1>1. reporting_scope(user, Min(days), Max(days)) = bucket
  BY MonthScope
<1>2. monthly_summary(user, m) = income_and_expenses(user, Min(days), Max(days))
  BY DEF monthly_summary
<1> QED BY <1>1, <1>2 DEF income_and_expenses

LEMMA MonthsAgreeFor ==
    ASSUME ReportingInd, IsFiniteSet(Transactions), NEW user
    PROVE  MonthsAgree(user)
<1> PICK rows : rows = monthly_income_and_expenses(user, 0, LastDate)
  OBVIOUS
<1> SUFFICES ASSUME NEW m \in Months
             PROVE  IF m \in DOMAIN rows
                    THEN /\ rows[m].income = monthly_summary(user, m).income
                         /\ rows[m].expenses = monthly_summary(user, m).expenses
                    ELSE monthly_summary(user, m).count = 0
  BY DEF MonthsAgree
<1> PICK scope : scope = reporting_scope(user, 0, LastDate)
  OBVIOUS
<1> PICK bucket : bucket = {i \in scope : MonthAt(i) = m}
  OBVIOUS
<1>1. monthly_summary(user, m) = [income |-> Amount(Directed(bucket, "CREDIT")),
                                  expenses |-> Amount(Directed(bucket, "DEBIT")),
                                  count |-> Cardinality(bucket)]
  BY MonthSummary
<1>2. rows = [k \in {MonthAt(i) : i \in scope} |->
                 [income |-> Amount(Directed({i \in scope : MonthAt(i) = k}, "CREDIT")),
                  expenses |-> Amount(Directed({i \in scope : MonthAt(i) = k}, "DEBIT"))]]
  BY DEF monthly_income_and_expenses, MonthAt
<1>3. CASE m \in DOMAIN rows
  <2>1. rows[m] = [income |-> Amount(Directed(bucket, "CREDIT")),
                   expenses |-> Amount(Directed(bucket, "DEBIT"))]
    BY <1>2, <1>3
  <2> QED BY <1>1, <1>3, <2>1
<1>4. CASE m \notin DOMAIN rows
  <2>1. bucket = {}
    BY <1>2, <1>4
  <2> QED BY <1>1, <1>4, <2>1, FS_EmptySet
<1> QED BY <1>3, <1>4

\* Every dated transaction is of one month.
LEMMA MonthsCountAllFor ==
    ASSUME ReportingInd, IsFiniteSet(Transactions), NEW user
    PROVE  MonthsCountAll(user)
<1>1. PICK all : all = {i \in Transactions : /\ OwnerOf(i) = user
                                            /\ transactions[i].at # NULL
                                            /\ transactions[i].type # "TRANSFER"}
  OBVIOUS
<1>2. all \subseteq Transactions /\ IsFiniteSet(all)
  BY <1>1, FS_Subset
<1>3. IsFiniteSet(Months)
  <2>1. LastDate \in Nat
    BY ReportingAssumption
  <2>2. IsFiniteSet(Dates)
    BY <2>1, FS_Interval DEF Dates
  <2>3. (\A m \in Months : \E d \in Dates : m = MonthOf[d]) /\ \A d \in Dates : MonthOf[d] \in Months
    BY DEF Months
  <2> QED BY <2>2, <2>3, ImageFinite
<1>4. all = reporting_scope(user, 0, LastDate) /\ \A i \in all : MonthAt(i) \in Months
  <2>1. LastDate \in Nat
    BY ReportingAssumption
  <2>2. ASSUME NEW i \in Transactions, transactions[i].at # NULL
        PROVE  /\ transactions[i].at >= DayStart(0) /\ transactions[i].at <= DayEnd(LastDate)
               /\ MonthAt(i) \in Months
    <3>1. PICK at \in Instants : at = transactions[i].at
      BY <2>2, RowTyped
    <3>2. at >= DayStart(0) /\ at <= DayEnd(LastDate)
      BY <2>1 DEF Instants, DayStart, DayEnd
    <3>3. at \div 2 \in Dates
      BY DateOf
    <3> QED BY <3>1, <3>2, <3>3 DEF MonthAt, Months
  <2> QED BY <1>1, <2>2 DEF reporting_scope
<1>5. PICK parts : parts = [m \in Months |-> {i \in all : MonthAt(i) = m}]
  OBVIOUS
<1>6. PICK ones : ones = [i \in all |-> 1]
  OBVIOUS
<1>7. \A m \in Months : /\ parts[m] \subseteq all /\ IsFiniteSet(parts[m])
                        /\ \A i \in parts[m] : ones[i] = 1 /\ ones[i] \in Int
  BY <1>2, <1>5, <1>6, FS_Subset
<1>8. \A m, k \in Months : m # k => parts[m] \cap parts[k] = {}
  BY <1>5
<1>9. UNION {parts[m] : m \in Months} = all
  <2>1. \A i \in all : \E m \in Months : i \in parts[m]
    BY <1>4, <1>5
  <2> QED BY <1>7, <2>1
<1>10. Total([m \in Months |-> Total(ones, parts[m])], Months) = Cardinality(all)
  <2>1. Total([m \in Months |-> Total(ones, parts[m])], Months) = Total(ones, all)
    BY <1>3, <1>7, <1>8, <1>9, TotalParts
  <2>2. Total(ones, all) = Cardinality(all)
    BY <1>2, <1>6, TotalOnes
  <2> QED BY <2>1, <2>2
<1>11. \A m \in Months : monthly_summary(user, m).count = Total(ones, parts[m])
  <2> SUFFICES ASSUME NEW m \in Months PROVE monthly_summary(user, m).count = Total(ones, parts[m])
    OBVIOUS
  <2>1. monthly_summary(user, m).count = Cardinality(parts[m])
    BY <1>4, <1>5, MonthSummary
  <2>2. Total(ones, parts[m]) = Cardinality(parts[m])
    BY <1>7, TotalOnes
  <2> QED BY <2>1, <2>2
<1>12. Total([m \in Months |-> monthly_summary(user, m).count], Months) = Cardinality(all)
  <2>1. [m \in Months |-> monthly_summary(user, m).count] = [m \in Months |-> Total(ones, parts[m])]
    BY <1>11
  <2> QED BY <1>10, <2>1
<1>13. MapThenSumSet(LAMBDA m : monthly_summary(user, m).count, Months)
           = Total([m \in Months |-> monthly_summary(user, m).count], Months)
  BY <1>3, CountSum
<1>14. MapThenSumSet(LAMBDA m : monthly_summary(user, m).count, Months) = Cardinality(all)
  BY <1>12, <1>13
<1> QED BY <1>1, <1>14, Zenon DEF MonthsCountAll

-----------------------------------------------------------------------------
(* Net worth.                                                              *)

\* What a transaction brings in, or takes out.
Flow == [i \in Transactions |-> IF transactions[i].direction = "CREDIT"
                                THEN transactions[i].amount ELSE -transactions[i].amount]

Worth(a) == IF TypeOf[a] \in LIABILITY_ACCOUNT_TYPES THEN -Balance(a) ELSE Balance(a)

\* What an account is worth is what it started with and what flowed through it.
LEMMA WorthOfOne ==
    ASSUME ReportingInd, IsFiniteSet(Transactions), NEW a \in Accounts
    PROVE  /\ IsFiniteSet(posted[a]) /\ posted[a] \subseteq Transactions
           /\ \A i \in posted[a] : transactions[i].account = a /\ Flow[i] \in Int
           /\ Balance(a) \in Int /\ Start(a) \in Int /\ Total(Flow, posted[a]) \in Int
           /\ Worth(a) = Start(a) + Total(Flow, posted[a])
<1> PICK P : P = posted[a]
  OBVIOUS
<1>1. /\ P \subseteq Transactions /\ IsFiniteSet(P)
      /\ \A i \in P : transactions[i].account = a
  <2>1. P \subseteq On(transactions, a)
    BY DEF ReportingInd, Tables, TablesOK
  <2> QED BY <2>1, FS_Subset DEF On, Transactions
<1>2. \A i \in P : Flow[i] \in Int
  BY <1>1, RowTyped DEF Flow
<1>3. PICK d : d = [i \in P |-> balance_delta(transactions[i].amount,
                                              transactions[i].direction, TypeOf[a])]
  OBVIOUS
<1>4. \A i \in P : /\ d[i] \in Int
                   /\ d[i] = IF TypeOf[a] \in LIABILITY_ACCOUNT_TYPES THEN -Flow[i] ELSE Flow[i]
  <2> SUFFICES ASSUME NEW i \in P
               PROVE  /\ d[i] \in Int
                      /\ d[i] = IF TypeOf[a] \in LIABILITY_ACCOUNT_TYPES THEN -Flow[i] ELSE Flow[i]
    OBVIOUS
  <2>1. PICK amount \in Nat, direction \in {"DEBIT", "CREDIT"} :
            amount = transactions[i].amount /\ direction = transactions[i].direction
    BY <1>1, RowTyped
  <2>2. d[i] = balance_delta(amount, direction, TypeOf[a])
    BY <1>3, <2>1
  <2>3. Flow[i] = IF direction = "CREDIT" THEN amount ELSE -amount
    BY <1>1, <2>1 DEF Flow
  <2> QED BY <2>2, <2>3 DEF balance_delta
<1>5. Total(d, P) = IF TypeOf[a] \in LIABILITY_ACCOUNT_TYPES THEN -Total(Flow, P) ELSE Total(Flow, P)
  <2> PICK w : w = Flow
    OBVIOUS
  <2>1. CASE TypeOf[a] \in LIABILITY_ACCOUNT_TYPES
    <3>1. Total(d, P) = -Total(w, P)
      BY <1>1, <1>2, <1>4, <2>1, TotalNegated
    <3> QED BY <2>1, <3>1
  <2>2. CASE TypeOf[a] \notin LIABILITY_ACCOUNT_TYPES
    <3>1. Total(d, P) = Total(w, P)
      BY <1>1, <1>4, <2>2, TotalSame
    <3> QED BY <2>2, <3>1
  <2> QED BY <2>1, <2>2
<1>6. Balance(a) = Opening[a] + Total(d, P)
  <2>1. MapThenSumSet(LAMBDA i : balance_delta(transactions[i].amount,
                    transactions[i].direction, TypeOf[a]), posted[a])
            = Total([i \in posted[a] |-> balance_delta(transactions[i].amount,
                        transactions[i].direction, TypeOf[a])], posted[a])
    BY <1>1, DeltaSum
  <2>2. Total([i \in posted[a] |-> balance_delta(transactions[i].amount,
                        transactions[i].direction, TypeOf[a])], posted[a]) = Total(d, P)
    BY <1>3
  <2> QED BY <2>1, <2>2, Zenon DEF Balance
<1>7. Opening[a] \in Int
  BY ReportingAssumption
<1>8. Total(Flow, P) \in Int
  <2> PICK w : w = Flow
    OBVIOUS
  <2>1. Total(w, P) \in Int
    BY <1>1, <1>2, TotalTyped
  <2> QED BY <2>1
<1>9. /\ Balance(a) \in Int /\ Start(a) \in Int
      /\ Worth(a) = Start(a) + Total(Flow, P)
  <2> PICK x \in Int, y \in Int : x = Opening[a] /\ y = Total(Flow, P)
    BY <1>7, <1>8
  <2>1. CASE TypeOf[a] \in LIABILITY_ACCOUNT_TYPES
    <3>1. Balance(a) = x + (-y) /\ Start(a) = -x /\ Worth(a) = -Balance(a)
      BY <1>5, <1>6, <2>1 DEF Start, Worth
    <3> QED BY <3>1
  <2>2. CASE TypeOf[a] \notin LIABILITY_ACCOUNT_TYPES
    <3>1. Balance(a) = x + y /\ Start(a) = x /\ Worth(a) = Balance(a)
      BY <1>5, <1>6, <2>2 DEF Start, Worth
    <3> QED BY <3>1
  <2> QED BY <2>1, <2>2
<1> QED BY <1>1, <1>2, <1>8, <1>9

\* What flowed through postings is what came in less what went out.
LEMMA FlowIsDirected ==
    ASSUME ReportingInd, IsFiniteSet(Transactions), NEW S \in SUBSET Transactions
    PROVE  /\ Total(Flow, S) = Amount(Directed(S, "CREDIT")) - Amount(Directed(S, "DEBIT"))
           /\ Amount(Directed(S, "CREDIT")) \in Int /\ Amount(Directed(S, "DEBIT")) \in Int
<1> PICK in, out : in = Directed(S, "CREDIT") /\ out = Directed(S, "DEBIT")
  OBVIOUS
<1> PICK w, v : w = Flow /\ v = Amounts
  OBVIOUS
<1>1. /\ in \subseteq Transactions /\ out \subseteq Transactions
      /\ in \cup out = S /\ in \cap out = {}
  BY RowTyped DEF Directed
<1>2. IsFiniteSet(in) /\ IsFiniteSet(out) /\ IsFiniteSet(S)
  BY <1>1, FS_Subset
<1>3. /\ \A i \in in : w[i] = v[i] /\ w[i] \in Int /\ v[i] \in Int
      /\ \A i \in out : w[i] = -v[i] /\ w[i] \in Int /\ v[i] \in Int
  <2>1. ASSUME NEW i \in in PROVE w[i] = v[i] /\ w[i] \in Int /\ v[i] \in Int
    BY <1>1, RowTyped DEF Directed, Flow, Amounts
  <2>2. ASSUME NEW i \in out PROVE w[i] = -v[i] /\ w[i] \in Int /\ v[i] \in Int
    BY <1>1, RowTyped DEF Directed, Flow, Amounts
  <2> QED BY <2>1, <2>2
<1>4. Total(w, S) = Total(w, in) + Total(w, out)
  <2>1. \A i \in S : w[i] \in Int
    BY <1>1, <1>3
  <2> QED BY <1>1, <1>2, <2>1, TotalSplit
<1>5. Total(w, in) = Total(v, in)
  BY <1>2, <1>3, TotalSame
<1>6. Total(w, out) = -Total(v, out)
  BY <1>2, <1>3, TotalNegated
<1>7. Amount(in) = Total(v, in) /\ Amount(out) = Total(v, out)
  BY <1>1, AmountIsTotal
<1>8. Total(v, in) \in Int /\ Total(v, out) \in Int
  BY <1>2, <1>3, TotalTyped
<1> QED BY <1>4, <1>5, <1>6, <1>7, <1>8

LEMMA NetWorthIsFlowFor ==
    ASSUME ReportingInd, IsFiniteSet(Transactions), NEW user
    PROVE  NetWorthIsFlow(user)
<1>1. PICK mine : mine = {a \in Accounts : Owner[a] = user /\ a \notin archived}
  OBVIOUS
<1>2. PICK owed : owed = {a \in mine : TypeOf[a] \in LIABILITY_ACCOUNT_TYPES}
  OBVIOUS
<1>3. PICK P : P = UNION {posted[a] : a \in mine}
  OBVIOUS
<1>4. /\ mine \subseteq Accounts /\ owed \subseteq mine
      /\ IsFiniteSet(mine) /\ IsFiniteSet(owed) /\ IsFiniteSet(mine \ owed)
  <2>1. mine \subseteq Accounts /\ owed \subseteq mine
    BY <1>1, <1>2
  <2>2. IsFiniteSet(mine)
    BY <2>1, ReportingAssumption, FS_Subset
  <2> QED BY <2>1, <2>2, FS_Subset
<1>5. PICK worth, balance, start, flow, has :
          /\ worth = [a \in mine |-> Worth(a)]
          /\ balance = [a \in mine |-> Balance(a)]
          /\ start = [a \in mine |-> Start(a)]
          /\ flow = [a \in mine |-> Total(Flow, posted[a])]
          /\ has = [a \in mine |-> posted[a]]
  OBVIOUS
<1>6. \A a \in mine : /\ balance[a] \in Int /\ start[a] \in Int /\ flow[a] \in Int
                      /\ worth[a] \in Int /\ worth[a] = start[a] + flow[a]
                      /\ worth[a] = IF a \in owed THEN -balance[a] ELSE balance[a]
  <2> SUFFICES ASSUME NEW a \in mine
               PROVE  /\ balance[a] \in Int /\ start[a] \in Int /\ flow[a] \in Int
                      /\ worth[a] \in Int /\ worth[a] = start[a] + flow[a]
                      /\ worth[a] = IF a \in owed THEN -balance[a] ELSE balance[a]
    OBVIOUS
  <2>1. PICK x \in Int, y \in Int, b \in Int :
            /\ x = Start(a) /\ y = Total(Flow, posted[a]) /\ b = Balance(a)
            /\ Worth(a) = x + y
    BY <1>4, WorthOfOne
  <2>2. balance[a] = b /\ start[a] = x /\ flow[a] = y /\ worth[a] = x + y
    BY <1>5, <2>1
  <2>3. worth[a] = IF a \in owed THEN -b ELSE b
    BY <1>2, <1>5, <2>1 DEF Worth
  <2> QED BY <2>2, <2>3
<1>7. /\ Total(worth, mine) = Total(start, mine) + Total(flow, mine)
      /\ Total(start, mine) \in Int /\ Total(flow, mine) \in Int
  BY <1>4, <1>6, TotalPlus, TotalTyped
<1>8. Total(worth, mine) = Total(balance, mine \ owed) - Total(balance, owed)
  <2>1. Total(worth, mine) = Total(worth, mine \ owed) + Total(worth, owed)
    BY <1>4, <1>6, TotalSplit
  <2>2. Total(worth, mine \ owed) = Total(balance, mine \ owed)
    BY <1>4, <1>6, TotalSame
  <2>3. Total(worth, owed) = -Total(balance, owed)
    BY <1>4, <1>6, TotalNegated
  <2>4. Total(balance, mine \ owed) \in Int /\ Total(balance, owed) \in Int
    BY <1>4, <1>6, TotalTyped
  <2> QED BY <2>1, <2>2, <2>3, <2>4
<1>9. Total(flow, mine) = Amount(Directed(P, "CREDIT")) - Amount(Directed(P, "DEBIT"))
      /\ Amount(Directed(P, "CREDIT")) \in Int /\ Amount(Directed(P, "DEBIT")) \in Int
  <2> PICK w : w = Flow
    OBVIOUS
  <2>1. \A a \in mine : /\ has[a] = posted[a] /\ IsFiniteSet(has[a]) /\ has[a] \subseteq Transactions
                        /\ \A i \in has[a] : transactions[i].account = a /\ w[i] \in Int
    BY <1>4, <1>5, WorthOfOne
  <2>2. \A a, b \in mine : a # b => has[a] \cap has[b] = {}
    BY <2>1
  <2>3. UNION {has[a] : a \in mine} = P /\ P \subseteq Transactions
    BY <1>3, <2>1
  <2>4. flow = [a \in mine |-> Total(w, has[a])]
    BY <1>5, <2>1
  <2>5. Total(flow, mine) = Total(w, P)
    <3>1. /\ \A a \in mine : IsFiniteSet(has[a])
          /\ \A a \in mine : \A i \in has[a] : w[i] \in Int
      BY <2>1
    <3>2. Total([a \in mine |-> Total(w, has[a])], mine) = Total(w, UNION {has[a] : a \in mine})
      BY <1>4, <2>2, <3>1, TotalParts
    <3> QED BY <2>3, <2>4, <3>2
  <2> QED BY <2>3, <2>5, FlowIsDirected
<1>10. /\ MapThenSumSet(Balance, mine \ owed) = Total(balance, mine \ owed)
       /\ MapThenSumSet(Balance, owed) = Total(balance, owed)
  <2>1. ASSUME NEW S \in SUBSET mine, IsFiniteSet(S)
        PROVE  MapThenSumSet(Balance, S) = Total(balance, S)
    <3>1. MapThenSumSet(Balance, S) = Total([a \in S |-> Balance(a)], S)
      BY <2>1, BalanceSum
    <3>2. PICK v : v = [a \in S |-> Balance(a)]
      OBVIOUS
    <3>3. Total(v, S) = Total(balance, S)
      BY <1>5, <2>1, <3>2, TotalSame
    <3> QED BY <3>1, <3>2, <3>3
  <2> QED BY <1>4, <2>1
<1>11. MapThenSumSet(Start, mine) = Total(start, mine)
  BY <1>4, <1>5, StartSum
<1>12. net_worth(user) = MapThenSumSet(Balance, mine \ owed) - MapThenSumSet(Balance, owed)
  BY <1>1, <1>2, Zenon DEF net_worth
<1>13. net_worth(user) = Total(balance, mine \ owed) - Total(balance, owed)
  BY <1>10, <1>12
<1>14. net_worth(user) = Total(start, mine) + Amount(Directed(P, "CREDIT"))
                             - Amount(Directed(P, "DEBIT"))
  BY <1>7, <1>8, <1>9, <1>13
<1>15. net_worth(user) = MapThenSumSet(Start, mine) + Amount(Directed(P, "CREDIT"))
                             - Amount(Directed(P, "DEBIT"))
  BY <1>11, <1>14
<1> QED BY <1>1, <1>3, <1>15, Zenon DEF NetWorthIsFlow

-----------------------------------------------------------------------------
(* All of them, in every reachable state.                                  *)

\* A step makes one transaction at most.
LEMMA StillFinite ==
    ASSUME ReportingInd, IsFiniteSet(Transactions), [ReportingNext]_reportingVars
    PROVE  IsFiniteSet(Transactions)'
<1>1. \E i : Transactions' \subseteq Transactions \cup {i}
  <2>1. CASE UNCHANGED transactions
    BY <2>1 DEF Transactions
  <2>2. ASSUME NEW i, NEW row, transactions' = [transactions EXCEPT ![i] = row]
        PROVE  Transactions' \subseteq Transactions \cup {i}
    <3>1. \A k \in TransactionIds : k # i => transactions'[k] = transactions[k]
      BY <2>2 DEF ReportingInd, Tables, TablesOK
    <3> QED BY <3>1 DEF Transactions
  <2>3. ASSUME NEW t \in Threads, post_write(t) \/ patch_write(t)
        PROVE  UNCHANGED transactions \/ \E i, row : transactions' = [transactions EXCEPT ![i] = row]
    BY <2>3, Zenon DEF post_write, patch_write
  <2> QED BY <2>1, <2>2, <2>3 DEF ReportingNext, ReportingStep, begin, create_transaction,
     archive_account, update_transaction, link_transfer, confirm_transfer, confirm_write,
     account_summaries, summary_count, list_for_user, count_for_user, respond,
     reportingVars, tables
<1>2. PICK i : Transactions' \subseteq Transactions \cup {i}
  BY <1>1
<1>3. IsFiniteSet(Transactions \cup {i})
  BY FS_AddElement
<1> QED BY <1>2, <1>3, FS_Subset

\* The reports of one user agree with one another, in every state.
THEOREM ReportingReportsAgree == ReportingSpec => []ReportsAgree
<1>1. ReportingInit => IsFiniteSet(Transactions)
  <2> SUFFICES ASSUME ReportingInit PROVE IsFiniteSet(Transactions)
    OBVIOUS
  <2>1. Transactions = {}
    BY DEF ReportingInit, Transactions
  <2> QED BY <2>1, FS_EmptySet
<1>2. ReportingInd /\ IsFiniteSet(Transactions) => ReportsAgree
  <2> SUFFICES ASSUME ReportingInd, IsFiniteSet(Transactions), NEW u \in Users
               PROVE  /\ CategoriesAddUp(u)
                      /\ MonthsAgree(u) /\ MonthsCountAll(u)
                      /\ NetWorthIsFlow(u)
    BY DEF ReportsAgree
  <2>1. CategoriesAddUp(u)
    <3> SUFFICES ASSUME NEW first \in Dates, NEW last \in Dates
                 PROVE  MapThenSumSet(LAMBDA c : category_breakdown(u, first, last)[c],
                                      DOMAIN category_breakdown(u, first, last))
                            = income_and_expenses(u, first, last).expenses
      BY Zenon DEF CategoriesAddUp
    <3> PICK user : user = u
      OBVIOUS
    <3> QED BY CategoriesAgree
  <2> QED BY <2>1, MonthsAgreeFor, MonthsCountAllFor, NetWorthIsFlowFor
<1>3. ReportingInd /\ IsFiniteSet(Transactions) /\ [ReportingNext]_reportingVars
          => IsFiniteSet(Transactions)'
  BY StillFinite
<1> QED BY <1>1, <1>2, <1>3, ReportingInvariant, PTL DEF ReportingSpec
=============================================================================
