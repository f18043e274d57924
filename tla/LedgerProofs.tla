---------------------------- MODULE LedgerProofs ----------------------------
(***************************************************************************)
(* Theorems of Ledger, for every set of threads, accounts and requests, the *)
(* steps in which it departs from AbstractLedger among them.                *)
(***************************************************************************)
EXTENDS Ledger, AccountsProofs, Sums

-----------------------------------------------------------------------------
(* Type correctness.                                                       *)

LEMMA DeltaTyped ==
    ASSUME NEW amount \in Nat, NEW direction, NEW type
    PROVE  balance_delta(amount, direction, type) \in Int
BY DEF balance_delta

\* What a handler between the read and the write of a posting holds.
PostingInd(t) ==
    /\ session[t].target \in Stored
    /\ session[t].seen \in Account
    /\ payment[t] \in Payment
    /\ session[t].seen.status = "ARCHIVED" => payment[t].raw # NULL

\* What handler t holds between its read and its write, whichever request it is.
HandlerInd(t) ==
    /\ pc[t] \in {"post_check", "post_write"} => PostingInd(t)
    /\ pc[t] = "reconcile_write" =>
          /\ session[t].target \in Stored
          /\ session[t].seen \in Account
          /\ DOMAIN session[t].change = {"balance"}

LedgerInd ==
    /\ AccountsInd
    /\ \A id \in Stored : Representable(accounts[id].balance)
    /\ transactions \in Seq(Transaction)
    /\ payment \in [Threads -> Payment \cup {NULL}]
    /\ \A t \in Threads : HandlerInd(t)

LEMMA LedgerInitInd == LedgerInit => LedgerInd
<1> SUFFICES ASSUME LedgerInit PROVE LedgerInd
  OBVIOUS
<1>1. AccountsInd
  BY AccountsInitInd DEF LedgerInit
<1>2. \A id \in Stored : Representable(accounts[id].balance)
  BY AccountsAssumption DEF LedgerInit, AccountsInit, Stored
<1> QED BY <1>1, <1>2 DEF LedgerInit, LedgerInd, HandlerInd, AccountsInit

LEMMA PendingTyped ==
    ASSUME LedgerInd, NEW t \in Threads, PostingInd(t)
    PROVE  /\ Pending(t) \in Transaction
           /\ AppliedBalance(t) \in Int
<1>1. session[t].target \in AccountIds
  BY DEF PostingInd, Stored
<1>2. Pending(t) \in Transaction
  BY <1>1 DEF PostingInd, Pending, RowOf, Payment, Transaction
<1>3. balance_delta(payment[t].amount, payment[t].direction, session[t].seen.type) \in Int
  BY DeltaTyped DEF PostingInd, Payment
<1>4. AppliedBalance(t) \in Int
  BY <1>3 DEF AppliedBalance, PostingInd, Account
<1> QED BY <1>2, <1>4

\* Writing nothing or one balance on a row.
LEMMA BalanceWrite ==
    ASSUME NEW row \in Account, NEW seen \in Account, NEW b \in Int
    PROVE  /\ FlushBalance(row, seen, b) \in Account
           /\ FlushBalance(row, seen, b).type = row.type
           /\ FlushBalance(row, seen, b).status = row.status
           /\ FlushBalance(row, seen, b).opening = row.opening
           /\ \A f \in UPDATABLE_FIELDS : FlushBalance(row, seen, b)[f] = row[f]
           /\ FlushBalance(row, seen, b).balance =
                 IF seen.balance = b THEN row.balance ELSE b
<1> DEFINE c == Differing(seen, [balance |-> b])
           new == Write(row, c)
<1>1. IsChange([balance |-> b])
  BY DEF IsChange, Columns, ColumnValues
<1>2. new \in Account
  BY <1>1, DifferingTyped, WriteTyped
<1>3. /\ DOMAIN c = IF seen.balance = b THEN {} ELSE {"balance"}
      /\ "balance" \in DOMAIN c => c["balance"] = b
  BY DEF Differing
<1>4. DOMAIN row = Columns
  BY DEF Account, Columns
<1> HIDE DEF c
<1>5. /\ \A f \in UPDATABLE_FIELDS : new[f] = row[f]
      /\ new.balance = IF seen.balance = b THEN row.balance ELSE b
  BY <1>3, <1>4 DEF Write, Columns, UPDATABLE_FIELDS
<1>6. /\ new.type = row.type /\ new.status = row.status /\ new.opening = row.opening
  BY <1>3, <1>4, <1>5 DEF Write, Columns, UPDATABLE_FIELDS
<1>7. FlushBalance(row, seen, b) = new
  BY DEF FlushBalance, c
<1> HIDE DEF new
<1> QED BY <1>2, <1>5, <1>6, <1>7

\* What posting and reconciling may do to the tables: rows stay, keep every
\* audited column and a representable balance; one event at most, of their own.
TablesMove ==
    /\ accounts' \in [AccountIds -> Account \cup {NULL}]
    /\ \A id \in Stored : /\ accounts'[id] # NULL
                          /\ Representable(accounts'[id].balance)
                          /\ \A f \in UPDATABLE_FIELDS :
                                accounts'[id][f] = accounts[id][f]
    /\ \A id \in AccountIds \ Stored : accounts'[id] = NULL
    /\ transactions' \in Seq(Transaction)
    /\ IsSeq(audit')
    /\ \/ audit' = audit /\ \A id \in Stored : accounts'[id] = accounts[id]
       \/ \E e : /\ IsLedgerEntry(e) /\ Record(e) /\ e.since = 0
                 /\ e.event \in {"TransactionCreated", "BalanceReconciled"}

LEMMA Unmoved ==
    ASSUME LedgerInd, UNCHANGED <<accounts, audit, transactions>>
    PROVE  TablesMove
BY DEF LedgerInd, AccountsInd, TablesMove, Stored

LEMMA BalanceMoves ==
    ASSUME LedgerInd, NEW id \in Stored, NEW seen \in Account, NEW b \in Int,
           Representable(b), transactions' \in Seq(Transaction),
           accounts' = [accounts EXCEPT ![id] = FlushBalance(accounts[id], seen, b)],
           NEW e, IsLedgerEntry(e), Record(e), e.since = 0,
           e.event \in {"TransactionCreated", "BalanceReconciled"}
    PROVE  TablesMove
<1> DEFINE new == FlushBalance(accounts[id], seen, b)
<1>1. accounts[id] \in Account /\ Representable(accounts[id].balance)
  BY DEF LedgerInd, AccountsInd, Stored
<1>2. /\ new \in Account /\ new # NULL
      /\ \A f \in UPDATABLE_FIELDS : new[f] = accounts[id][f]
      /\ new.balance \in {accounts[id].balance, b}
  <2>1. /\ new \in Account
        /\ \A f \in UPDATABLE_FIELDS : new[f] = accounts[id][f]
        /\ new.balance = IF seen.balance = b THEN accounts[id].balance ELSE b
    BY <1>1, BalanceWrite
  <2> QED BY <2>1, AccountsAssumption
<1>3. IsSeq(audit')
  BY AppendToSeq DEF LedgerInd, AccountsInd, Record
<1> HIDE DEF new
<1>4. \A a \in AccountIds : accounts'[a] = IF a = id THEN new ELSE accounts[a]
  BY DEF LedgerInd, AccountsInd, new
<1>5. accounts' \in [AccountIds -> Account \cup {NULL}]
  BY <1>2 DEF LedgerInd, AccountsInd, new
<1> QED BY <1>1, <1>2, <1>3, <1>4, <1>5 DEF TablesMove, LedgerInd, AccountsInd, Stored

LEMMA PostMoves ==
    ASSUME LedgerInd, NEW t \in Threads, PostingInd(t), ~PostFails(t), PostEffect(t)
    PROVE  TablesMove
<1> DEFINE e == Entry("TransactionCreated", 0, Len(transactions) + 1, NoChange, NoChange)
<1>1. Pending(t) \in Transaction /\ AppliedBalance(t) \in Int
  BY PendingTyped
<1>2. transactions' \in Seq(Transaction)
  BY <1>1 DEF PostEffect, LedgerInd
<1>3. IsLedgerEntry(e) /\ e.event = "TransactionCreated" /\ e.since = 0
  BY DEF IsLedgerEntry, Entry, IsChange, NoChange, LedgerInd
<1>4. Representable(AppliedBalance(t)) /\ Record(e)
  BY DEF PostFails, PostEffect
<1>5. accounts' = [accounts EXCEPT ![session[t].target] =
                     FlushBalance(accounts[session[t].target], session[t].seen,
                                  AppliedBalance(t))]
  BY DEF PostEffect
<1>6. session[t].target \in Stored /\ session[t].seen \in Account
  BY DEF PostingInd
<1> HIDE DEF e
<1> QED BY <1>1, <1>2, <1>3, <1>4, <1>5, <1>6, BalanceMoves

LEMMA ReconcileMoves ==
    ASSUME LedgerInd, NEW t \in Threads, reconcile_write(t)
    PROVE  TablesMove
<1> DEFINE s == session[t]
           e == Entry("BalanceReconciled", 0, s.target,
                      [balance |-> s.seen.balance], s.change)
<1>1. CASE UNCHANGED <<accounts, audit>>
  BY <1>1, Unmoved DEF reconcile_write
<1>2. CASE /\ Representable(s.change.balance)
           /\ accounts' = [accounts EXCEPT ![s.target] =
                  FlushBalance(accounts[s.target], s.seen, s.change.balance)]
           /\ Record(e)
  <2>1. /\ s.target \in Stored /\ s.seen \in Account /\ DOMAIN s.change = {"balance"}
        /\ IsChange(s.change)
    BY DEF reconcile_write, LedgerInd, HandlerInd, AccountsInd, IsSession
  <2>2. s.change.balance \in Int
    BY <2>1 DEF IsChange, ColumnValues
  <2>3. IsChange([balance |-> s.seen.balance])
    BY <2>1 DEF IsChange, ColumnValues, Columns, Account
  <2>4. IsLedgerEntry(e) /\ e.event = "BalanceReconciled" /\ e.since = 0
    BY <2>1, <2>3 DEF IsLedgerEntry, Entry, Stored
  <2>5. transactions' \in Seq(Transaction)
    BY DEF reconcile_write, LedgerInd
  <2> HIDE DEF e
  <2> QED BY <1>2, <2>1, <2>2, <2>4, <2>5, BalanceMoves
<1> QED BY <1>1, <1>2 DEF reconcile_write

LEMMA LedgerStepMoves ==
    ASSUME LedgerInd, NEW t \in Threads, LedgerStep(t)
    PROVE  TablesMove
<1>1. CASE post_write(t)
  <2>1. PostingInd(t)
    BY <1>1 DEF post_write, LedgerInd, HandlerInd
  <2> QED BY <1>1, <2>1, PostMoves, Unmoved DEF post_write
<1>2. CASE reconcile_write(t)
  BY <1>2, ReconcileMoves
<1>3. CASE create_transaction(t) \/ post_check(t) \/ reconcile_account(t)
  BY <1>3, Unmoved DEF create_transaction, post_check, reconcile_account
<1> QED BY <1>1, <1>2, <1>3 DEF LedgerStep

\* The handlers' side of a step: a row once stored stays, so what a handler that
\* did not move holds is still what it needs.
LEMMA HandlerKept ==
    ASSUME LedgerInd, NEW u \in Threads,
           pc'[u] = pc[u], session'[u] = session[u], payment'[u] = payment[u],
           \A id \in Stored : accounts'[id] # NULL
    PROVE  HandlerInd(u)'
<1>1. HandlerInd(u) /\ \A id \in Stored : id \in Stored'
  BY DEF LedgerInd, Stored
<1> QED BY <1>1 DEF HandlerInd, PostingInd

\* The tables' side and the moving handler's make the whole invariant.
LEMMA StepKeeps ==
    ASSUME LedgerInd, TablesMove, AccountsInd', NEW t \in Threads, HandlerInd(t)',
           payment' \in [Threads -> Payment \cup {NULL}],
           \A u \in Threads : u # t =>
               pc'[u] = pc[u] /\ session'[u] = session[u] /\ payment'[u] = payment[u]
    PROVE  LedgerInd'
<1>1. \A id \in Stored : accounts'[id] # NULL
  BY DEF TablesMove
<1>2. \A u \in Threads : HandlerInd(u)'
  <2>1. ASSUME NEW u \in Threads, u # t PROVE HandlerInd(u)'
    BY <1>1, <2>1, HandlerKept
  <2> QED BY <2>1
<1>3. \A id \in Stored' : Representable(accounts'[id].balance)
  BY DEF TablesMove, Stored
<1>4. transactions' \in Seq(Transaction)
  BY DEF TablesMove
<1> QED BY <1>2, <1>3, <1>4 DEF LedgerInd

LEMMA ClosePostKeeps ==
    ASSUME LedgerInd, NEW t \in Threads, Close(t), TablesMove,
           payment' \in [Threads -> Payment \cup {NULL}],
           \A u \in Threads \ {t} : payment'[u] = payment[u]
    PROVE  LedgerInd'
<1>1. AccountsInd'
  BY CloseKeeps DEF LedgerInd, TablesMove
<1>2. \A u \in Threads : /\ pc'[u] = IF u = t THEN "idle" ELSE pc[u]
                         /\ u # t => session'[u] = session[u]
  BY DEF Close, LedgerInd, AccountsInd
<1>3. HandlerInd(t)'
  BY <1>2 DEF HandlerInd, PostingInd
<1> QED BY <1>1, <1>2, <1>3, StepKeeps

LEMMA LedgerStepInd ==
    ASSUME LedgerInd, NEW t \in Threads, LedgerStep(t)
    PROVE  LedgerInd'
<1>m. TablesMove
  BY LedgerStepMoves
<1>1. CASE create_transaction(t)
  <2>1. PICK id \in Stored, p \in Payments :
             /\ accounts[id].status # "ARCHIVED"
             /\ Hold(t, "post_check", id, accounts[id], NoChange)
             /\ payment' = [payment EXCEPT ![t] = p]
             /\ UNCHANGED <<accounts, audit, transactions>>
    BY <1>1 DEF create_transaction
  <2>2. accounts[id] \in Account
    BY DEF Stored, LedgerInd, AccountsInd
  <2>3. IsSession([since |-> 0, target |-> id, seen |-> accounts[id], change |-> NoChange])
    BY <2>2 DEF IsSession, Stored, IsChange, NoChange
  <2>4. AccountsInd'
    BY <2>1, <2>3, HoldKeeps DEF LedgerInd, Hold
  <2>5. p \in Payment
    BY LedgerAssumption
  <2>6. \A u \in Threads : /\ pc'[u] = IF u = t THEN "post_check" ELSE pc[u]
                           /\ u # t => session'[u] = session[u]
                           /\ u # t => payment'[u] = payment[u]
    BY <2>1 DEF Hold, HoldSince, LedgerInd, AccountsInd
  <2>7. HandlerInd(t)'
    BY <2>1, <2>2, <2>5, <2>6 DEF HandlerInd, PostingInd, Hold, HoldSince, LedgerInd, AccountsInd,
       Stored
  <2>8. payment' \in [Threads -> Payment \cup {NULL}]
    BY <2>1, <2>5 DEF LedgerInd
  <2> QED BY <1>m, <2>4, <2>6, <2>7, <2>8, StepKeeps
<1>2. CASE post_check(t)
  <2>1. CASE ClosePost(t)
    BY <1>m, <2>1, ClosePostKeeps DEF ClosePost, LedgerInd
  <2>2. CASE pc' = [pc EXCEPT ![t] = "post_write"] /\ UNCHANGED <<session, payment>>
    <3>1. AccountsInd'
      BY <1>2, <2>2 DEF post_check, LedgerInd, AccountsInd, Stored
    <3>2. HandlerInd(t)'
      BY <1>2, <2>2 DEF post_check, LedgerInd, AccountsInd, HandlerInd, PostingInd, Stored
    <3> QED BY <1>m, <2>2, <3>1, <3>2, StepKeeps DEF LedgerInd, AccountsInd
  <2> QED BY <1>2, <2>1, <2>2 DEF post_check
<1>3. CASE post_write(t)
  BY <1>m, <1>3, ClosePostKeeps DEF post_write, ClosePost, LedgerInd
<1>4. CASE reconcile_account(t)
  <2>1. PICK id \in Stored, actual \in ActualBalances :
             /\ Hold(t, "reconcile_write", id, accounts[id], [balance |-> actual])
             /\ UNCHANGED <<accounts, audit, transactions, payment>>
    BY <1>4 DEF reconcile_account
  <2>2. accounts[id] \in Account
    BY DEF Stored, LedgerInd, AccountsInd
  <2>3. IsSession([since |-> 0, target |-> id, seen |-> accounts[id], change |-> [balance |-> actual]])
    BY <2>2, LedgerAssumption DEF IsSession, Stored, IsChange, Columns, ColumnValues
  <2>4. AccountsInd'
    BY <2>1, <2>3, HoldKeeps DEF LedgerInd, Hold
  <2>5. \A u \in Threads : /\ pc'[u] = IF u = t THEN "reconcile_write" ELSE pc[u]
                           /\ u # t => session'[u] = session[u]
    BY <2>1 DEF Hold, HoldSince, LedgerInd, AccountsInd
  <2>6. /\ session'[t].target = id /\ session'[t].seen = accounts[id]
        /\ DOMAIN session'[t].change = {"balance"}
    BY <2>1 DEF Hold, HoldSince, LedgerInd, AccountsInd
  <2>7. HandlerInd(t)'
    BY <2>1, <2>2, <2>5, <2>6 DEF HandlerInd, PostingInd, Stored
  <2> QED BY <1>m, <2>1, <2>4, <2>5, <2>7, StepKeeps DEF LedgerInd
<1>5. CASE reconcile_write(t)
  BY <1>m, <1>5, ClosePostKeeps DEF reconcile_write, LedgerInd
<1> QED BY <1>1, <1>2, <1>3, <1>4, <1>5 DEF LedgerStep

\* A step of an accounts handler moves no other handler, and leaves its own
\* outside posting and reconciling.
LEMMA AccountsStepOthers ==
    ASSUME AccountsInd, NEW t \in Threads, AccountsStep(t)
    PROVE  /\ pc'[t] \in AccountSteps
           /\ \A u \in Threads : u # t => pc'[u] = pc[u] /\ session'[u] = session[u]
BY DEF AccountsStep, create_account, create_insert, update_account, update_guard,
   update_write, archive_account, archive_write, Hold, HoldSince, Close, AccountsInd, AccountSteps

LEMMA AccountsStepKeepsLedger ==
    ASSUME LedgerInd, NEW t \in Threads, AccountsStep(t),
           UNCHANGED <<transactions, payment>>
    PROVE  LedgerInd'
<1>1. AccountsInd' /\ AccountsInd
  BY AccountsStepInd DEF LedgerInd
<1>2. \A id \in Stored : accounts'[id] # NULL
  BY <1>1, AccountsStepBalance
<1>3. \A id \in Stored' : Representable(accounts'[id].balance)
  BY <1>1, AccountsStepBalance DEF LedgerInd, Stored
<1>4. \A u \in Threads : HandlerInd(u)'
  <2>1. /\ pc'[t] \in AccountSteps
        /\ \A u \in Threads : u # t => pc'[u] = pc[u] /\ session'[u] = session[u]
    BY <1>1, AccountsStepOthers
  <2>2. HandlerInd(t)'
    BY <2>1 DEF HandlerInd, PostingInd, AccountSteps
  <2>3. ASSUME NEW u \in Threads, u # t PROVE HandlerInd(u)'
    BY <1>2, <2>1, <2>3, HandlerKept
  <2> QED BY <2>2, <2>3
<1> QED BY <1>1, <1>3, <1>4 DEF LedgerInd

\* Whatever the ledger does, the trail gains one well-formed event or none.
LEMMA LedgerNextInd ==
    ASSUME LedgerInd, [LedgerNext]_ledgerVars
    PROVE  /\ LedgerInd'
           /\ audit' = audit \/ \E e : IsLedgerEntry(e) /\ audit' = Append(audit, e)
<1>1. CASE UNCHANGED ledgerVars
  BY <1>1 DEF ledgerVars, LedgerInd, AccountsInd, HandlerInd, PostingInd, Stored
<1>2. ASSUME NEW t \in Threads, AccountsStep(t), UNCHANGED <<transactions, payment>>
      PROVE  /\ LedgerInd'
             /\ audit' = audit \/ \E e : IsLedgerEntry(e) /\ audit' = Append(audit, e)
  <2>1. audit' = audit \/ \E e : IsEntry(e) /\ audit' = Append(audit, e)
    BY <1>2, AccountsStepInd DEF LedgerInd
  <2> QED BY <1>2, <2>1, AccountsStepKeepsLedger DEF IsLedgerEntry
<1>3. ASSUME NEW t \in Threads, LedgerStep(t)
      PROVE  /\ LedgerInd'
             /\ audit' = audit \/ \E e : IsLedgerEntry(e) /\ audit' = Append(audit, e)
  <2>1. LedgerInd'
    BY <1>3, LedgerStepInd
  <2>2. audit' = audit \/ \E e : IsLedgerEntry(e) /\ Record(e)
    BY <1>3, LedgerStepMoves DEF TablesMove
  <2> QED BY <2>1, <2>2 DEF Record
<1> QED BY <1>1, <1>2, <1>3 DEF LedgerNext, AccountsNext

\* Type correctness of the ledger, the range of every stored balance included.
THEOREM LedgerTypeCorrect == LedgerSpec => []LedgerTypeOK
<1> DEFINE Inv == LedgerInd /\ LedgerTypeOK
<1>1. LedgerInit => Inv
  <2> SUFFICES ASSUME LedgerInit PROVE Inv
    OBVIOUS
  <2>1. LedgerInd
    BY LedgerInitInd
  <2> QED BY <2>1 DEF LedgerInit, AccountsInit, LedgerTypeOK, LedgerInd, AccountsInd,
          LedgerSteps, AccountSteps
<1>2. Inv /\ [LedgerNext]_ledgerVars => Inv'
  <2> SUFFICES ASSUME Inv, [LedgerNext]_ledgerVars PROVE Inv'
    OBVIOUS
  <2>1. /\ LedgerInd'
        /\ audit' = audit \/ \E e : IsLedgerEntry(e) /\ audit' = Append(audit, e)
    BY LedgerNextInd
  <2>2. \A i \in 1 .. Len(audit') : IsLedgerEntry(audit'[i])
    <3>1. IsSeq(audit) /\ \A i \in 1 .. Len(audit) : IsLedgerEntry(audit[i])
      BY DEF LedgerTypeOK, LedgerInd, AccountsInd
    <3>2. ASSUME NEW e, IsLedgerEntry(e), audit' = Append(audit, e)
          PROVE  \A i \in 1 .. Len(audit') : IsLedgerEntry(audit'[i])
      <4>1. /\ Len(audit) \in Nat /\ Len(audit') = Len(audit) + 1
            /\ \A i \in 1 .. Len(audit) : audit'[i] = audit[i]
            /\ audit'[Len(audit) + 1] = e
        BY <3>1, <3>2, AppendToSeq
      <4> QED BY <3>1, <3>2, <4>1
    <3> QED BY <2>1, <3>1, <3>2
  <2>3. pc' \in [Threads -> LedgerSteps]
    <3>1. CASE UNCHANGED ledgerVars
      BY <3>1 DEF ledgerVars, LedgerTypeOK
    <3>2. ASSUME NEW t \in Threads, AccountsStep(t) \/ LedgerStep(t)
          PROVE  \E next \in LedgerSteps : pc' = [pc EXCEPT ![t] = next]
      BY <3>2 DEF AccountsStep, create_account, create_insert, update_account,
         update_guard, update_write, archive_account, archive_write, LedgerStep,
         create_transaction, post_check, post_write, reconcile_account,
         reconcile_write, ClosePost, Hold, HoldSince, Close, LedgerSteps, AccountSteps
    <3> QED BY <3>1, <3>2 DEF LedgerNext, AccountsNext, LedgerTypeOK
  <2> QED BY <2>1, <2>2, <2>3 DEF LedgerInd, AccountsInd, LedgerTypeOK
<1> QED BY <1>1, <1>2, PTL DEF LedgerSpec

-----------------------------------------------------------------------------
(* Postings.                                                               *)

\* A row whose fingerprint nobody has may be appended.
LEMMA NewPosting ==
    ASSUME NoDoublePosting, transactions \in Seq(Transaction),
           NEW e, transactions' = Append(transactions, e), ~Posted(e)
    PROVE  NoDoublePosting'
<1>1. \A i \in 1 .. Len(transactions) : Fingerprint(transactions[i]) # Fingerprint(e)
  BY DEF Posted
<1>2. /\ Len(transactions) \in Nat /\ Len(transactions') = Len(transactions) + 1
      /\ \A i \in 1 .. Len(transactions) : transactions'[i] = transactions[i]
      /\ transactions'[Len(transactions) + 1] = e
  OBVIOUS
<1>3. SUFFICES ASSUME NEW i \in 1 .. Len(transactions'), NEW j \in 1 .. Len(transactions'),
                      Fingerprint(transactions'[i]) = Fingerprint(transactions'[j])
               PROVE  i = j
  BY DEF NoDoublePosting, Fingerprint
<1>4. CASE i \in 1 .. Len(transactions) /\ j \in 1 .. Len(transactions)
  BY <1>2, <1>3, <1>4 DEF NoDoublePosting
<1>5. CASE i = Len(transactions) + 1 \/ j = Len(transactions) + 1
  BY <1>1, <1>2, <1>3, <1>5
<1> QED BY <1>2, <1>4, <1>5

\* No fingerprint is posted twice, whatever interleaves: the pre-check is only
\* an early answer, the index decides.
THEOREM LedgerNoDoublePosting == LedgerSpec => []NoDoublePosting
<1> DEFINE Inv == LedgerInd /\ NoDoublePosting
<1>1. LedgerInit => Inv
  BY LedgerInitInd DEF LedgerInit, NoDoublePosting
<1>2. Inv /\ [LedgerNext]_ledgerVars => Inv'
  <2> SUFFICES ASSUME Inv, [LedgerNext]_ledgerVars PROVE Inv'
    OBVIOUS
  <2>1. LedgerInd'
    BY LedgerNextInd
  <2>2. CASE UNCHANGED transactions
    BY <2>1, <2>2 DEF NoDoublePosting, Fingerprint
  <2>3. ASSUME NEW t \in Threads, post_write(t), ~PostFails(t), PostEffect(t)
        PROVE  NoDoublePosting'
    BY <2>3, NewPosting DEF PostFails, PostEffect, LedgerInd
  <2>4. \/ UNCHANGED transactions
        \/ \E t \in Threads : post_write(t) /\ ~PostFails(t) /\ PostEffect(t)
    BY DEF LedgerNext, LedgerStep, create_transaction, post_check, post_write,
       reconcile_account, reconcile_write, ledgerVars
  <2> QED BY <2>1, <2>2, <2>3, <2>4
<1> QED BY <1>1, <1>2, PTL DEF LedgerSpec

-----------------------------------------------------------------------------
(* The audit trail with posting and reconciliation running.                *)

LEMMA LedgerStepSince ==
    ASSUME LedgerInd, SinceInd, NEW t \in Threads, LedgerStep(t)
    PROVE  SinceInd'
<1>1. AccountsInd /\ AccountsInd'
  BY LedgerStepInd DEF LedgerInd
<1>2. audit' = audit \/ \E e : Record(e)
  BY LedgerStepMoves DEF TablesMove
<1>3. 0 \in Began
  BY <1>1, AccountsAssumption DEF Began, AccountsInd, IsSeq
<1>4. \A u \in Threads : session'[u].since \in {session[u].since} \cup Began
  BY <1>1, <1>3 DEF LedgerStep, create_transaction, post_check, post_write, reconcile_account,
     reconcile_write, ClosePost, Hold, HoldSince, Close, NoSession, AccountsInd
<1> QED BY <1>1, <1>2, <1>4, SinceKept

LEMMA LedgerStepTrail ==
    ASSUME LedgerInd, TrailInd, TrailTells, NEW t \in Threads, LedgerStep(t)
    PROVE  TrailInd' /\ TrailTells'
<1>1. TablesMove /\ AccountsInd
  BY LedgerStepMoves DEF LedgerInd
<1>2. CASE audit' = audit /\ \A id \in Stored : accounts'[id] = accounts[id]
  BY <1>1, <1>2 DEF TrailInd, TrailTells, Telling, Stored, Tells, Told, TablesMove
<1>3. ASSUME NEW e, Record(e), e.event \in {"TransactionCreated", "BalanceReconciled"},
             e.since = 0
      PROVE  TrailInd' /\ TrailTells'
  <2>1. \A id \in AccountIds, f \in UPDATABLE_FIELDS : ~Tells(e, id, f)
    BY <1>3 DEF Tells
  <2>2. /\ \A id \in Stored : accounts'[id] # NULL
        /\ \A id \in Stored, f \in UPDATABLE_FIELDS : accounts'[id][f] = accounts[id][f]
    BY <1>1 DEF TablesMove
  <2>3. e.since \in 0 .. Len(audit)
    BY <1>1, <1>3, AppendToSeq DEF AccountsInd
  <2> QED BY <1>1, <1>3, <2>1, <2>2, <2>3, TrailExtends
<1> QED BY <1>1, <1>2, <1>3 DEF TablesMove

\* Posting and reconciling move balances and nothing the trail tells of, so the
\* trail still tells every edited column.
THEOREM LedgerTrailTells == LedgerSpec => []TrailTells
<1> DEFINE Inv == LedgerInd /\ SinceInd /\ TrailInd /\ TrailTells
<1>1. LedgerInit => Inv
  BY LedgerInitInd, TrailInit DEF LedgerInit
<1>2. Inv /\ [LedgerNext]_ledgerVars => Inv'
  <2> SUFFICES ASSUME Inv, [LedgerNext]_ledgerVars PROVE Inv'
    OBVIOUS
  <2>1. LedgerInd'
    BY LedgerNextInd
  <2>2. CASE UNCHANGED ledgerVars
    BY <2>1, <2>2 DEF ledgerVars, Stored, SinceInd, TrailInd, TrailTells, Telling, Tells, Told
  <2>3. ASSUME NEW t \in Threads, AccountsStep(t) PROVE Inv'
    BY <2>1, <2>3, AccountsStepSince, AccountsStepTrail DEF LedgerInd
  <2>4. ASSUME NEW t \in Threads, LedgerStep(t) PROVE Inv'
    BY <2>1, <2>4, LedgerStepSince, LedgerStepTrail
  <2> QED BY <2>2, <2>3, <2>4 DEF LedgerNext, AccountsNext
<1> QED BY <1>1, <1>2, PTL DEF LedgerSpec

\* A posting or a reconciliation starts and ends no edit.
LEMMA LedgerStepEditing ==
    ASSUME LedgerInd, NEW t \in Threads, LedgerStep(t)
    PROVE  \A u \in Threads : pc'[u] \in Editing =>
              pc[u] \in Editing /\ session'[u] = session[u]
BY DEF LedgerStep, create_transaction, post_check, post_write, reconcile_account,
   reconcile_write, ClosePost, Hold, HoldSince, Close, Editing, LedgerInd, AccountsInd

LEMMA LedgerStepHeld ==
    ASSUME LedgerInd, SinceInd, TrailInd, HeldInd, OldWasStored,
           NEW t \in Threads, LedgerStep(t)
    PROVE  HeldInd' /\ OldWasStored'
<1>1. TablesMove /\ AccountsInd
  BY LedgerStepMoves DEF LedgerInd
<1>2. \A u \in Threads : pc'[u] \in Editing =>
          pc[u] \in Editing /\ session'[u] = session[u]
  BY LedgerStepEditing
<1>3. \A id \in Stored : /\ accounts'[id] # NULL
                         /\ \A f \in UPDATABLE_FIELDS : accounts'[id][f] = accounts[id][f]
  BY <1>1 DEF TablesMove
<1>4. CASE audit' = audit
  <2>1. \A id \in AccountIds : accounts'[id] # NULL <=> id \in Stored
    BY <1>1, <1>3 DEF TablesMove, Stored
  <2> QED BY <1>2, <1>3, <1>4, <2>1 DEF HeldInd, OldWasStored, Stored
<1>5. ASSUME NEW e, Record(e), e.event \in {"TransactionCreated", "BalanceReconciled"},
             e.since = 0
      PROVE  HeldInd' /\ OldWasStored'
  <2>1. \A id \in AccountIds, f \in UPDATABLE_FIELDS : ~Tells(e, id, f)
    BY <1>5 DEF Tells
  <2>2. e.since \in Nat /\ e.event # "AccountUpdated"
    BY <1>5
  <2> QED BY <1>1, <1>2, <1>3, <1>5, <2>1, <2>2, RecordHeld
<1> QED BY <1>1, <1>4, <1>5 DEF TablesMove

\* The audited old values keep that with postings and reconciliations running.
THEOREM LedgerOldWasStored == LedgerSpec => []OldWasStored
<1> DEFINE Inv == LedgerInd /\ SinceInd /\ TrailInd /\ TrailTells /\ HeldInd /\ OldWasStored
<1>1. LedgerInit => Inv
  BY LedgerInitInd, TrailInit, HeldInit DEF LedgerInit
<1>2. Inv /\ [LedgerNext]_ledgerVars => Inv'
  <2> SUFFICES ASSUME Inv, [LedgerNext]_ledgerVars PROVE Inv'
    OBVIOUS
  <2>1. LedgerInd'
    BY LedgerNextInd
  <2>2. CASE UNCHANGED ledgerVars
    BY <2>1, <2>2 DEF ledgerVars, Stored, SinceInd, TrailInd, TrailTells, Telling, Tells,
       Told, HeldInd, OldWasStored
  <2>3. ASSUME NEW t \in Threads, AccountsStep(t) PROVE Inv'
    BY <2>1, <2>3, AccountsStepSince, AccountsStepTrail, AccountsStepHeld DEF LedgerInd
  <2>4. ASSUME NEW t \in Threads, LedgerStep(t) PROVE Inv'
    BY <2>1, <2>4, LedgerStepSince, LedgerStepTrail, LedgerStepHeld
  <2> QED BY <2>2, <2>3, <2>4 DEF LedgerNext, AccountsNext
<1> QED BY <1>1, <1>2, PTL DEF LedgerSpec

-----------------------------------------------------------------------------
(* What a step may do to an account.                                       *)

LEMMA LedgerInvariant == LedgerSpec => []LedgerInd
BY LedgerInitInd, LedgerNextInd, PTL DEF LedgerSpec

\* The constraint holds in the presence of postings and reconciliations, which
\* never touch what identifies an account.
THEOREM LedgerUniqueIdentity == LedgerSpec => []UniqueIdentity
<1>1. LedgerInit => UniqueIdentity
  BY AccountsAssumption DEF LedgerInit, AccountsInit, UniqueIdentity, Stored
<1>2. LedgerInd /\ UniqueIdentity /\ [LedgerNext]_ledgerVars => UniqueIdentity'
  <2> SUFFICES ASSUME LedgerInd, UniqueIdentity, [LedgerNext]_ledgerVars
               PROVE  UniqueIdentity'
    OBVIOUS
  <2>1. CASE UNCHANGED ledgerVars
    BY <2>1 DEF ledgerVars, UniqueIdentity, Stored
  <2>2. ASSUME NEW t \in Threads, AccountsStep(t) PROVE UniqueIdentity'
    BY <2>2, AccountsStepUnique DEF LedgerInd
  <2>3. ASSUME NEW t \in Threads, LedgerStep(t) PROVE UniqueIdentity'
    <3>1. /\ \A id \in Stored : \A f \in UPDATABLE_FIELDS : accounts'[id][f] = accounts[id][f]
          /\ \A id \in AccountIds \ Stored : accounts'[id] = NULL
      BY <2>3, LedgerStepMoves DEF TablesMove
    <3>2. \A id \in Stored' : /\ id \in Stored
                              /\ Identity(accounts'[id]) = Identity(accounts[id])
                              /\ Indexed(accounts'[id]) = Indexed(accounts[id])
      BY <3>1 DEF Stored, Identity, Indexed, UPDATABLE_FIELDS
    <3> QED BY <3>2 DEF UniqueIdentity
  <2> QED BY <2>1, <2>2, <2>3 DEF LedgerNext, AccountsNext
<1> QED BY <1>1, <1>2, LedgerInvariant, PTL DEF LedgerSpec

\* Handler t commits an edit or an archive of account id.
Commits(t, id) ==
    LET s == session[t]
    IN  /\ s.target = id
        /\ \/ /\ pc[t] = "update_write"
              /\ Record(Entry("AccountUpdated", s.since, id,
                              [f \in DOMAIN s.change |-> s.seen[f]], s.change))
           \/ /\ pc[t] = "archive_write"
              /\ Record(Entry("AccountArchived", s.since, id, NoChange, NoChange))

\* A column a user can edit changes in no other way.
LEMMA EditsCommit ==
    ASSUME LedgerInd, [LedgerNext]_ledgerVars, NEW id \in Stored,
           NEW f \in UPDATABLE_FIELDS, accounts'[id][f] # accounts[id][f]
    PROVE  \E t \in Threads : /\ Commits(t, id)
                              /\ f \in DOMAIN session[t].change
                              /\ accounts'[id][f] = session[t].change[f]
<1>1. accounts # accounts'
  OBVIOUS
<1>2. ASSUME NEW t \in Threads, LedgerStep(t) PROVE FALSE
  BY <1>2, LedgerStepMoves DEF TablesMove
<1>3. PICK t \in Threads : create_insert(t) \/ update_write(t) \/ archive_write(t)
  BY <1>1, <1>2 DEF LedgerNext, AccountsNext, AccountsStep, create_account, update_account,
     update_guard, archive_account, ledgerVars
<1>4. CASE create_insert(t)
  BY <1>4 DEF create_insert, LedgerInd, AccountsInd, Stored
<1> DEFINE s == session[t]
           row == Write(accounts[s.target], s.change)
<1>5. CASE update_write(t) \/ archive_write(t)
  <2>1. /\ accounts' = [accounts EXCEPT ![s.target] = row]
        /\ s.target \in Stored /\ accounts[s.target] \in Account
        /\ accounts \in [AccountIds -> Account \cup {NULL}]
    BY <1>1, <1>5 DEF update_write, archive_write, LedgerInd, AccountsInd, Stored
  <2>2. s.target = id /\ accounts'[id] = row
    BY <2>1 DEF Stored
  <2>3. DOMAIN accounts[id] = Columns
    BY <2>1, <2>2 DEF Account, Columns
  <2>4. f \in DOMAIN s.change /\ row[f] = s.change[f]
    BY <2>2, <2>3 DEF Write, Columns, UPDATABLE_FIELDS
  <2>5. Commits(t, id)
    BY <1>1, <1>5, <2>2 DEF update_write, archive_write, Commits
  <2> QED BY <2>2, <2>4, <2>5
<1> QED BY <1>3, <1>4, <1>5

\* Every edit of a column leaves its trace in the same commit.
THEOREM LedgerNoUnauditedEdit == LedgerSpec => NoUnauditedEdit
<1> DEFINE Audited ==
        \A id \in Stored, f \in UPDATABLE_FIELDS :
            accounts'[id][f] # accounts[id][f] =>
                /\ Len(audit') = Len(audit) + 1
                /\ Tells(audit'[Len(audit')], id, f)
<1>1. LedgerInd /\ [LedgerNext]_ledgerVars => [Audited]_accountVars
  <2> SUFFICES ASSUME LedgerInd, [LedgerNext]_ledgerVars, NEW id \in Stored,
                      NEW f \in UPDATABLE_FIELDS, accounts'[id][f] # accounts[id][f]
               PROVE  /\ Len(audit') = Len(audit) + 1
                      /\ Tells(audit'[Len(audit')], id, f)
    BY Zenon
  <2>1. PICK t \in Threads : Commits(t, id) /\ f \in DOMAIN session[t].change
    BY EditsCommit
  <2>2. PICK e : /\ Record(e) /\ e.entity = id
                 /\ \/ e.event = "AccountUpdated" /\ e.new = session[t].change
                    \/ /\ e.event = "AccountArchived"
                       /\ session[t].change = [status |-> "ARCHIVED"]
    BY <2>1 DEF Commits, Entry, LedgerInd, AccountsInd
  <2>3. Tells(e, id, f)
    BY <2>1, <2>2 DEF Tells
  <2> QED BY <2>2, <2>3, AppendToSeq DEF Record, LedgerInd, AccountsInd
<1> QED BY <1>1, LedgerInvariant, PTL DEF LedgerSpec, NoUnauditedEdit

\* What an edit in progress changes differs from the copy it was decided on, and
\* a new status is an edge from the status of that copy.
EditInd ==
    \A t \in Threads : pc[t] \in {"update_guard", "update_write"} =>
        LET s == session[t]
        IN  "status" \in DOMAIN s.change =>
                /\ s.change.status # s.seen.status
                /\ s.change.status \in ALLOWED_STATUS_TRANSITIONS[s.seen.status]

LEMMA EditNextInd ==
    ASSUME LedgerInd, EditInd, [LedgerNext]_ledgerVars
    PROVE  EditInd'
<1>1. CASE UNCHANGED ledgerVars
  BY <1>1 DEF ledgerVars, EditInd
<1>2. ASSUME NEW t \in Threads, update_account(t) PROVE EditInd'
  <2>1. PICK id \in Stored, patch \in Patches, n \in Began,
             next \in {"update_guard", "update_write"} :
             /\ HoldSince(t, n, next, id, accounts[id], Differing(accounts[id], patch))
             /\ StatusAllowed(accounts[id].status, patch)
    BY <1>2, Zenon DEF update_account
  <2> DEFINE c == Differing(accounts[id], patch)
  <2>2. "status" \in DOMAIN c =>
            /\ c.status # accounts[id].status
            /\ c.status \in ALLOWED_STATUS_TRANSITIONS[accounts[id].status]
    BY <2>1 DEF Differing, StatusAllowed
  <2> HIDE DEF c
  <2>3. \A u \in Threads :
            IF u = t THEN session'[u].seen = accounts[id] /\ session'[u].change = c
            ELSE pc'[u] = pc[u] /\ session'[u] = session[u]
    BY <2>1 DEF Hold, HoldSince, LedgerInd, AccountsInd, c
  <2> QED BY <2>2, <2>3 DEF EditInd
<1>3. ASSUME NEW t \in Threads, update_guard(t) PROVE EditInd'
  BY <1>3 DEF update_guard, Close, EditInd, LedgerInd, AccountsInd
<1>4. ASSUME NEW t \in Threads, ~update_account(t), ~update_guard(t),
             AccountsStep(t) \/ LedgerStep(t)
      PROVE  EditInd'
  <2>1. \A u \in Threads : /\ u # t => pc'[u] = pc[u] /\ session'[u] = session[u]
                           /\ u = t => pc'[u] \notin {"update_guard", "update_write"}
    BY <1>4 DEF AccountsStep, create_account, create_insert, update_write, archive_account,
       archive_write, LedgerStep, create_transaction, post_check, post_write,
       reconcile_account, reconcile_write, ClosePost, Hold, HoldSince, Close, LedgerInd, AccountsInd
  <2> QED BY <2>1 DEF EditInd
<1> QED BY <1>1, <1>2, <1>3, <1>4 DEF LedgerNext, AccountsNext

LEMMA EditInvariant == LedgerSpec => []EditInd
<1>1. LedgerInit => EditInd
  BY DEF LedgerInit, AccountsInit, EditInd
<1> QED BY <1>1, EditNextInd, LedgerInvariant, PTL DEF LedgerSpec

\* Whatever overlaps, an archived account comes back by one kind of step only: a
\* PATCH of the status that was decided on a copy from before the archive.
THEOREM LedgerOnlyStalePatchRevives == LedgerSpec => OnlyStalePatchRevives
<1> DEFINE Revived ==
        \A id \in Stored :
            accounts[id].status = "ARCHIVED" /\ accounts'[id].status # "ARCHIVED" =>
                \E t \in Threads : /\ pc[t] = "update_write"
                                   /\ session[t].target = id
                                   /\ session[t].seen.status # "ARCHIVED"
                                   /\ "status" \in DOMAIN session[t].change
                                   /\ session[t].change.status # session[t].seen.status
<1>1. LedgerInd /\ EditInd /\ [LedgerNext]_ledgerVars => [Revived]_accountVars
  <2> SUFFICES ASSUME LedgerInd, EditInd, [LedgerNext]_ledgerVars, NEW id \in Stored,
                      accounts[id].status = "ARCHIVED", accounts'[id].status # "ARCHIVED"
               PROVE  \E t \in Threads : /\ pc[t] = "update_write"
                                         /\ session[t].target = id
                                         /\ session[t].seen.status # "ARCHIVED"
                                         /\ "status" \in DOMAIN session[t].change
                                         /\ session[t].change.status # session[t].seen.status
    BY Zenon
  <2>1. PICK t \in Threads : /\ Commits(t, id)
                             /\ "status" \in DOMAIN session[t].change
                             /\ accounts'[id].status = session[t].change.status
    BY EditsCommit DEF UPDATABLE_FIELDS
  <2>2. pc[t] = "update_write" /\ session[t].target = id
    BY <2>1 DEF Commits, LedgerInd, AccountsInd
  <2>3. session[t].seen.status # "ARCHIVED"
    BY <2>2 DEF LedgerInd, AccountsInd
  <2> QED BY <2>1, <2>2, <2>3 DEF EditInd
<1> QED BY <1>1, LedgerInvariant, EditInvariant, PTL DEF LedgerSpec, OnlyStalePatchRevives

-----------------------------------------------------------------------------
(* The steps in which the ledger departs from the abstract one.            *)

\* A row of the abstract book shows the row of the table.
LEMMA BookShows ==
    ASSUME LedgerInd, NEW id \in AccountIds
    PROVE  /\ Book[id] = NULL <=> accounts[id] = NULL
           /\ accounts[id] # NULL =>
                 /\ Book[id].type = accounts[id].type
                 /\ Book[id].status = accounts[id].status
                 /\ Book[id].balance = accounts[id].balance
<1>1. accounts[id] # NULL =>
         [type |-> accounts[id].type, status |-> accounts[id].status,
          balance |-> accounts[id].balance] # NULL
  BY LedgerAssumption DEF LedgerInd, AccountsInd, Account
<1> QED BY <1>1 DEF Book

\* Replacing one row of the table replaces one row of the book.
LEMMA BookOnly ==
    ASSUME LedgerInd, NEW id \in AccountIds, NEW row,
           accounts' = [accounts EXCEPT ![id] = row]
    PROVE  Abstract!Only(id) /\ accounts'[id] = row
BY DEF Abstract!Only, Book, LedgerInd, AccountsInd

\* The book after a row of it was replaced.
LEMMA BookReplaced ==
    ASSUME LedgerInd, NEW id \in Stored, NEW row \in Account,
           accounts' = [accounts EXCEPT ![id] = row]
    PROVE  /\ Abstract!Only(id) /\ Book[id] # NULL /\ Book'[id] # NULL
           /\ Book[id].type = accounts[id].type /\ Book[id].status = accounts[id].status
           /\ Book[id].balance = accounts[id].balance
           /\ Book'[id].type = row.type /\ Book'[id].status = row.status
           /\ Book'[id].balance = row.balance
<1>1. id \in AccountIds /\ accounts[id] # NULL
  BY DEF Stored
<1>2. row # NULL
  BY AccountsAssumption
<1>3. Abstract!Only(id) /\ accounts'[id] = row
  BY <1>1, BookOnly
<1>4. /\ Book'[id] # NULL
      /\ Book'[id].type = row.type /\ Book'[id].status = row.status
      /\ Book'[id].balance = row.balance
  BY <1>1, <1>2, <1>3, LedgerAssumption DEF Book, Account
<1> QED BY <1>1, <1>3, <1>4, BookShows

\* A flush of one balance is the abstract SetBalance, to that balance when the
\* copy it is compared with has the stored one.
LEMMA FlushSets ==
    ASSUME LedgerInd, NEW id \in Stored, NEW seen \in Account, NEW b \in Int,
           Representable(b),
           accounts' = [accounts EXCEPT ![id] = FlushBalance(accounts[id], seen, b)]
    PROVE  /\ Abstract!SetBalance(id, Book'[id].balance)
           /\ seen.balance = accounts[id].balance => Book'[id].balance = b
<1> DEFINE row == FlushBalance(accounts[id], seen, b)
<1>1. accounts[id] \in Account /\ Representable(accounts[id].balance)
  BY DEF LedgerInd, AccountsInd, Stored
<1>2. /\ row \in Account /\ row.type = accounts[id].type /\ row.status = accounts[id].status
      /\ row.balance = IF seen.balance = b THEN accounts[id].balance ELSE b
  <2>1. PICK old \in Account : old = accounts[id]
    BY <1>1
  <2>2. /\ FlushBalance(old, seen, b) \in Account
        /\ FlushBalance(old, seen, b).type = old.type
        /\ FlushBalance(old, seen, b).status = old.status
        /\ FlushBalance(old, seen, b).balance = IF seen.balance = b THEN old.balance ELSE b
    BY BalanceWrite
  <2> QED BY <2>1, <2>2
<1> HIDE DEF row
<1>3. /\ Abstract!Only(id) /\ Book[id] # NULL /\ Book'[id] # NULL
      /\ Book[id].type = accounts[id].type /\ Book[id].status = accounts[id].status
      /\ Book'[id].type = row.type /\ Book'[id].status = row.status
      /\ Book'[id].balance = row.balance
  BY <1>2, BookReplaced DEF row
<1>4. Representable(row.balance)
  BY <1>1, <1>2
<1> QED BY <1>2, <1>3, <1>4 DEF Abstract!SetBalance, Representable, Abstract!Representable

LEMMA OpenRefines ==
    ASSUME LedgerInd, NEW t \in Threads, create_insert(t), UNCHANGED transactions
    PROVE  [Abstract!AbstractNext]_<<Book, transactions>>
<1>1. CASE UNCHANGED accounts
  BY <1>1 DEF Book
<1>2. ASSUME NEW id \in AccountIds \ Stored,
             accounts' = [accounts EXCEPT ![id] = session[t].change]
      PROVE  Abstract!Open(id)
  <2> DEFINE row == session[t].change
  <2>1. row \in Account
    BY DEF create_insert, LedgerInd, AccountsInd
  <2>2. Abstract!Only(id) /\ accounts'[id] = row
    BY <1>2, BookOnly
  <2>3. Book[id] = NULL
    BY BookShows DEF Stored
  <2>4. Book'[id] # NULL
    BY <2>1, <2>2, AccountsAssumption, LedgerAssumption DEF Book, Account
  <2> QED BY <2>2, <2>3, <2>4 DEF Abstract!Open
<1> QED BY <1>1, <1>2 DEF create_insert, Abstract!AbstractNext

\* A handler that is not overtaken decided its edit on the status of the row it
\* writes; an archive is legal from every status but its own, which it repeats.
LEMMA EditRefines ==
    ASSUME LedgerInd, EditInd, NEW t \in Threads, ~Overtaken(t),
           update_write(t) \/ archive_write(t), UNCHANGED transactions
    PROVE  [Abstract!AbstractNext]_<<Book, transactions>>
<1> DEFINE s == session[t]
           id == s.target
           row == Write(accounts[id], s.change)
<1>1. CASE UNCHANGED accounts
  BY <1>1 DEF Book
<1>2. CASE accounts' = [accounts EXCEPT ![id] = row]
  <2>1. /\ id \in Stored /\ id \in AccountIds
        /\ accounts[id] \in Account /\ DOMAIN accounts[id] = Columns
        /\ IsChange(s.change) /\ DOMAIN s.change \subseteq UPDATABLE_FIELDS
        /\ s.seen.status # "ARCHIVED"
    BY DEF update_write, archive_write, LedgerInd, AccountsInd, Stored, IsSession, Account,
       Columns
  <2>2. row \in Account
    BY <2>1, WriteTyped
  <2>3. /\ row.balance = accounts[id].balance
        /\ row.type = IF "type" \in DOMAIN s.change THEN s.change.type ELSE accounts[id].type
        /\ row.status = IF "status" \in DOMAIN s.change THEN s.change.status
                                                        ELSE accounts[id].status
    BY <2>1 DEF Write, UPDATABLE_FIELDS, Columns
  <2> HIDE DEF row
  <2>4. /\ Abstract!Only(id) /\ Book[id] # NULL /\ Book'[id] # NULL
        /\ Book[id].type = accounts[id].type /\ Book[id].status = accounts[id].status
        /\ Book[id].balance = accounts[id].balance
        /\ Book'[id].type = row.type /\ Book'[id].status = row.status
        /\ Book'[id].balance = row.balance
    BY <1>2, <2>1, <2>2, BookReplaced
  <2>5. accounts[id].status # "ARCHIVED"
        /\ row.status \in {accounts[id].status}
                              \cup ALLOWED_STATUS_TRANSITIONS[accounts[id].status]
        => Abstract!Edit(id)
    BY <2>3, <2>4 DEF Abstract!Edit
  <2>6. CASE update_write(t)
    <3>1. accounts[id].status = s.seen.status
      BY <2>6 DEF Overtaken, update_write
    <3>2. "status" \in DOMAIN s.change =>
              s.change.status \in ALLOWED_STATUS_TRANSITIONS[s.seen.status]
      BY <2>6 DEF EditInd, update_write
    <3> QED BY <2>1, <2>3, <2>5, <3>1, <3>2 DEF Abstract!AbstractNext
  <2>7. CASE archive_write(t)
    <3>1. s.change = [status |-> "ARCHIVED"]
      BY <2>7 DEF archive_write, LedgerInd, AccountsInd
    <3>2. row.status = "ARCHIVED" /\ row.type = accounts[id].type
      BY <2>3, <3>1
    <3>3. CASE accounts[id].status # "ARCHIVED"
      <4>1. "ARCHIVED" \in ALLOWED_STATUS_TRANSITIONS[accounts[id].status]
        BY <2>1, <3>3 DEF Account, AccountStatus, ALLOWED_STATUS_TRANSITIONS
      <4> QED BY <2>1, <2>5, <3>2, <3>3, <4>1 DEF Abstract!AbstractNext
    <3>4. CASE accounts[id].status = "ARCHIVED"
      <4>1. \A a \in AccountIds : accounts'[a] = IF a = id THEN row ELSE accounts[a]
        BY <1>2, <2>1 DEF LedgerInd, AccountsInd
      <4>2. accounts[id] # NULL /\ row # NULL
        BY <2>1, <2>2, AccountsAssumption DEF Stored
      <4>3. Book' = Book
        BY <2>3, <3>2, <3>4, <4>1, <4>2 DEF Book
      <4> QED BY <4>3
    <3> QED BY <3>3, <3>4
  <2> QED BY <2>6, <2>7
<1> QED BY <1>1, <1>2 DEF update_write, archive_write

LEMMA PostRefines ==
    ASSUME LedgerInd, NEW t \in Threads, ~Overtaken(t), post_write(t)
    PROVE  [Abstract!AbstractNext]_<<Book, transactions>>
<1>1. CASE UNCHANGED <<accounts, transactions>>
  BY <1>1 DEF Book
<1>2. CASE ~PostFails(t) /\ PostEffect(t)
  <2> DEFINE e == Pending(t)
             id == session[t].target
             seen == session[t].seen
             b == AppliedBalance(t)
             p == payment[t]
  <2>1. /\ PostingInd(t) /\ id \in Stored /\ id \in AccountIds /\ accounts[id] # NULL
        /\ seen \in Account
        /\ seen.type = accounts[id].type /\ seen.status = accounts[id].status
        /\ seen.balance = accounts[id].balance
    BY DEF post_write, LedgerInd, HandlerInd, PostingInd, Overtaken, Stored
  <2>2. e \in Transaction /\ b \in Int
    BY <2>1, PendingTyped
  <2>3. /\ e.account = id /\ e.amount = p.amount /\ e.direction = p.direction
        /\ e.raw = p.raw
    BY DEF Pending, RowOf
  <2>4. /\ transactions \in Seq(Transaction) /\ transactions' = Append(transactions, e)
        /\ Representable(b)
        /\ \A i \in 1 .. Len(transactions) : Fingerprint(transactions[i]) # Fingerprint(e)
    BY <1>2 DEF PostFails, PostEffect, Posted, LedgerInd
  <2>5. accounts' = [accounts EXCEPT ![id] = FlushBalance(accounts[id], seen, b)]
    BY <1>2 DEF PostEffect
  <2>6. /\ Book[id].type = accounts[id].type /\ Book[id].status = accounts[id].status
        /\ Book[id].balance = accounts[id].balance
    BY <2>1, BookShows
  <2>7. b = Book[id].balance + Abstract!balance_delta(e.amount, e.direction, Book[id].type)
    BY <2>1, <2>3, <2>6 DEF AppliedBalance, balance_delta, Abstract!balance_delta,
       LIABILITY_ACCOUNT_TYPES, Abstract!LIABILITY_ACCOUNT_TYPES
  <2>8. Book[id].status = "ARCHIVED" => e.raw # NULL
    BY <2>1, <2>3, <2>6 DEF PostingInd
  <2> HIDE DEF e, id, b, p, seen
  <2>9. Abstract!SetBalance(id, b)
    BY <2>1, <2>2, <2>4, <2>5, FlushSets
  <2>10. Abstract!Post(e)
    BY <2>3, <2>4, <2>7, <2>8, <2>9 DEF Abstract!Post, Abstract!Fingerprint, Fingerprint
  <2>11. Len(transactions') > Len(transactions) /\ transactions'[Len(transactions')] = e
    BY <2>2, <2>4
  <2> QED BY <2>10, <2>11 DEF Abstract!AbstractNext
<1> QED BY <1>1, <1>2 DEF post_write

\* A reconciliation sets the balance whatever its copy says.
LEMMA ReconcileRefines ==
    ASSUME LedgerInd, NEW t \in Threads, reconcile_write(t)
    PROVE  [Abstract!AbstractNext]_<<Book, transactions>>
<1> DEFINE s == session[t]
           b == s.change.balance
<1>1. CASE UNCHANGED accounts
  BY <1>1 DEF Book, reconcile_write
<1>2. CASE /\ Representable(b)
           /\ accounts' = [accounts EXCEPT ![s.target] =
                  FlushBalance(accounts[s.target], s.seen, b)]
  <2>1. /\ s.target \in Stored /\ s.target \in AccountIds /\ s.seen \in Account
        /\ DOMAIN s.change = {"balance"} /\ IsChange(s.change)
    BY DEF reconcile_write, LedgerInd, HandlerInd, AccountsInd, IsSession, Stored
  <2>2. b \in Int
    BY <2>1 DEF IsChange, ColumnValues
  <2>3. Abstract!SetBalance(s.target, Book'[s.target].balance)
    <3>1. PICK a \in Stored, seen \in Account, w \in Int :
              a = s.target /\ seen = s.seen /\ w = b
      BY <2>1, <2>2
    <3>2. /\ Representable(w)
          /\ accounts' = [accounts EXCEPT ![a] = FlushBalance(accounts[a], seen, w)]
      BY <1>2, <3>1
    <3>3. Abstract!SetBalance(a, Book'[a].balance)
      BY <3>2, FlushSets
    <3> QED BY <3>1, <3>3
  <2>4. Abstract!Reconcile(s.target)
    BY <2>3 DEF Abstract!Reconcile, reconcile_write
  <2> QED BY <2>1, <2>4 DEF Abstract!AbstractNext
<1> QED BY <1>1, <1>2 DEF reconcile_write

\* For any number of handlers: the ledger is the abstract one but in the write of
\* an edit or a posting that was overtaken between its read and its write, so no
\* other overlap loses a posting, takes a balance or a status astray, or lets an
\* archived account accept what it should not.
THEOREM LedgerDepartsOnlyOvertaken == LedgerSpec => OnlyOvertakenDepart
<1> DEFINE Allowed ==
        \/ \E t \in Threads : pc'[t] # pc[t] /\ Overtaken(t)
        \/ [Abstract!AbstractNext]_<<Book, transactions>>
<1>1. LedgerInd /\ EditInd /\ [LedgerNext]_ledgerVars => [Allowed]_ledgerVars
  <2> SUFFICES ASSUME LedgerInd, EditInd, [LedgerNext]_ledgerVars PROVE Allowed
    OBVIOUS
  <2>1. CASE UNCHANGED <<accounts, transactions>>
    BY <2>1 DEF Book
  <2>2. ASSUME NEW t \in Threads, AccountsStep(t), UNCHANGED transactions PROVE Allowed
    <3>1. CASE update_write(t) \/ archive_write(t)
      <4>1. pc'[t] # pc[t]
        BY <3>1 DEF update_write, archive_write, Close, LedgerInd, AccountsInd
      <4> QED BY <2>2, <3>1, <4>1, EditRefines
    <3>2. CASE ~update_write(t) /\ ~archive_write(t)
      BY <2>1, <2>2, <3>2, OpenRefines DEF AccountsStep, create_account, update_account,
         update_guard, archive_account
    <3> QED BY <3>1, <3>2
  <2>3. ASSUME NEW t \in Threads, LedgerStep(t) PROVE Allowed
    <3>1. CASE post_write(t)
      <4>1. pc'[t] # pc[t]
        BY <3>1 DEF post_write, ClosePost, Close, LedgerInd, AccountsInd
      <4> QED BY <3>1, <4>1, PostRefines
    <3>2. CASE ~post_write(t)
      BY <2>1, <2>3, <3>2, ReconcileRefines DEF LedgerStep, create_transaction, post_check,
         reconcile_account
    <3> QED BY <3>1, <3>2
  <2> QED BY <2>1, <2>2, <2>3 DEF LedgerNext, AccountsNext, ledgerVars
<1> QED BY <1>1, LedgerInvariant, EditInvariant, PTL DEF LedgerSpec, OnlyOvertakenDepart,
    Abstract!abstractVars

-----------------------------------------------------------------------------
(* What a balance is made of.                                              *)

\* The sum a balance is stated with, as a Total.
LEMMA EffectSum ==
    ASSUME NEW id, NEW S, IsFiniteSet(S)
    PROVE  MapThenSumSet(LAMBDA k : Effect(k, id), S) = Total([k \in S |-> Effect(k, id)], S)
<1> DEFINE w == [k \in S |-> Effect(k, id)]
           iter[s \in SUBSET S] ==
               IF s = {} THEN 0
               ELSE LET x == CHOOSE x \in s : TRUE IN Effect(x, id) + iter[s \ {x}]
<1>1. MapThenSumSet(LAMBDA k : Effect(k, id), S) = iter[S]
  BY DEF MapThenSumSet, MapThenFoldSet
<1>2. iter = CHOOSE f : f = [s \in SUBSET S |-> IF s = {} THEN 0
                                               ELSE Effect(Any(s), id) + f[s \ {Any(s)}]]
  BY DEF Any
<1>3. \A f : Fold(f, w, S) = [s \in SUBSET S |-> IF s = {} THEN 0
                                               ELSE Effect(Any(s), id) + f[s \ {Any(s)}]]
  BY AnyIsElement DEF Fold
<1>4. \E f : f = Fold(f, w, S)
  <2> HIDE DEF w
  <2> QED BY FoldExists
<1>5. iter = Fold(iter, w, S)
  <2> HIDE DEF w, iter
  <2> QED BY <1>2, <1>3, <1>4
<1> QED
  <2> HIDE DEF w, iter
  <2> QED BY <1>1, <1>5, FoldIsTotal DEF w

Effects(id) == [k \in PostingsOn(id) |-> Effect(k, id)]

\* The balance of the row is its opening balance and the effects of the postings S.
MadeOf(row, S, id) ==
    /\ S \subseteq PostingsOn(id)
    /\ row.balance = row.opening + Total(Effects(id), S)

\* The stored balance is made of postings, the latest among them; the copy of a
\* handler about to post is made of postings too, perhaps not the latest.
DriftInd ==
    /\ \A i \in 1 .. Len(transactions) : transactions[i].account \in Stored
    /\ \A id \in Stored : PostingsOnly(id) =>
          /\ \E S : /\ MadeOf(accounts[id], S, id)
                    /\ PostingsOn(id) # {} => Max(PostingsOn(id)) \in S
          /\ \A t \in Threads :
                pc[t] \in {"post_check", "post_write"} /\ session[t].target = id =>
                    /\ session[t].seen.type = accounts[id].type
                    /\ session[t].seen.opening = accounts[id].opening
                    /\ \E S : MadeOf(session[t].seen, S, id)

\* Postings on an account are finitely many, and their effects integers.
LEMMA PostingsFinite ==
    ASSUME LedgerInd, NEW id
    PROVE  /\ IsFiniteSet(PostingsOn(id)) /\ Len(transactions) \in Nat
           /\ PostingsOn(id) \subseteq 1 .. Len(transactions)
           /\ \A k \in PostingsOn(id) : Effects(id)[k] = Effect(k, id) /\ Effects(id)[k] \in Int
           /\ \A S \in SUBSET PostingsOn(id) : IsFiniteSet(S) /\ Total(Effects(id), S) \in Int
<1>1. Len(transactions) \in Nat /\ PostingsOn(id) \subseteq 1 .. Len(transactions)
  BY DEF LedgerInd, PostingsOn
<1>2. IsFiniteSet(PostingsOn(id))
  <2>1. IsFiniteSet(1 .. Len(transactions))
    BY <1>1, FS_Interval
  <2> QED BY <1>1, <2>1, FS_Subset
<1>3. \A k \in PostingsOn(id) : Effects(id)[k] = Effect(k, id) /\ Effects(id)[k] \in Int
  <2> SUFFICES ASSUME NEW k \in PostingsOn(id) PROVE Effect(k, id) \in Int
    BY DEF Effects
  <2>1. transactions[k] \in Transaction
    BY <1>1 DEF LedgerInd
  <2>2. transactions[k].amount \in Nat
    BY <2>1 DEF Transaction
  <2> QED BY <2>2, DeltaTyped DEF Effect
<1>4. ASSUME NEW S \in SUBSET PostingsOn(id)
      PROVE  IsFiniteSet(S) /\ Total(Effects(id), S) \in Int
  <2>1. IsFiniteSet(S) /\ \A k \in S : Effects(id)[k] \in Int
    BY <1>2, <1>3, FS_Subset
  <2> QED BY <2>1, TotalTyped
<1> QED BY <1>1, <1>2, <1>3, <1>4

\* What a row was made of it is still made of when the postings stay and the
\* account keeps its type.
LEMMA MadeOfStays ==
    ASSUME LedgerInd, LedgerInd', NEW id,
           accounts'[id].type = accounts[id].type,
           \A k \in 1 .. Len(transactions) : /\ k \in 1 .. Len(transactions')
                                             /\ transactions'[k] = transactions[k],
           NEW S \in SUBSET PostingsOn(id)
    PROVE  /\ S \subseteq PostingsOn(id)'
           /\ \A k \in S : Effects(id)'[k] = Effects(id)[k]
           /\ Total(Effects(id)', S) = Total(Effects(id), S)
<1>1. S \subseteq PostingsOn(id)'
  BY DEF PostingsOn
<1>2. \A k \in S : Effects(id)'[k] = Effects(id)[k]
  BY <1>1 DEF Effects, Effect, PostingsOn
<1>3. IsFiniteSet(S)
  BY PostingsFinite
<1> DEFINE v == Effects(id)'
           w == Effects(id)
<1>4. \A k \in S : v[k] = w[k]
  BY <1>2
<1>5. Total(v, S) = Total(w, S)
  <2> HIDE DEF v, w
  <2> QED BY <1>3, <1>4, TotalSame
<1> QED BY <1>1, <1>2, <1>5

\* The step leaves the postings there are, what is stored and the opening balance
\* and, unless something else sets balances, the type.
Extends ==
    /\ \A k \in 1 .. Len(transactions) : /\ k \in 1 .. Len(transactions')
                                         /\ transactions'[k] = transactions[k]
    /\ \A id \in Stored : /\ accounts'[id] # NULL
                          /\ accounts'[id].opening = accounts[id].opening
                          /\ PostingsOnly(id)' =>
                                PostingsOnly(id) /\ accounts'[id].type = accounts[id].type

\* Handler u still holds a copy that is made of postings, unless it took a new one.
LEMMA CopyStays ==
    ASSUME LedgerInd, LedgerInd', DriftInd, Extends, NEW id \in Stored, PostingsOnly(id)',
           NEW u \in Threads, pc'[u] \in {"post_check", "post_write"}, session'[u].target = id,
           \/ pc[u] \in {"post_check", "post_write"} /\ session'[u] = session[u]
           \/ session'[u].seen = accounts[id]
    PROVE  /\ session'[u].seen.type = accounts'[id].type
           /\ session'[u].seen.opening = accounts'[id].opening
           /\ \E S : MadeOf(session[u].seen, S, id)'
<1>1. /\ PostingsOnly(id) /\ accounts'[id].type = accounts[id].type
      /\ accounts'[id].opening = accounts[id].opening
  BY DEF Extends
<1>2. PICK S : /\ MadeOf(session'[u].seen, S, id)
               /\ session'[u].seen.type = accounts[id].type
               /\ session'[u].seen.opening = accounts[id].opening
  BY <1>1 DEF DriftInd
<1>3. S \subseteq PostingsOn(id)' /\ Total(Effects(id)', S) = Total(Effects(id), S)
  BY <1>1, <1>2, MadeOfStays DEF Extends, MadeOf
<1> QED BY <1>1, <1>2, <1>3 DEF MadeOf

\* A step that posts nothing and sets no balance.
LEMMA DriftKept ==
    ASSUME LedgerInd, LedgerInd', DriftInd, Extends, transactions' = transactions,
           \A id \in Stored : PostingsOnly(id)' => accounts'[id].balance = accounts[id].balance,
           \A id \in Stored' \ Stored : accounts'[id].balance = accounts'[id].opening,
           \A u \in Threads : pc'[u] \in {"post_check", "post_write"} =>
               /\ session'[u].target \in Stored
               /\ \/ pc[u] \in {"post_check", "post_write"} /\ session'[u] = session[u]
                  \/ session'[u].seen = accounts[session'[u].target]
    PROVE  DriftInd'
<1>1. \A i \in 1 .. Len(transactions') : transactions'[i].account \in Stored'
  BY DEF DriftInd, Extends, Stored
<1>2. ASSUME NEW id \in Stored', PostingsOnly(id)', id \notin Stored
      PROVE  /\ MadeOf(accounts[id], {}, id)'
             /\ PostingsOn(id)' = {}
             /\ \A u \in Threads : pc'[u] \in {"post_check", "post_write"} => session'[u].target # id
  <2>1. PostingsOn(id)' = {}
    BY <1>2 DEF PostingsOn, DriftInd
  <2> DEFINE w == Effects(id)'
  <2>2. Total(w, {}) = 0
    <3> HIDE DEF w
    <3> QED BY TotalStep, FS_EmptySet
  <2>3. accounts'[id].balance = accounts'[id].opening /\ accounts'[id].opening \in Int
    BY <1>2 DEF LedgerInd, AccountsInd, Account, Stored
  <2> QED BY <1>2, <2>1, <2>2, <2>3 DEF MadeOf
<1>3. ASSUME NEW id \in Stored, PostingsOnly(id)'
      PROVE  /\ \E S : /\ MadeOf(accounts[id], S, id)'
                       /\ PostingsOn(id)' # {} => Max(PostingsOn(id)') \in S
             /\ \A u \in Threads :
                   pc'[u] \in {"post_check", "post_write"} /\ session'[u].target = id =>
                       /\ session'[u].seen.type = accounts'[id].type
                       /\ session'[u].seen.opening = accounts'[id].opening
                       /\ \E S : MadeOf(session[u].seen, S, id)'
  <2>1. /\ PostingsOnly(id) /\ accounts'[id].type = accounts[id].type
        /\ accounts'[id].opening = accounts[id].opening
        /\ accounts'[id].balance = accounts[id].balance
    BY <1>3 DEF Extends
  <2>2. PICK S : /\ MadeOf(accounts[id], S, id)
                 /\ PostingsOn(id) # {} => Max(PostingsOn(id)) \in S
    BY <2>1 DEF DriftInd
  <2>3. S \subseteq PostingsOn(id)' /\ Total(Effects(id)', S) = Total(Effects(id), S)
    BY <2>1, <2>2, MadeOfStays DEF Extends, MadeOf
  <2>4. PostingsOn(id)' = PostingsOn(id)
    BY DEF PostingsOn
  <2>5. MadeOf(accounts[id], S, id)'
    BY <2>1, <2>2, <2>3 DEF MadeOf
  <2> QED BY <1>3, <2>2, <2>4, <2>5, CopyStays
<1> QED BY <1>1, <1>2, <1>3 DEF DriftInd, Stored

\* The latest posting is the largest index.
LEMMA LatestPosting ==
    ASSUME NEW n \in Nat, NEW S \in SUBSET (1 .. n)
    PROVE  Max(S \cup {n + 1}) = n + 1
<1>1. \A y \in S \cup {n + 1} : n + 1 >= y /\ y \in Int
  OBVIOUS
<1>2. \A x \in S \cup {n + 1} : (\A y \in S \cup {n + 1} : x >= y) => x = n + 1
  BY <1>1
<1> QED BY <1>1, <1>2 DEF Max

\* One more posting in a sum.
LEMMA OneMore ==
    ASSUME NEW w, NEW S, IsFiniteSet(S), \A k \in S : w[k] \in Int,
           NEW n, n \notin S, w[n] \in Int
    PROVE  Total(w, S \cup {n}) = Total(w, S) + w[n]
<1> PICK U : U = S \cup {n}
  OBVIOUS
<1>1. IsFiniteSet(U)
  BY FS_AddElement
<1>2. n \in U /\ U \ {n} = S /\ \A k \in U : w[k] \in Int
  OBVIOUS
<1>3. Total(w, U) = w[n] + Total(w, U \ {n})
  BY <1>1, <1>2, TotalRemove
<1>4. Total(w, S) \in Int
  BY TotalTyped
<1>5. Total(w, U) = Total(w, S) + w[n]
  <2>1. \A x, y \in Int : x + y = y + x
    OBVIOUS
  <2> QED BY <1>2, <1>3, <1>4, <2>1
<1> QED BY <1>5

\* Handler t posts the n-th transaction, on account a: it adds itself to what the
\* balance is made of, or to what the copy was when its balance is written.
Posts(t, a, n) ==
    /\ a = session[t].target /\ n = Len(transactions) + 1
    /\ Extends /\ Stored' = Stored
    /\ \A id \in Stored \ {a} : /\ accounts'[id] = accounts[id]
                               /\ PostingsOn(id)' = PostingsOn(id)
    /\ PostingsOn(a)' = PostingsOn(a) \cup {n}
    /\ \A i \in 1 .. Len(transactions') :
          i \in 1 .. Len(transactions) \/ transactions'[i].account = a
    /\ \A S1, S0 :
          /\ MadeOf(accounts[a], S1, a)
          /\ MadeOf(session[t].seen, S0, a)
          /\ session[t].seen.type = accounts[a].type
          /\ session[t].seen.opening = accounts[a].opening
          => \E S \in {S1, S0} : MadeOf(accounts[a], S \cup {n}, a)'

LEMMA PostMakes ==
    ASSUME LedgerInd, LedgerInd', NEW t \in Threads, PostingInd(t), ~PostFails(t), PostEffect(t)
    PROVE  \E a \in Stored, n \in Nat : Posts(t, a, n)
<1>0. PICK a, seen, p, n, d, b :
          /\ a = session[t].target /\ seen = session[t].seen /\ p = payment[t]
          /\ n = Len(transactions) + 1
          /\ d = balance_delta(p.amount, p.direction, seen.type)
          /\ b = AppliedBalance(t)
  OBVIOUS
<1>1. /\ a \in Stored /\ a \in AccountIds /\ accounts[a] \in Account /\ seen \in Account
      /\ b \in Int /\ d \in Int /\ b = seen.balance + d
      /\ Len(transactions) \in Nat
      /\ accounts \in [AccountIds -> Account \cup {NULL}]
  <2>1. p.amount \in Nat /\ accounts[a] \in Account /\ seen \in Account
    BY <1>0 DEF PostingInd, Payment, LedgerInd, AccountsInd, Stored
  <2>2. d \in Int
    BY <1>0, <2>1, DeltaTyped
  <2>3. b = seen.balance + d
    BY <1>0 DEF AppliedBalance
  <2>4. b \in Int
    BY <2>1, <2>2, <2>3 DEF Account
  <2> QED BY <1>0, <2>1, <2>2, <2>3, <2>4 DEF PostingInd, LedgerInd, AccountsInd, Stored
<1>2. /\ accounts' = [accounts EXCEPT ![a] = FlushBalance(accounts[a], seen, b)]
      /\ transactions' = Append(transactions, RowOf(a, p))
      /\ Record(Entry("TransactionCreated", 0, n, NoChange, NoChange))
  BY <1>0 DEF PostEffect, Pending
<1>3. /\ accounts'[a] = FlushBalance(accounts[a], seen, b)
      /\ \A id \in AccountIds \ {a} : accounts'[id] = accounts[id]
  BY <1>1, <1>2
<1>4. /\ accounts'[a] # NULL /\ accounts'[a].type = accounts[a].type
      /\ accounts'[a].opening = accounts[a].opening
      /\ accounts'[a].balance = IF seen.balance = b THEN accounts[a].balance ELSE b
  <2>1. LET new == FlushBalance(accounts[a], seen, b)
        IN  /\ new \in Account /\ new.type = accounts[a].type
            /\ new.opening = accounts[a].opening
            /\ new.balance = IF seen.balance = b THEN accounts[a].balance ELSE b
    <3>1. PICK row \in Account : row = accounts[a]
      BY <1>1
    <3>2. seen \in Account /\ b \in Int
      BY <1>1
    <3>3. /\ FlushBalance(row, seen, b) \in Account
          /\ FlushBalance(row, seen, b).type = row.type
          /\ FlushBalance(row, seen, b).opening = row.opening
          /\ FlushBalance(row, seen, b).balance = IF seen.balance = b THEN row.balance ELSE b
      BY <3>2, BalanceWrite
    <3> QED BY <3>1, <3>3
  <2>2. accounts'[a] # NULL
    BY <1>3, <2>1, AccountsAssumption
  <2> QED BY <1>3, <2>1, <2>2
<1>5. Stored' = Stored
  BY <1>1, <1>3, <1>4 DEF Stored
<1>6. /\ Len(transactions') = n /\ transactions'[n] = RowOf(a, p) /\ n \in Nat
      /\ n \notin 1 .. Len(transactions) /\ 1 .. n = (1 .. Len(transactions)) \cup {n}
      /\ \A k \in 1 .. Len(transactions) : /\ k \in 1 .. Len(transactions')
                                           /\ transactions'[k] = transactions[k]
  BY <1>0, <1>1, <1>2 DEF LedgerInd
<1>7. \A id \in Stored : PostingsOnly(id)' => PostingsOnly(id)
  <2>1. /\ Len(audit) \in Nat /\ Len(audit') = Len(audit) + 1
        /\ \A i \in 1 .. Len(audit) : audit'[i] = audit[i]
    BY <1>2 DEF Record, LedgerInd, AccountsInd
  <2> QED BY <2>1 DEF PostingsOnly
<1>8. Extends
  BY <1>1, <1>3, <1>4, <1>6, <1>7 DEF Extends, Stored
<1>9. \A id \in Stored : PostingsOn(id)' = IF id = a THEN PostingsOn(id) \cup {n} ELSE PostingsOn(id)
  BY <1>6 DEF PostingsOn, RowOf
<1>10. ASSUME NEW S1, NEW S0, MadeOf(accounts[a], S1, a), MadeOf(session[t].seen, S0, a),
              session[t].seen.type = accounts[a].type,
              session[t].seen.opening = accounts[a].opening
       PROVE  \E S \in {S1, S0} : MadeOf(accounts[a], S \cup {n}, a)'
  <2> PICK v : v = Effects(a)
    OBVIOUS
  <2> PICK w : w = Effects(a)'
    OBVIOUS
  <2>2. n \in PostingsOn(a)' /\ n \notin PostingsOn(a)
    BY <1>1, <1>6, <1>9 DEF PostingsOn
  <2>3. w[n] = d
    <3>1. w[n] = Effect(n, a)'
      BY <2>2 DEF Effects
    <3> QED BY <1>0, <1>4, <1>6, <1>10, <3>1 DEF Effect, RowOf
  <2>4. ASSUME NEW S \in SUBSET PostingsOn(a)
        PROVE  /\ S \cup {n} \subseteq PostingsOn(a)'
               /\ Total(v, S) \in Int
               /\ Total(w, S \cup {n}) = Total(v, S) + d
    <3>1. /\ S \subseteq PostingsOn(a)' /\ Total(w, S) = Total(v, S)
          /\ \A k \in S : w[k] = v[k]
      <4>1. /\ S \subseteq PostingsOn(a)'
            /\ Total(Effects(a)', S) = Total(Effects(a), S)
            /\ \A k \in S : Effects(a)'[k] = Effects(a)[k]
        BY <1>4, <1>6, MadeOfStays
      <4> QED BY <4>1
    <3>2. IsFiniteSet(S) /\ Total(v, S) \in Int /\ \A k \in S : v[k] \in Int
      BY PostingsFinite
    <3>3. Total(w, S \cup {n}) = Total(w, S) + w[n]
      BY <1>1, <2>2, <2>3, <3>1, <3>2, OneMore
    <3> QED BY <2>2, <2>3, <3>1, <3>2, <3>3
  <2>6. PICK S2 \in {S1, S0} :
                  /\ S2 \subseteq PostingsOn(a)
                  /\ accounts'[a].balance = accounts[a].opening + Total(v, S2) + d
    <3>1. /\ accounts[a].balance = accounts[a].opening + Total(v, S1)
          /\ seen.balance = accounts[a].opening + Total(v, S0)
          /\ S1 \subseteq PostingsOn(a) /\ S0 \subseteq PostingsOn(a)
      BY <1>0, <1>10 DEF MadeOf
    <3>2. seen.balance \in Int /\ accounts[a].balance \in Int
      BY <1>1 DEF Account
    <3>3. CASE seen.balance = b
      <4>1. d = 0
        BY <1>1, <3>2, <3>3
      <4>2. accounts'[a].balance = accounts[a].balance + d
        BY <1>4, <3>2, <3>3, <4>1
      <4> QED BY <3>1, <4>2
    <3>4. CASE seen.balance # b
      BY <1>1, <1>4, <3>1, <3>4
    <3> QED BY <3>3, <3>4
  <2>7. accounts'[a].balance = accounts'[a].opening + Total(w, S2 \cup {n})
    <3>1. accounts[a].opening \in Int /\ Total(v, S2) \in Int
          /\ Total(w, S2 \cup {n}) = Total(v, S2) + d
      BY <1>1, <2>4, <2>6 DEF Account
    <3> QED BY <1>1, <1>4, <2>6, <3>1
  <2>8. MadeOf(accounts[a], S2 \cup {n}, a)'
    BY <2>4, <2>6, <2>7 DEF MadeOf
  <2> QED BY <2>6, <2>8
<1>11. \A id \in Stored \ {a} : accounts'[id] = accounts[id] /\ PostingsOn(id)' = PostingsOn(id)
  BY <1>3, <1>9 DEF Stored
<1>12. PostingsOn(a)' = PostingsOn(a) \cup {n}
  BY <1>1, <1>9
<1>13. \A i \in 1 .. Len(transactions') : i \in 1 .. Len(transactions) \/ transactions'[i].account = a
  BY <1>6 DEF RowOf
<1>14. a \in Stored /\ n \in Nat /\ a = session[t].target /\ n = Len(transactions) + 1
  BY <1>0, <1>1, <1>6
<1>15. Posts(t, a, n)
  BY <1>5, <1>8, <1>10, <1>11, <1>12, <1>13, <1>14, Zenon DEF Posts
<1> QED BY <1>14, <1>15

\* A posting leaves every balance made of postings, the new one the latest.
LEMMA DriftPosts ==
    ASSUME LedgerInd, LedgerInd', DriftInd, NEW t \in Threads, PostingInd(t),
           ~PostFails(t), PostEffect(t), pc[t] \in {"post_check", "post_write"},
           pc'[t] \notin {"post_check", "post_write"},
           \A u \in Threads : u # t => pc'[u] = pc[u] /\ session'[u] = session[u]
    PROVE  DriftInd'
<1>1. PICK a \in Stored, n \in Nat : Posts(t, a, n)
  BY PostMakes
<1>2. \A i \in 1 .. Len(transactions') : transactions'[i].account \in Stored'
  BY <1>1 DEF Posts, DriftInd, Extends
<1>3. ASSUME NEW id \in Stored, PostingsOnly(id)'
      PROVE  \E S : /\ MadeOf(accounts[id], S, id)'
                    /\ PostingsOn(id)' # {} => Max(PostingsOn(id)') \in S
  <2>1. /\ PostingsOnly(id) /\ accounts'[id].type = accounts[id].type
        /\ accounts'[id].opening = accounts[id].opening
    BY <1>1, <1>3 DEF Posts, Extends
  <2>2. PICK S1 : /\ MadeOf(accounts[id], S1, id)
                  /\ PostingsOn(id) # {} => Max(PostingsOn(id)) \in S1
    BY <2>1 DEF DriftInd
  <2>3. CASE id # a
    <3>1. S1 \subseteq PostingsOn(id)' /\ Total(Effects(id)', S1) = Total(Effects(id), S1)
      BY <1>1, <2>1, <2>2, MadeOfStays DEF Posts, MadeOf, Extends
    <3>2. accounts'[id].balance = accounts[id].balance /\ PostingsOn(id)' = PostingsOn(id)
      BY <1>1, <2>3 DEF Posts
    <3>3. MadeOf(accounts[id], S1, id)'
      BY <2>1, <2>2, <3>1, <3>2 DEF MadeOf
    <3> QED BY <2>2, <3>2, <3>3
  <2>4. CASE id = a
    <3>1. \E S0 : MadeOf(session[t].seen, S0, a) /\ session[t].seen.type = accounts[a].type
                  /\ session[t].seen.opening = accounts[a].opening
      BY <1>1, <2>1, <2>4 DEF Posts, DriftInd
    <3>2. PICK S : MadeOf(accounts[a], S \cup {n}, a)'
      BY <1>1, <2>2, <2>4, <3>1 DEF Posts
    <3>3. Max(PostingsOn(a)') = n
      <4>1. PostingsOn(a) \in SUBSET (1 .. Len(transactions)) /\ Len(transactions) \in Nat
        BY PostingsFinite
      <4> QED BY <1>1, <4>1, LatestPosting DEF Posts
    <3> QED BY <2>4, <3>2, <3>3
  <2> QED BY <2>3, <2>4
<1>4. ASSUME NEW id \in Stored, PostingsOnly(id)', NEW u \in Threads,
             pc'[u] \in {"post_check", "post_write"}, session'[u].target = id
      PROVE  /\ session'[u].seen.type = accounts'[id].type
             /\ session'[u].seen.opening = accounts'[id].opening
             /\ \E S : MadeOf(session[u].seen, S, id)'
  BY <1>1, <1>4, CopyStays DEF Posts
<1> QED BY <1>1, <1>2, <1>3, <1>4 DEF Posts, DriftInd

\* The trail only grows, so what it does not say yet it did not say before.
LEMMA PostingsOnlyBefore ==
    ASSUME LedgerInd, [LedgerNext]_ledgerVars, NEW id, PostingsOnly(id)'
    PROVE  PostingsOnly(id)
<1>1. audit' = audit \/ \E e : audit' = Append(audit, e)
  BY LedgerNextInd
<1>2. Len(audit) \in Nat
  BY DEF LedgerInd, AccountsInd
<1>3. \A i \in 1 .. Len(audit) : i \in 1 .. Len(audit') /\ audit'[i] = audit[i]
  BY <1>1 DEF LedgerInd, AccountsInd
<1> QED BY <1>3 DEF PostingsOnly

\* A reconciliation and an edit of the type are in the trail.
LEMMA SetsAreAudited ==
    ASSUME LedgerInd, [LedgerNext]_ledgerVars, NEW id \in Stored, PostingsOnly(id)'
    PROVE  /\ accounts'[id].type = accounts[id].type
           /\ \A t \in Threads : reconcile_write(t) => accounts'[id] = accounts[id]
<1>1. ASSUME NEW e, Record(e)
      PROVE  e.entity = id => e.event # "BalanceReconciled" /\ "type" \notin DOMAIN e.new
  <2>1. Len(audit') \in 1 .. Len(audit') /\ audit'[Len(audit')] = e
    BY <1>1 DEF Record, LedgerInd, AccountsInd
  <2> QED BY <2>1 DEF PostingsOnly
<1>2. accounts'[id].type = accounts[id].type
  <2> SUFFICES ASSUME accounts'[id].type # accounts[id].type PROVE FALSE
    OBVIOUS
  <2>1. PICK t \in Threads : Commits(t, id) /\ "type" \in DOMAIN session[t].change
    BY EditsCommit DEF UPDATABLE_FIELDS
  <2>2. pc[t] = "archive_write" => session[t].change = [status |-> "ARCHIVED"]
    BY DEF LedgerInd, AccountsInd
  <2> QED BY <1>1, <2>1, <2>2 DEF Commits, Entry
<1>3. ASSUME NEW t \in Threads, reconcile_write(t)
      PROVE  accounts'[id] = accounts[id]
  <2>1. CASE UNCHANGED accounts
    BY <2>1
  <2>2. CASE Representable(session[t].change.balance)
    <3>1. session[t].target # id
      BY <1>1, <1>3, <2>2 DEF reconcile_write, Entry
    <3> QED BY <1>3, <2>2, <3>1 DEF reconcile_write, Stored, LedgerInd, AccountsInd
  <2> QED BY <1>3, <2>1, <2>2 DEF reconcile_write
<1> QED BY <1>2, <1>3

\* No step takes a posting back, a row or its opening balance.
LEMMA StepExtends ==
    ASSUME LedgerInd, [LedgerNext]_ledgerVars
    PROVE  Extends
<1>1. \A id \in Stored : PostingsOnly(id)' =>
          PostingsOnly(id) /\ accounts'[id].type = accounts[id].type
  BY PostingsOnlyBefore, SetsAreAudited
<1>2. \A k \in 1 .. Len(transactions) : /\ k \in 1 .. Len(transactions')
                                        /\ transactions'[k] = transactions[k]
  <2>1. transactions' = transactions \/ \E e : transactions' = Append(transactions, e)
    BY DEF LedgerNext, AccountsNext, LedgerStep, create_transaction, post_check,
       post_write, PostEffect, reconcile_account, reconcile_write, ledgerVars
  <2> QED BY <2>1 DEF LedgerInd
<1>3. \A id \in Stored : accounts'[id] # NULL /\ accounts'[id].opening = accounts[id].opening
  <2>1. CASE UNCHANGED accounts
    BY <2>1 DEF Stored
  <2>2. ASSUME NEW t \in Threads, AccountsStep(t)
        PROVE  \A id \in Stored : accounts'[id] # NULL /\ accounts'[id].opening = accounts[id].opening
    BY <2>2, AccountsStepBalance DEF LedgerInd
  <2>3. ASSUME NEW t \in Threads, NEW id \in Stored, NEW seen \in Account, NEW b \in Int,
               accounts' = [accounts EXCEPT ![id] = FlushBalance(accounts[id], seen, b)]
        PROVE  \A i \in Stored : accounts'[i] # NULL /\ accounts'[i].opening = accounts[i].opening
    <3>1. PICK row \in Account : row = accounts[id]
      BY DEF Stored, LedgerInd, AccountsInd
    <3>2. FlushBalance(row, seen, b) \in Account /\ FlushBalance(row, seen, b).opening = row.opening
      BY BalanceWrite
    <3>3. FlushBalance(row, seen, b) # NULL
      BY <3>2, AccountsAssumption
    <3> QED BY <2>3, <3>1, <3>2, <3>3 DEF Stored, LedgerInd, AccountsInd
  <2>4. ASSUME NEW t \in Threads, post_write(t), accounts' # accounts
        PROVE  \A id \in Stored : accounts'[id] # NULL /\ accounts'[id].opening = accounts[id].opening
    <3>1. PostingInd(t)
      BY <2>4 DEF post_write, LedgerInd, HandlerInd
    <3>2. AppliedBalance(t) \in Int
      BY <3>1, PendingTyped
    <3> QED BY <2>3, <2>4, <3>1, <3>2 DEF post_write, PostEffect, PostingInd
  <2>5. ASSUME NEW t \in Threads, reconcile_write(t), accounts' # accounts
        PROVE  \A id \in Stored : accounts'[id] # NULL /\ accounts'[id].opening = accounts[id].opening
    <3>1. /\ session[t].target \in Stored /\ session[t].seen \in Account
          /\ IsChange(session[t].change) /\ "balance" \in DOMAIN session[t].change
      BY <2>5 DEF reconcile_write, LedgerInd, HandlerInd, AccountsInd, IsSession
    <3>2. session[t].change.balance \in Int
      BY <3>1 DEF IsChange, ColumnValues
    <3> QED BY <2>3, <2>5, <3>1, <3>2 DEF reconcile_write
  <2> QED BY <2>1, <2>2, <2>4, <2>5 DEF LedgerNext, AccountsNext, LedgerStep,
       create_transaction, post_check, reconcile_account, ledgerVars
<1> QED BY <1>1, <1>2, <1>3 DEF Extends

\* Which handlers hold a copy to post on after a step.
LEMMA CopiesTaken ==
    ASSUME LedgerInd, [LedgerNext]_ledgerVars, NEW u \in Threads,
           pc'[u] \in {"post_check", "post_write"}
    PROVE  /\ session'[u].target \in Stored
           /\ \/ pc[u] \in {"post_check", "post_write"} /\ session'[u] = session[u]
              \/ session'[u].seen = accounts[session'[u].target]
<1>1. CASE pc'[u] = pc[u] /\ session'[u] = session[u]
  BY <1>1 DEF LedgerInd, HandlerInd, PostingInd
<1>2. CASE create_transaction(u)
  BY <1>2 DEF create_transaction, Hold, HoldSince, LedgerInd, AccountsInd
<1>3. CASE post_check(u)
  BY <1>3 DEF post_check, ClosePost, Close, LedgerInd, AccountsInd, HandlerInd, PostingInd
<1>4. ASSUME NEW t \in Threads, t # u, LedgerStep(t)
      PROVE  pc'[u] = pc[u] /\ session'[u] = session[u]
  BY <1>4 DEF LedgerStep, create_transaction, post_check, post_write, reconcile_account,
     reconcile_write, ClosePost, Close, Hold, HoldSince, LedgerInd, AccountsInd
<1>5. ~post_write(u) /\ ~reconcile_account(u) /\ ~reconcile_write(u)
  BY DEF post_write, reconcile_account, reconcile_write, ClosePost, Close, Hold, HoldSince, LedgerInd,
     AccountsInd
<1>6. ASSUME NEW t \in Threads, AccountsStep(t)
      PROVE  pc'[u] = pc[u] /\ session'[u] = session[u]
  BY <1>6, AccountsStepOthers DEF LedgerInd, AccountSteps
<1> QED BY <1>1, <1>2, <1>3, <1>4, <1>5, <1>6 DEF LedgerNext, AccountsNext, LedgerStep, ledgerVars

\* A step that posts nothing moves no balance that only postings set, and a row
\* it adds starts at its opening balance.
LEMMA NothingPosted ==
    ASSUME LedgerInd, [LedgerNext]_ledgerVars, transactions' = transactions
    PROVE  /\ \A id \in Stored : PostingsOnly(id)' => accounts'[id].balance = accounts[id].balance
           /\ \A id \in Stored' \ Stored : accounts'[id].balance = accounts'[id].opening
<1>1. \A id \in Stored : PostingsOnly(id)' => accounts'[id].balance = accounts[id].balance
  <2>1. CASE UNCHANGED accounts
    BY <2>1
  <2>2. ASSUME NEW t \in Threads, AccountsStep(t)
        PROVE  \A id \in Stored : accounts'[id].balance = accounts[id].balance
    BY <2>2, AccountsStepBalance DEF LedgerInd
  <2>3. ASSUME NEW t \in Threads, post_write(t) PROVE UNCHANGED accounts
    BY <2>3 DEF post_write, PostEffect, LedgerInd
  <2> QED BY <2>1, <2>2, <2>3, SetsAreAudited DEF LedgerNext, AccountsNext, LedgerStep,
       create_transaction, post_check, reconcile_account, ledgerVars
<1>2. \A id \in Stored' \ Stored : accounts'[id].balance = accounts'[id].opening
  <2>1. ASSUME NEW t \in Threads, LedgerStep(t) PROVE Stored' = Stored
    BY <2>1, LedgerStepMoves DEF TablesMove, Stored
  <2>2. ASSUME NEW t \in Threads, AccountsStep(t), NEW id \in Stored' \ Stored
        PROVE  accounts'[id].balance = accounts'[id].opening
    BY <2>2, AccountsStepBalance DEF LedgerInd, Stored
  <2>3. CASE UNCHANGED ledgerVars
    BY <2>3 DEF ledgerVars, Stored
  <2> QED BY <2>1, <2>2, <2>3 DEF LedgerNext, AccountsNext
<1> QED BY <1>1, <1>2

LEMMA DriftNextInd ==
    ASSUME LedgerInd, DriftInd, [LedgerNext]_ledgerVars
    PROVE  DriftInd'
<1>1. LedgerInd' /\ Extends
  BY LedgerNextInd, StepExtends
<1>2. ASSUME NEW t \in Threads, post_write(t), transactions' # transactions
      PROVE  DriftInd'
  <2>1. PostingInd(t)
    BY <1>2 DEF post_write, LedgerInd, HandlerInd
  <2>2. /\ pc'[t] \notin {"post_check", "post_write"}
        /\ \A u \in Threads : u # t => pc'[u] = pc[u] /\ session'[u] = session[u]
    BY <1>2 DEF post_write, ClosePost, Close, LedgerInd, AccountsInd
  <2> QED BY <1>1, <1>2, <2>1, <2>2, DriftPosts DEF post_write
<1>3. CASE transactions' = transactions
  BY <1>1, <1>3, NothingPosted, CopiesTaken, DriftKept
<1> QED BY <1>2, <1>3 DEF LedgerNext, LedgerStep, create_transaction, post_check,
     reconcile_account, reconcile_write, ledgerVars

\* At the start a balance is its opening balance and nothing is posted.
LEMMA NothingMade ==
    ASSUME LedgerInit, NEW id \in Stored
    PROVE  PostingsOn(id) = {} /\ MadeOf(accounts[id], PostingsOn(id), id)
<1>1. PostingsOn(id) = {}
  BY DEF LedgerInit, PostingsOn
<1>2. PICK w : w = Effects(id)
  OBVIOUS
<1>3. Total(w, {}) = 0
  BY TotalStep, FS_EmptySet
<1>4. accounts[id].balance = accounts[id].opening /\ accounts[id].opening \in Int
  BY LedgerAssumption, AccountsAssumption DEF LedgerInit, AccountsInit, Stored, Account
<1> QED BY <1>1, <1>2, <1>3, <1>4 DEF MadeOf

LEMMA DriftInvariant == LedgerSpec => [](LedgerInd /\ DriftInd)
<1>1. LedgerInit => DriftInd
  BY NothingMade DEF DriftInd, LedgerInit, AccountsInit
<1> QED BY <1>1, DriftNextInd, LedgerInvariant, PTL DEF LedgerSpec

\* The sum the properties are stated with.
LEMMA EffectsAddUp ==
    ASSUME LedgerInd, NEW id, NEW S \in SUBSET PostingsOn(id)
    PROVE  MapThenSumSet(LAMBDA k : Effect(k, id), S) = Total(Effects(id), S)
<1>1. IsFiniteSet(S)
  BY PostingsFinite
<1>2. MapThenSumSet(LAMBDA k : Effect(k, id), S) = Total([k \in S |-> Effect(k, id)], S)
  BY <1>1, EffectSum
<1>3. PICK v, w : v = [k \in S |-> Effect(k, id)] /\ w = Effects(id)
  OBVIOUS
<1>4. \A k \in S : v[k] = w[k]
  BY <1>3 DEF Effects
<1>5. Total(v, S) = Total(w, S)
  BY <1>1, <1>4, TotalSame
<1> QED BY <1>2, <1>3, <1>5

\* However requests interleave, a balance loses whole postings at most.
THEOREM LedgerDriftIsLostPostings == LedgerSpec => []DriftIsLostPostings
<1>1. LedgerInd /\ DriftInd => DriftIsLostPostings
  <2> SUFFICES ASSUME LedgerInd, DriftInd, NEW id \in Stored, PostingsOnly(id)
               PROVE  \E S \in SUBSET PostingsOn(id) :
                         /\ PostingsOn(id) # {} => Max(PostingsOn(id)) \in S
                         /\ accounts[id].balance = accounts[id].opening
                                + MapThenSumSet(LAMBDA k : Effect(k, id), S)
    BY DEF DriftIsLostPostings
  <2>1. PICK S : /\ MadeOf(accounts[id], S, id)
                 /\ PostingsOn(id) # {} => Max(PostingsOn(id)) \in S
    BY DEF DriftInd
  <2>2. S \in SUBSET PostingsOn(id)
    BY <2>1 DEF MadeOf
  <2>3. MapThenSumSet(LAMBDA k : Effect(k, id), S) = Total(Effects(id), S)
    BY <2>2, EffectsAddUp
  <2>4. accounts[id].balance = accounts[id].opening + MapThenSumSet(LAMBDA k : Effect(k, id), S)
    BY <2>1, <2>3, Zenon DEF MadeOf
  <2> QED BY <2>1, <2>2, <2>4
<1> QED BY <1>1, DriftInvariant, PTL
=============================================================================
