----------------------------- MODULE Ingestion -----------------------------
(***************************************************************************)
(* Bank messages to transactions: domains/ingestion/{service,pipeline,      *)
(* repository}.py behind POST /ingest/sms, /ingest/sms/batch and            *)
(* /ingest/reprocess.                                                       *)
(*                                                                         *)
(* A request works through a list of messages with one database session and *)
(* one notification buffer.  Each message is stored, parsed, given an       *)
(* account (a stub is created for an unknown one) and posted, and its       *)
(* status is set last; every one of these is a commit of its own, so other  *)
(* requests and a restart of the process may come between any two.          *)
(***************************************************************************)
EXTENDS Ledger

CONSTANTS
    Received,        \* [RawEventIds -> Nat]: the order of arrival, no two alike
    Batches,         \* bodies of POST /ingest/sms/batch: sequences of messages
    Windows,         \* date ranges of POST /ingest/reprocess, as sets of messages
    ReprocessLimit,  \* MAX_BATCH_SIZE as reprocess uses it
    Releases,        \* deployed versions of the parser
    Reading,         \* [Releases -> [RawEventIds -> Parsed]]: what each makes of a message
    Upper,           \* str.upper on bank names
    MaxRestarts      \* bound on restarts of the process

ProcessingStatus == {"RECEIVED", "PROCESSED", "NEEDS_REVIEW", "DUPLICATE",
                     "IGNORED", "UNKNOWN_FORMAT"}

\* A ParseResult: is it a transaction, and if it was read, the fields used.
Parsed == [outcome : {"ok", "unknown", "ignored"}, bank : Banks \cup {NULL},
           digits : Digits \cup {NULL}, type : AccountType \cup {NULL}, amount : Nat,
           direction : TransactionDirection, key : Keys]

ASSUME IngestionAssumption ==
    /\ Received \in [RawEventIds -> Nat]
    /\ \A m, n \in RawEventIds : Received[m] = Received[n] => m = n
    /\ Batches \subseteq Seq(RawEventIds) \ {<<>>}
    /\ \A window \in Windows : window \subseteq RawEventIds /\ IsFiniteSet(window)
    /\ ReprocessLimit \in Nat
    /\ Reading \in [Releases -> [RawEventIds -> Parsed]]
    /\ Upper \in [Banks -> Banks]
    /\ MaxRestarts \in Nat
    /\ NULL \notin ProcessingStatus \cup {"FAILED", "sms", "batch", "reprocess"}

VARIABLES
    rawEvents,  \* raw_events: the processing status of each message, or NULL
    job,        \* per handler: the rest of its ingestion request
    sent,       \* what Telegram was told, as indices of `transactions`
    release,    \* the parser that is running
    restarts    \* how often the process was restarted

ingestionVars == <<accounts, audit, pc, session, transactions, payment,
                   rawEvents, job, sent, release, restarts>>

\* window and turn are those of a reprocessing that still picks its messages.
NoJob == [kind |-> NULL, window |-> {}, turn |-> 0, todo |-> <<>>, outcome |-> NULL,
          created |-> FALSE, poisoned |-> FALSE, buffer |-> <<>>]

IngestionInit ==
    /\ LedgerInit
    /\ rawEvents = [m \in RawEventIds |-> NULL]
    /\ job = [t \in Threads |-> NoJob]
    /\ sent = <<>>
    /\ release \in Releases
    /\ restarts = 0

\* The message handler t is at, and what the running parser makes of it.
Message(t) == Head(job[t].todo)
ParseOf(m) == Reading[release][m]

-----------------------------------------------------------------------------
(* How a request goes on.                                                  *)

GoTo(t, next) == pc' = [pc EXCEPT ![t] = next]

\* The request ends: answered, or failed with an exception.
Finish(t) == ClosePost(t) /\ job' = [job EXCEPT ![t] = NoJob]

\* Done with the message; j is the job as the message leaves it.
Advance(t, j) ==
    IF Len(j.todo) = 1 THEN Finish(t)
    ELSE /\ GoTo(t, IF j.kind = "reprocess" THEN "parse" ELSE "lookup")
         /\ session' = [session EXCEPT ![t] = NoSession]
         /\ payment' = [payment EXCEPT ![t] = NULL]
         /\ job' = [job EXCEPT ![t] = [j EXCEPT !.todo = Tail(j.todo),
                                                !.outcome = NULL, !.created = FALSE]]

\* Mutant: the failure of one message ends the import.
RaiseEnds(t, j) == Finish(t)

\* An exception leaves ingest_sms: only import_batch goes on.
Raise(t, j) == IF j.kind = "batch" THEN Advance(t, j) ELSE Finish(t)

\* _process: the pipeline raised, the message is answered FAILED and its row
\* keeps its status.
Failed(t, j) == Advance(t, j)

Begin(t, j, next) ==
    /\ job' = [job EXCEPT ![t] = j]
    /\ GoTo(t, next)
    /\ UNCHANGED <<accounts, audit, session, transactions, payment, rawEvents, sent,
                   release, restarts>>

-----------------------------------------------------------------------------
(* The three requests.                                                     *)

ingest_sms(t) ==
    /\ Accepts(t, "sms")
    /\ \E m \in RawEventIds : 
           Begin(t, [NoJob EXCEPT !.kind = "sms", !.todo = <<m>>], "lookup")

import_batch(t) ==
    /\ Accepts(t, "batch")
    /\ \E messages \in Batches : 
           Begin(t, [NoJob EXCEPT !.kind = "batch", !.todo = messages], "lookup")

\* Mutants: messages that were posted are run again; RECEIVED is not worth it.
StatusesAll == <<"FAILED", "UNKNOWN_FORMAT", "RECEIVED", "NEEDS_REVIEW", "PROCESSED">>

StatusesLost == <<"FAILED", "UNKNOWN_FORMAT">>

REPROCESSABLE_STATUSES == <<"FAILED", "UNKNOWN_FORMAT", "RECEIVED">>

reprocess(t) ==
    /\ Accepts(t, "reprocess")
    /\ \E window \in Windows :
           Begin(t, [NoJob EXCEPT !.kind = "reprocess", !.window = window, !.turn = 1],
                 "pick")

\* list_for_user: the messages of the window with one status, newest first, cut
\* to the limit.
Newest(window, status) ==
    LET due == {m \in window : rawEvents[m] = status}
        n == IF Cardinality(due) < ReprocessLimit THEN Cardinality(due) ELSE ReprocessLimit
    IN  {list \in [1 .. n -> due] :
            /\ \A i, j \in 1 .. n : i < j => Received[list[i]] > Received[list[j]]
            /\ \A i \in 1 .. n, m \in due :
                  (\A j \in 1 .. n : list[j] # m) => Received[list[i]] > Received[m]}

CutToLimit(list) ==
    SubSeq(list, 1, IF Len(list) < ReprocessLimit THEN Len(list) ELSE ReprocessLimit)

\* One SELECT per status, one after the other.
pick(t) ==
    LET j == job[t]
    IN  /\ pc[t] = "pick"
        /\ \E list \in Newest(j.window, REPROCESSABLE_STATUSES[j.turn]) :
              LET todo == CutToLimit(j.todo \o list)
              IN  \/ /\ j.turn < Len(REPROCESSABLE_STATUSES)
                     /\ job' = [job EXCEPT ![t] =
                                   [j EXCEPT !.todo = todo, !.turn = j.turn + 1]]
                     /\ UNCHANGED <<pc, session, payment>>
                  \/ /\ j.turn = Len(REPROCESSABLE_STATUSES) /\ todo = <<>>
                     /\ Finish(t)
                  \/ /\ j.turn = Len(REPROCESSABLE_STATUSES) /\ todo # <<>>
                     /\ job' = [job EXCEPT ![t] =
                                   [j EXCEPT !.todo = todo, !.turn = 0, !.window = {}]]
                     /\ GoTo(t, "parse")
                     /\ UNCHANGED <<session, payment>>
        /\ UNCHANGED <<accounts, audit, transactions, rawEvents, sent, release, restarts>>

-----------------------------------------------------------------------------
(* Storing a message.                                                      *)

\* find_by_hash.  A session whose flush failed refuses every statement.
lookup(t) ==
    /\ pc[t] = "lookup"
    /\ \/ /\ job[t].poisoned
          /\ Raise(t, job[t])
       \/ /\ ~job[t].poisoned /\ rawEvents[Message(t)] # NULL
          /\ Advance(t, job[t])
       \/ /\ ~job[t].poisoned /\ rawEvents[Message(t)] = NULL
          /\ GoTo(t, "store")
          /\ UNCHANGED <<session, payment, job>>
    /\ UNCHANGED <<accounts, audit, transactions, rawEvents, sent, release, restarts>>

\* INSERT and COMMIT; the unique index on the hash rolls a second copy back.
store(t) ==
    /\ pc[t] = "store"
    /\ \/ /\ rawEvents[Message(t)] # NULL
          /\ Raise(t, job[t])
          /\ UNCHANGED rawEvents
       \/ /\ rawEvents[Message(t)] = NULL
          /\ rawEvents' = [rawEvents EXCEPT ![Message(t)] = "RECEIVED"]
          /\ GoTo(t, "parse")
          /\ UNCHANGED <<session, payment, job>>
    /\ UNCHANGED <<accounts, audit, transactions, sent, release, restarts>>

-----------------------------------------------------------------------------
(* Finding the account.                                                    *)

Folded(bank) == IF bank = NULL THEN NULL ELSE Upper[bank]

\* A live match before an archived one; created_at breaks ties, which is left
\* open here.
Preferred(ids) ==
    LET live == {id \in ids : accounts[id].status # "ARCHIVED"}
    IN  IF live # {} THEN live ELSE ids

\* _find_account: by digits and bank, then by digits that one account holds.
Matches(p) ==
    LET byDigits == {id \in Stored : accounts[id].digits = p.digits}
        exact == {id \in byDigits : Folded(accounts[id].bank) = Folded(p.bank)}
    IN  IF p.digits = NULL THEN {}
        ELSE IF p.bank # NULL /\ exact # {} THEN Preferred(exact)
        ELSE IF Cardinality(byDigits) = 1 THEN byDigits
        ELSE {}

PaymentOf(m) ==
    LET p == ParseOf(m)
    IN  [raw |-> m, amount |-> p.amount, direction |-> p.direction, key |-> p.key]

\* A message that gives no transaction gets its final status at once.
record_unparsed(t) ==
    LET m == Message(t)
    IN  /\ pc[t] = "parse"
        /\ ParseOf(m).outcome # "ok"
        /\ rawEvents' = [rawEvents EXCEPT ![m] =
               IF ParseOf(m).outcome = "unknown" THEN "UNKNOWN_FORMAT" ELSE "IGNORED"]
        /\ Advance(t, job[t])
        /\ UNCHANGED <<accounts, audit, transactions, sent, release, restarts>>

\* The account list is read once; the posting works on the copy it returned.
resolve_account(t) ==
    LET m == Message(t)
        found == Matches(ParseOf(m))
    IN  /\ pc[t] = "parse"
        /\ ParseOf(m).outcome = "ok"
        /\ payment' = [payment EXCEPT ![t] = PaymentOf(m)]
        /\ \/ /\ found = {}
              /\ GoTo(t, "stub_insert")
              /\ UNCHANGED session
           \/ \E id \in found : Hold(t, "sms_check", id, accounts[id], NoChange)
        /\ UNCHANGED <<accounts, audit, transactions, rawEvents, job, sent, release,
                       restarts>>

\* Mutant: the type of a stub is the hint, given or not.
StubUntyped(p) == [bank |-> p.bank, digits |-> p.digits, type |-> p.type,
                   status |-> "PENDING", opening |-> 0, balance |-> 0]

StubOf(p) == [bank |-> p.bank, digits |-> p.digits,
              type |-> IF p.type = NULL THEN "BANK" ELSE p.type,
              status |-> "PENDING", opening |-> 0, balance |-> 0]

\* add and commit of the stub, with no event.  A unique violation is not
\* rolled back here, so the handler of the failure fails too.
stub_insert(t) ==
    LET stub == StubOf(ParseOf(Message(t)))
    IN  /\ pc[t] = "stub_insert"
        /\ \/ /\ InsertFails(stub)
              /\ Raise(t, [job[t] EXCEPT !.poisoned = TRUE])
              /\ UNCHANGED accounts
           \/ /\ ~InsertFails(stub)
              /\ \E id \in AccountIds \ Stored :
                    /\ accounts' = [accounts EXCEPT ![id] = stub]
                    /\ Hold(t, "stub_refresh", id, NULL, NoChange)
              /\ job' = [job EXCEPT ![t].created = TRUE]
              /\ UNCHANGED payment
        /\ UNCHANGED <<audit, transactions, rawEvents, sent, release, restarts>>

stub_refresh(t) ==
    LET id == session[t].target
    IN  /\ pc[t] = "stub_refresh"
        /\ Hold(t, "sms_check", id, accounts[id], NoChange)
        /\ UNCHANGED <<accounts, audit, transactions, payment, rawEvents, job, sent,
                       release, restarts>>

-----------------------------------------------------------------------------
(* Posting it.                                                             *)

\* allow_archived_account is set for an archived match, not for a new stub.
Refused(t) == job[t].created /\ session[t].seen.status = "ARCHIVED"

NeedsReview(t) == job[t].created \/ session[t].seen.status = "ARCHIVED"

\* Mutant: a duplicate is published and marked like a posting.
DuplicateAsPosted(t) ==
    /\ job' = [job EXCEPT ![t].outcome = "PROCESSED", ![t].buffer = Append(@, NULL)]
    /\ GoTo(t, "mark")
    /\ UNCHANGED <<session, payment>>

\* DuplicateTransactionError: the buffer is dropped, the status is set next.
Duplicate(t) ==
    /\ job' = [job EXCEPT ![t].outcome = "DUPLICATE", ![t].buffer = <<>>]
    /\ GoTo(t, "mark")
    /\ UNCHANGED <<session, payment>>

\* create_transaction up to its pre-check.
sms_check(t) ==
    /\ pc[t] = "sms_check"
    /\ \/ Refused(t) /\ Failed(t, job[t])
       \/ ~Refused(t) /\ Posted(Pending(t)) /\ Duplicate(t)
       \/ /\ ~Refused(t) /\ ~Posted(Pending(t))
          /\ GoTo(t, "sms_write")
          /\ UNCHANGED <<session, payment, job>>
    /\ UNCHANGED <<accounts, audit, transactions, rawEvents, sent, release, restarts>>

\* flush, publish and commit.  An event whose commit failed stays in the
\* buffer, for a transaction that does not exist.
sms_write(t) ==
    /\ pc[t] = "sms_write"
    /\ \/ /\ Posted(Pending(t))
          /\ Duplicate(t)
          /\ UNCHANGED <<accounts, audit, transactions>>
       \/ /\ ~Posted(Pending(t)) /\ PostFails(t)
          /\ Failed(t, IF Representable(payment[t].amount)
                       THEN [job[t] EXCEPT !.buffer = Append(@, NULL)] ELSE job[t])
          /\ UNCHANGED <<accounts, audit, transactions>>
       \/ /\ ~PostFails(t)
          /\ PostEffect(t)
          /\ job' = [job EXCEPT
                ![t].outcome = IF NeedsReview(t) THEN "NEEDS_REVIEW" ELSE "PROCESSED",
                ![t].buffer = Append(@, Len(transactions) + 1)]
          /\ GoTo(t, "mark")
          /\ UNCHANGED <<session, payment>>
    /\ UNCHANGED <<rawEvents, sent, release, restarts>>

\* _set_status.
mark(t) ==
    /\ pc[t] = "mark"
    /\ rawEvents' = [rawEvents EXCEPT ![Message(t)] = job[t].outcome]
    /\ IF job[t].outcome = "DUPLICATE" THEN Advance(t, job[t])
       ELSE GoTo(t, "flush") /\ UNCHANGED <<session, payment, job>>
    /\ UNCHANGED <<accounts, audit, transactions, sent, release, restarts>>

\* Mutant: every event is sent.
NotifyAll(event) == sent' = Append(sent, event)

\* TelegramNotifier.publish: an event of a transaction that is not in the table
\* is skipped; the user may not want a message, and Telegram may not take it.
Notify(event) ==
    \/ event # NULL /\ sent' = Append(sent, event)
    \/ UNCHANGED sent

\* The buffer is emptied, one event after the other.
flush(t) ==
    LET rest == Tail(job[t].buffer)
    IN  /\ pc[t] = "flush"
        /\ Notify(Head(job[t].buffer))
        /\ IF rest = <<>> THEN Advance(t, [job[t] EXCEPT !.buffer = rest])
           ELSE /\ job' = [job EXCEPT ![t].buffer = rest]
                /\ UNCHANGED <<pc, session, payment>>
        /\ UNCHANGED <<accounts, audit, transactions, rawEvents, release, restarts>>

-----------------------------------------------------------------------------
(* The process.                                                            *)

\* The process stops and comes back, perhaps with another parser: what was
\* committed stays, every request in flight is gone.
restart ==
    /\ restarts < MaxRestarts
    /\ restarts' = restarts + 1
    /\ release' \in Releases
    /\ pc' = [t \in Threads |-> "idle"]
    /\ session' = [t \in Threads |-> NoSession]
    /\ payment' = [t \in Threads |-> NULL]
    /\ job' = [t \in Threads |-> NoJob]
    /\ UNCHANGED <<accounts, audit, transactions, rawEvents, sent>>

MessageStep(t) ==
    \/ pick(t) \/ lookup(t) \/ store(t) \/ record_unparsed(t) \/ resolve_account(t)
    \/ stub_insert(t) \/ stub_refresh(t) \/ sms_check(t) \/ sms_write(t)
    \/ mark(t) \/ flush(t)

IngestionNext ==
    \/ LedgerNext /\ UNCHANGED <<rawEvents, job, sent, release, restarts>>
    \/ \E t \in Threads :
          ingest_sms(t) \/ import_batch(t) \/ reprocess(t) \/ MessageStep(t)
    \/ restart

IngestionSpec == IngestionInit /\ [][IngestionNext]_ingestionVars

\* The scheduler runs every request to its end; the user keeps asking for a
\* reprocessing.  Nothing makes the clients send anything else.
Fairness ==
    /\ \A t \in Threads : WF_ingestionVars(AccountsStep(t) \/ LedgerStep(t) \/ MessageStep(t))
    /\ SF_ingestionVars(\E t \in Threads : reprocess(t))

FairIngestionSpec == IngestionSpec /\ Fairness

-----------------------------------------------------------------------------
(* Properties.                                                             *)

IngestionSteps == LedgerSteps \cup
    {"pick", "lookup", "store", "parse", "stub_insert", "stub_refresh", "sms_check",
     "sms_write", "mark", "flush"}

IsJob(j) ==
    /\ DOMAIN j = DOMAIN NoJob
    /\ j.kind \in {"sms", "batch", "reprocess", NULL}
    /\ j.window \subseteq RawEventIds
    /\ j.turn \in 0 .. Len(REPROCESSABLE_STATUSES)
    /\ j.todo \in Seq(RawEventIds)
    /\ j.outcome \in ProcessingStatus \cup {NULL}
    /\ j.created \in BOOLEAN /\ j.poisoned \in BOOLEAN
    /\ \A i \in 1 .. Len(j.buffer) : j.buffer[i] \in Nat \cup {NULL}

\* The tables, the jobs and the process hold well-formed values.
IngestionTypeOK ==
    /\ accounts \in [AccountIds -> Account \cup {NULL}]
    /\ transactions \in Seq(Transaction)
    /\ pc \in [Threads -> IngestionSteps]
    /\ payment \in [Threads -> Payment \cup {NULL}]
    /\ rawEvents \in [RawEventIds -> ProcessingStatus \cup {NULL}]
    /\ DOMAIN job = Threads /\ \A t \in Threads : IsJob(job[t])
    /\ \A i \in 1 .. Len(sent) : sent[i] \in Nat
    /\ release \in Releases /\ restarts \in 0 .. MaxRestarts

\* The status of a message tells the truth about the ledger, although status
\* and transaction commit one after the other and a restart, another delivery
\* or a reprocessing may come between: PROCESSED and NEEDS_REVIEW messages have
\* a transaction of their own, what a DUPLICATE says is posted.
StatusTellsTruth ==
    \A m \in RawEventIds :
        /\ rawEvents[m] \in {"PROCESSED", "NEEDS_REVIEW"} =>
              \E i \in 1 .. Len(transactions) : transactions[i].raw = m
        /\ rawEvents[m] = "DUPLICATE" =>
              \E i \in 1 .. Len(transactions), r \in Releases :
                  LET e == transactions[i]
                      p == Reading[r][m]
                  IN  <<e.amount, e.direction, e.key>> = <<p.amount, p.direction, p.key>>

\* "Duplicate SMS messages may happen because of SMS retransmission, historical
\* import, or reprocessing. The system must avoid duplicate transaction
\* creation." (architecture/07-sequence_diagrams.md:195)
OnePostingPerMessage ==
    \A i, j \in 1 .. Len(transactions) :
        /\ transactions[i].raw # NULL
        /\ transactions[i].raw = transactions[j].raw
        => i = j

\* What that rests on, in the messages and in what users do to accounts: a
\* message names its account and its bank, every parser reads the same payment
\* out of it, messages that name one account ask for one stub, and nobody gives
\* an account those digits, or what identifies it another value, by hand.
Transactional(r, m) == Reading[r][m].outcome = "ok"

MessageDigits == {d \in Digits : \E r \in Releases, m \in RawEventIds :
                                     Transactional(r, m) /\ Reading[r][m].digits = d}

MessagesNameTheirAccount ==
    /\ \A r \in Releases, m \in RawEventIds : Transactional(r, m) =>
          Reading[r][m].digits # NULL /\ Reading[r][m].bank # NULL
    /\ \A r, s \in Releases, m \in RawEventIds :
          Transactional(r, m) /\ Transactional(s, m) =>
              LET p == Reading[r][m]
                  q == Reading[s][m]
              IN  <<p.digits, p.amount, p.direction, p.key>> =
                  <<q.digits, q.amount, q.direction, q.key>>
    /\ \A r, s \in Releases, m, n \in RawEventIds :
          /\ Transactional(r, m) /\ Transactional(s, n)
          /\ Reading[r][m].digits = Reading[s][n].digits
          => Identity(StubOf(Reading[r][m])) = Identity(StubOf(Reading[s][n]))
    /\ \A a, b \in AccountIds :
          /\ InitialAccounts[a] # NULL /\ InitialAccounts[b] # NULL
          /\ InitialAccounts[a].digits \in MessageDigits
          /\ InitialAccounts[a].digits = InitialAccounts[b].digits
          => a = b
    /\ \A row \in NewAccounts : row.digits \notin MessageDigits
    /\ \A patch \in Patches : DOMAIN patch \cap IDENTITY_FIELDS = {}

\* Telegram is told of a transaction once at most, and never of one that rolled
\* back, although a failed message leaves its event in the buffer of its batch
\* (BufferedEventPublisher, and the notifier's look at the table).
AnnouncedIsPosted ==
    /\ \A i \in 1 .. Len(sent) : /\ sent[i] \in 1 .. Len(transactions)
                                 /\ transactions[sent[i]].raw # NULL
    /\ \A i, j \in 1 .. Len(sent) : sent[i] = sent[j] => i = j

\* The messages handler t drops in this step.
Dropped(t) == {job[t].todo[i] : i \in 1 .. Len(job[t].todo)} \
              {job'[t].todo[i] : i \in 1 .. Len(job'[t].todo)}

\* "One failed message must not fail entire batch."
\* (architecture/09-error_handling_standards.md:935, import_batch): a message
\* of a batch is dropped only when it is stored.
BatchGoesOn ==
    [][restarts' = restarts =>
          \A t \in Threads : job[t].kind = "batch" =>
              \A m \in Dropped(t) : rawEvents'[m] # NULL]_ingestionVars

\* What breaks the rule is the session a stub's unique violation leaves behind,
\* and nothing else.
OnlyPoisonDropsMessages ==
    [][restarts' = restarts =>
          \A t \in Threads : job[t].kind = "batch" /\ ~job[t].poisoned =>
              \A m \in Dropped(t) : rawEvents'[m] # NULL]_ingestionVars

\* "Only `FAILED`, `UNKNOWN_FORMAT` and `RECEIVED` events are eligible"
\* (docs/sprint-11-13-import-and-ai.md:34): a message that gave a transaction,
\* or repeats one, is never again shown as unread, ignored or waiting, although
\* a reprocessing picks its messages long before it works on them, other
\* requests work on the same ones meanwhile and a restart may bring a parser
\* that reads less.  (It may turn to DUPLICATE: of itself.)
Settled(m) == rawEvents[m] \in {"PROCESSED", "NEEDS_REVIEW", "DUPLICATE"}

NeverTakenBack ==
    [][\A m \in RawEventIds : Settled(m) => Settled(m)']_ingestionVars

\* "Re-run stored messages that never produced a transaction." (reprocess): a
\* message that a restart cut off is decided by a later reprocessing.
StoredIsDecided ==
    \A m \in RawEventIds : rawEvents[m] = "RECEIVED" ~> rawEvents[m] # "RECEIVED"
=============================================================================
