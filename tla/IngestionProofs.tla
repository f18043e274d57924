-------------------------- MODULE IngestionProofs --------------------------
(***************************************************************************)
(* Theorems of Ingestion, for every set of handlers, messages, parsers and  *)
(* restarts.                                                               *)
(*                                                                         *)
(* The invariant says what a handler has in hand at each step of a message  *)
(* (AtWork), so that what it commits last, the status, is true of what it   *)
(* or another handler committed before; and whose every undelivered event   *)
(* is (Undelivered), so that nothing is announced twice.                    *)
(***************************************************************************)
EXTENDS Ingestion, LedgerProofs, FiniteSetTheorems, SequenceTheorems

Ranges == Windows \cup {{}}

Turns == 0 .. 3

Job == [kind : {"sms", "batch", "reprocess", NULL}, window : Ranges,
        turn : Turns, todo : Seq(RawEventIds),
        outcome : ProcessingStatus \cup {NULL}, created : BOOLEAN, poisoned : BOOLEAN,
        buffer : Seq(Nat \cup {NULL})]

\* The steps at which a handler has a message before it.

MessageSteps == {"lookup", "store", "parse", "stub_insert", "stub_refresh", "sms_check",
                 "sms_write", "mark", "flush"}

IngestionTypes ==
    /\ pc \in [Threads -> IngestionSteps]
    /\ rawEvents \in [RawEventIds -> ProcessingStatus \cup {NULL}]
    /\ job \in [Threads -> Job]
    /\ sent \in Seq(Nat)
    /\ release \in Releases
    /\ restarts \in Nat /\ restarts <= MaxRestarts

\* What `status` would say of message m is so.
Tellable(m, status) ==
    /\ status \in {"PROCESSED", "NEEDS_REVIEW"} =>
          \E i \in 1 .. Len(transactions) : transactions[i].raw = m
    /\ status = "DUPLICATE" =>
          \E i \in 1 .. Len(transactions), r \in Releases :
              LET e == transactions[i]
                  p == Reading[r][m]
              IN  <<e.amount, e.direction, e.key>> = <<p.amount, p.direction, p.key>>

\* What handler t has in hand.
AtWork(t) ==
    /\ pc[t] \notin MessageSteps \cup {"pick"} => job[t] = NoJob
    /\ pc[t] = "pick" => job[t].kind = "reprocess" /\ job[t].turn \in 1 .. 3
    /\ pc[t] \in MessageSteps =>
          /\ job[t].kind \in {"sms", "batch", "reprocess"}
          /\ job[t].todo # <<>>
    /\ pc[t] \in MessageSteps \ {"lookup", "store"} => rawEvents[Message(t)] # NULL
    /\ job[t].kind = "reprocess" =>
          \A i \in 1 .. Len(job[t].todo) : rawEvents[job[t].todo[i]] # NULL
    /\ pc[t] \in {"stub_insert", "stub_refresh", "sms_check", "sms_write", "mark"} =>
          ParseOf(Message(t)).outcome = "ok"
    /\ pc[t] \in {"stub_insert", "stub_refresh", "sms_check", "sms_write"} =>
          payment[t] = PaymentOf(Message(t))
    /\ pc[t] = "stub_refresh" => session[t].target \in Stored
    /\ pc[t] \in {"sms_check", "sms_write"} => PostingInd(t)
    /\ pc[t] = "mark" =>
          /\ job[t].outcome \in {"PROCESSED", "NEEDS_REVIEW", "DUPLICATE"}
          /\ job[t].outcome # "DUPLICATE" => job[t].buffer # <<>>
          /\ Tellable(Message(t), job[t].outcome)
    /\ pc[t] = "flush" => job[t].buffer # <<>>

\* The event at place i of the buffer of t waits for nobody else, and was not
\* delivered before.
Undelivered ==
    /\ \A t \in Threads : \A i \in 1 .. Len(job[t].buffer) :
          job[t].buffer[i] # NULL =>
              /\ job[t].buffer[i] \in 1 .. Len(transactions)
              /\ transactions[job[t].buffer[i]].raw # NULL
              /\ \A k \in 1 .. Len(sent) : sent[k] # job[t].buffer[i]
    /\ \A t, u \in Threads :
          \A i \in 1 .. Len(job[t].buffer), j \in 1 .. Len(job[u].buffer) :
              job[t].buffer[i] # NULL /\ job[t].buffer[i] = job[u].buffer[j] =>
                  t = u /\ i = j

IngestionInd ==
    /\ LedgerInd
    /\ IngestionTypes
    /\ \A t \in Threads : AtWork(t)
    /\ \A m \in RawEventIds : Tellable(m, rawEvents[m])
    /\ Undelivered
    /\ AnnouncedIsPosted

-----------------------------------------------------------------------------
(* What the steps have in common.                                          *)

\* Only handler t moves.
Others(t) ==
    \A u \in Threads \ {t} : /\ pc'[u] = pc[u] /\ session'[u] = session[u]
                             /\ payment'[u] = payment[u] /\ job'[u] = job[u]

\* The table of transactions is only appended to.
Prefix ==
    /\ Len(transactions') \in Nat /\ Len(transactions) \in Nat
    /\ Len(transactions) <= Len(transactions')
    /\ \A i \in 1 .. Len(transactions) : transactions'[i] = transactions[i]

\* No row of a table goes away, and the parser stays.
Grows ==
    /\ Prefix
    /\ \A id \in Stored : accounts'[id] # NULL
    /\ \A m \in RawEventIds : rawEvents[m] # NULL => rawEvents'[m] # NULL
    /\ release' = release

LEMMA NoJobTyped == NoJob \in Job
<1>0. {} \in Ranges /\ 0 \in Turns
  BY DEF Ranges, Turns
<1>1. PICK none \in Ranges, past \in Turns : none = {} /\ past = 0
  BY <1>0
<1> QED BY <1>1 DEF NoJob, Job

LEMMA Same ==
    ASSUME IngestionInd, transactions' = transactions
    PROVE  Prefix
BY DEF IngestionInd, LedgerInd, Prefix

LEMMA TellableStays ==
    ASSUME Prefix, NEW m, NEW status, Tellable(m, status)
    PROVE  Tellable(m, status)'
<1>1. \A i \in 1 .. Len(transactions) : i \in 1 .. Len(transactions') /\ transactions'[i] = transactions[i]
  BY DEF Prefix
<1>2. CASE status \in {"PROCESSED", "NEEDS_REVIEW"}
  <2>1. \E i \in 1 .. Len(transactions) : transactions[i].raw = m
    BY <1>2 DEF Tellable
  <2>2. \E i \in 1 .. Len(transactions') : transactions'[i].raw = m
    BY <1>1, <2>1
  <2> QED BY <1>2, <2>2 DEF Tellable
<1>3. CASE status = "DUPLICATE"
  <2>1. PICK i \in 1 .. Len(transactions), r \in Releases :
            <<transactions[i].amount, transactions[i].direction, transactions[i].key>> =
            <<Reading[r][m].amount, Reading[r][m].direction, Reading[r][m].key>>
    BY <1>3 DEF Tellable
  <2>2. i \in 1 .. Len(transactions') /\ transactions'[i] = transactions[i]
    BY <1>1
  <2> QED BY <1>3, <2>1, <2>2 DEF Tellable
<1> QED BY <1>2, <1>3 DEF Tellable

\* The statuses stay true when each new one says nothing or what is so.
LEMMA StatusesStay ==
    ASSUME IngestionInd, Prefix,
           \A m \in RawEventIds :
               \/ rawEvents'[m] = rawEvents[m]
               \/ rawEvents'[m] \in {"RECEIVED", "UNKNOWN_FORMAT", "IGNORED"}
               \/ Tellable(m, rawEvents'[m])
    PROVE  \A m \in RawEventIds : Tellable(m, rawEvents[m])'
<1> SUFFICES ASSUME NEW m \in RawEventIds PROVE Tellable(m, rawEvents[m])'
  OBVIOUS
<1>1. PICK status : status = rawEvents'[m]
  OBVIOUS
<1>2. Tellable(m, status)
  BY <1>1 DEF Tellable, IngestionInd
<1>3. Tellable(m, status)'
  BY <1>2, TellableStays
<1> QED BY <1>1, <1>3 DEF Tellable

\* A handler that does not move has in hand what it had.
LEMMA WorkKept ==
    ASSUME IngestionInd, Grows, NEW u \in Threads,
           pc'[u] = pc[u], session'[u] = session[u], payment'[u] = payment[u],
           job'[u] = job[u]
    PROVE  AtWork(u)'
<1>1. AtWork(u) /\ job[u] \in Job
  BY DEF IngestionInd, IngestionTypes
<1>2. /\ Message(u)' = Message(u) /\ ParseOf(Message(u))' = ParseOf(Message(u))
      /\ PaymentOf(Message(u))' = PaymentOf(Message(u))
  BY DEF Message, ParseOf, PaymentOf, Grows
<1>3. job[u].todo # <<>> => Message(u) \in RawEventIds
  BY <1>1 DEF Job, Message
<1>4. pc[u] \in MessageSteps => Message(u) \in RawEventIds
  BY <1>1, <1>3 DEF AtWork
<1>5. PostingInd(u) => PostingInd(u)'
  BY DEF PostingInd, Stored, Grows
<1>6. ASSUME pc[u] = "mark" PROVE Tellable(Message(u), job[u].outcome)'
  <2>1. PICK m, status : m = Message(u) /\ status = job[u].outcome
    OBVIOUS
  <2>2. Tellable(m, status)
    BY <1>1, <1>6, <2>1 DEF AtWork
  <2>3. Tellable(m, status)'
    BY <2>2, TellableStays DEF Grows
  <2>4. m = Message(u)' /\ status = job[u]'.outcome
    BY <1>2, <2>1
  <2> QED BY <2>3, <2>4 DEF Tellable
<1>7. pc[u] \in MessageSteps \ {"lookup", "store"} => rawEvents'[Message(u)] # NULL
  BY <1>1, <1>4 DEF AtWork, Grows
<1>8. job[u].kind = "reprocess" =>
          \A i \in 1 .. Len(job[u].todo) : rawEvents'[job[u].todo[i]] # NULL
  BY <1>1 DEF AtWork, Grows, Job
<1>9. pc[u] = "stub_refresh" => session[u].target \in Stored'
  BY <1>1 DEF AtWork, Grows, Stored
<1> QED BY <1>1, <1>2, <1>5, <1>6, <1>7, <1>8, <1>9 DEF AtWork

LEMMA Assembled ==
    ASSUME IngestionInd, NEW t \in Threads, Others(t), Grows,
           LedgerInd', IngestionTypes', AtWork(t)',
           \A m \in RawEventIds : Tellable(m, rawEvents[m])',
           Undelivered', AnnouncedIsPosted'
    PROVE  IngestionInd'
<1>1. \A u \in Threads : AtWork(u)'
  <2>1. ASSUME NEW u \in Threads, u # t PROVE AtWork(u)'
    BY <2>1, WorkKept DEF Others
  <2> QED BY <2>1
<1> QED BY <1>1 DEF IngestionInd

\* The ledger's part of a step that ends outside the ledger's own requests.
LEMMA LedgerSide ==
    ASSUME IngestionInd, NEW t \in Threads, Others(t), TablesMove,
           DOMAIN pc' = Threads, DOMAIN session' = Threads,
           IsSession(session'[t]), pc'[t] \in MessageSteps \cup {"idle", "pick"},
           payment' \in [Threads -> Payment \cup {NULL}]
    PROVE  LedgerInd'
<1>1. AccountsInd'
  <2>1. /\ AccountsInd /\ \A id \in Stored : id \in Stored'
    BY DEF IngestionInd, LedgerInd, TablesMove, Stored
  <2>2. /\ accounts' \in [AccountIds -> Account \cup {NULL}] /\ IsSeq(audit')
    BY DEF TablesMove
  <2>3. \A u \in Threads \ {t} : pc'[u] = pc[u] /\ session'[u] = session[u]
    BY DEF Others
  <2> QED BY <2>1, <2>2, <2>3 DEF AccountsInd, MessageSteps
<1>2. HandlerInd(t)'
  BY DEF HandlerInd, MessageSteps
<1> QED BY <1>1, <1>2, StepKeeps DEF IngestionInd, Others

\* The events that wait, when handler t keeps a part of its buffer, or delivers
\* its first event and keeps the others.
LEMMA BufferKept ==
    ASSUME IngestionInd, NEW t \in Threads, Others(t), Prefix,
           job' \in [Threads -> Job], NEW k \in {0, 1},
           \A i \in 1 .. Len(job'[t].buffer) :
               job'[t].buffer[i] # NULL =>
                   /\ i + k \in 1 .. Len(job[t].buffer)
                   /\ job'[t].buffer[i] = job[t].buffer[i + k],
           \/ sent' = sent
           \/ /\ k = 1 /\ job[t].buffer # <<>> /\ job[t].buffer[1] # NULL
              /\ sent' = Append(sent, job[t].buffer[1])
    PROVE  Undelivered' /\ AnnouncedIsPosted'
<1>1. /\ job \in [Threads -> Job] /\ sent \in Seq(Nat)
      /\ Undelivered /\ AnnouncedIsPosted
  BY DEF IngestionInd, IngestionTypes
<1>2. \A u \in Threads : /\ job[u].buffer \in Seq(Nat \cup {NULL})
                         /\ job'[u].buffer \in Seq(Nat \cup {NULL})
                         /\ Len(job[u].buffer) \in Nat /\ Len(job'[u].buffer) \in Nat
  BY <1>1 DEF Job
<1>3. PICK old : old = [u \in Threads |-> job[u].buffer]
  OBVIOUS
<1>4. PICK new : new = [u \in Threads |-> job'[u].buffer]
  OBVIOUS
\* Where entry i of the new buffer of u came from.
<1> DEFINE from(u, i) == IF u = t THEN i + k ELSE i
<1>5. ASSUME NEW u \in Threads, NEW i \in 1 .. Len(new[u]), new[u][i] # NULL
      PROVE  from(u, i) \in 1 .. Len(old[u]) /\ new[u][i] = old[u][from(u, i)]
  <2>1. CASE u = t
    BY <1>3, <1>4, <1>5, <2>1
  <2>2. CASE u # t
    <3>1. job'[u] = job[u]
      BY <2>2 DEF Others
    <3> QED BY <1>3, <1>4, <1>5, <2>2, <3>1
  <2> QED BY <2>1, <2>2
<1>a. \A u \in Threads : \A i, j \in 1 .. Len(new[u]) :
          /\ from(u, i) = from(u, j) => i = j
          /\ u = t /\ k = 1 => from(u, i) # 1
  BY <1>2, <1>4
<1> HIDE DEF from
<1>6. \A u \in Threads : \A i \in 1 .. Len(old[u]) : old[u][i] # NULL =>
          /\ old[u][i] \in 1 .. Len(transactions)
          /\ transactions[old[u][i]].raw # NULL
          /\ \A l \in 1 .. Len(sent) : sent[l] # old[u][i]
  BY <1>1, <1>3 DEF Undelivered
<1>7. \A u, v \in Threads : \A i \in 1 .. Len(old[u]), j \in 1 .. Len(old[v]) :
          old[u][i] # NULL /\ old[u][i] = old[v][j] => u = v /\ i = j
  BY <1>1, <1>3 DEF Undelivered
<1>8. \A i \in 1 .. Len(transactions) : /\ i \in 1 .. Len(transactions')
                                        /\ transactions'[i] = transactions[i]
  BY DEF Prefix
<1>9. CASE sent' = sent
  <2>1. \A u \in Threads : \A i \in 1 .. Len(new[u]) : new[u][i] # NULL =>
            /\ new[u][i] \in 1 .. Len(transactions')
            /\ transactions'[new[u][i]].raw # NULL
            /\ \A l \in 1 .. Len(sent') : sent'[l] # new[u][i]
    <3> SUFFICES ASSUME NEW u \in Threads, NEW i \in 1 .. Len(new[u]), new[u][i] # NULL
                 PROVE  /\ new[u][i] \in 1 .. Len(transactions')
                        /\ transactions'[new[u][i]].raw # NULL
                        /\ \A l \in 1 .. Len(sent') : sent'[l] # new[u][i]
      OBVIOUS
    <3>1. PICK j \in 1 .. Len(old[u]) : new[u][i] = old[u][j]
      BY <1>5
    <3>2. /\ old[u][j] \in 1 .. Len(transactions)
          /\ transactions[old[u][j]].raw # NULL
          /\ \A l \in 1 .. Len(sent) : sent[l] # old[u][j]
      BY <1>6, <3>1
    <3> QED BY <1>8, <1>9, <3>1, <3>2
  <2>2. AnnouncedIsPosted'
    BY <1>1, <1>8, <1>9 DEF AnnouncedIsPosted
  <2>3. ASSUME NEW u \in Threads, NEW v \in Threads,
               NEW i \in 1 .. Len(new[u]), NEW j \in 1 .. Len(new[v]),
               new[u][i] # NULL, new[u][i] = new[v][j]
        PROVE  u = v /\ i = j
    <3>1. /\ from(u, i) \in 1 .. Len(old[u]) /\ new[u][i] = old[u][from(u, i)]
          /\ from(v, j) \in 1 .. Len(old[v]) /\ new[v][j] = old[v][from(v, j)]
      BY <1>5, <2>3
    <3>2. PICK x, y : x = from(u, i) /\ y = from(v, j)
      OBVIOUS
    <3>3. /\ x \in 1 .. Len(old[u]) /\ y \in 1 .. Len(old[v])
          /\ old[u][x] # NULL /\ old[u][x] = old[v][y]
      BY <2>3, <3>1, <3>2
    <3>4. u = v /\ x = y
      BY <1>7, <3>3
    <3> QED BY <1>a, <3>2, <3>4
  <2> QED BY <1>4, <2>1, <2>2, <2>3 DEF Undelivered
<1>10. CASE /\ k = 1 /\ job[t].buffer # <<>> /\ job[t].buffer[1] # NULL
            /\ sent' = Append(sent, job[t].buffer[1])
  <2>1. PICK b : b = old[t][1]
    OBVIOUS
  <2>2. /\ 1 \in 1 .. Len(old[t]) /\ b # NULL /\ b = job[t].buffer[1] /\ b \in Nat
        /\ b \in 1 .. Len(transactions) /\ transactions[b].raw # NULL
        /\ \A l \in 1 .. Len(sent) : sent[l] # b
    <3>1. 1 \in 1 .. Len(old[t])
      BY <1>2, <1>3, <1>10
    <3>2. b # NULL /\ b = job[t].buffer[1]
      BY <1>3, <1>10, <2>1
    <3>3. b \in Nat
      BY <1>2, <1>3, <2>1, <3>1, <3>2
    <3>4. /\ b \in 1 .. Len(transactions) /\ transactions[b].raw # NULL
          /\ \A l \in 1 .. Len(sent) : sent[l] # b
      BY <1>6, <2>1, <3>1, <3>2
    <3> QED BY <3>1, <3>2, <3>3, <3>4
  <2>3. /\ Len(sent) \in Nat /\ Len(sent') = Len(sent) + 1 /\ sent'[Len(sent) + 1] = b
        /\ \A l \in 1 .. Len(sent) : sent'[l] = sent[l]
        /\ \A l \in 1 .. Len(sent') : l \in 1 .. Len(sent) \/ l = Len(sent) + 1
    BY <1>1, <1>10, <2>2
  <2>4. ASSUME NEW u \in Threads, NEW i \in 1 .. Len(new[u]), new[u][i] # NULL
        PROVE  /\ new[u][i] \in 1 .. Len(transactions')
               /\ transactions'[new[u][i]].raw # NULL
               /\ \A l \in 1 .. Len(sent') : sent'[l] # new[u][i]
    <3>1. from(u, i) \in 1 .. Len(old[u]) /\ new[u][i] = old[u][from(u, i)]
      BY <1>5, <2>4
    <3>2. PICK x : x = from(u, i)
      OBVIOUS
    <3>3. x \in 1 .. Len(old[u]) /\ new[u][i] = old[u][x] /\ old[u][x] # NULL
      BY <2>4, <3>1, <3>2
    <3>4. old[u][x] # b
      <4>1. SUFFICES ASSUME old[u][x] = old[t][1] PROVE FALSE
        BY <2>1
      <4>2. u = t /\ x = 1
        BY <1>7, <2>2, <3>3, <4>1
      <4> QED BY <1>10, <1>a, <3>2, <4>2
    <3>5. /\ old[u][x] \in 1 .. Len(transactions)
          /\ transactions[old[u][x]].raw # NULL
          /\ \A l \in 1 .. Len(sent) : sent[l] # old[u][x]
      BY <1>6, <3>3
    <3>6. \A l \in 1 .. Len(sent') : sent'[l] # old[u][x]
      BY <2>3, <3>4, <3>5
    <3> QED BY <1>8, <3>3, <3>5, <3>6
  <2>5. AnnouncedIsPosted'
    <3>0. /\ \A l \in 1 .. Len(sent) : /\ sent[l] \in 1 .. Len(transactions)
                                       /\ transactions[sent[l]].raw # NULL
          /\ \A l, n \in 1 .. Len(sent) : sent[l] = sent[n] => l = n
      BY <1>1 DEF AnnouncedIsPosted
    <3>1. \A l \in 1 .. Len(sent') : /\ sent'[l] \in 1 .. Len(transactions')
                                     /\ transactions'[sent'[l]].raw # NULL
      <4> SUFFICES ASSUME NEW l \in 1 .. Len(sent')
                   PROVE  /\ sent'[l] \in 1 .. Len(transactions')
                          /\ transactions'[sent'[l]].raw # NULL
        OBVIOUS
      <4>1. CASE l \in 1 .. Len(sent)
        BY <1>8, <2>3, <3>0, <4>1
      <4>2. CASE l = Len(sent) + 1
        BY <1>8, <2>2, <2>3, <4>2
      <4> QED BY <2>3, <4>1, <4>2
    <3>2. \A l, n \in 1 .. Len(sent') : sent'[l] = sent'[n] => l = n
      <4> SUFFICES ASSUME NEW l \in 1 .. Len(sent'), NEW n \in 1 .. Len(sent'),
                          sent'[l] = sent'[n]
                   PROVE  l = n
        OBVIOUS
      <4>1. CASE l \in 1 .. Len(sent) /\ n \in 1 .. Len(sent)
        BY <2>3, <3>0, <4>1
      <4>2. CASE l \in 1 .. Len(sent) /\ n = Len(sent) + 1
        BY <2>2, <2>3, <4>2
      <4>3. CASE n \in 1 .. Len(sent) /\ l = Len(sent) + 1
        BY <2>2, <2>3, <4>3
      <4> QED BY <2>3, <4>1, <4>2, <4>3
    <3> QED BY <3>1, <3>2 DEF AnnouncedIsPosted
  <2>6. ASSUME NEW u \in Threads, NEW v \in Threads,
               NEW i \in 1 .. Len(new[u]), NEW j \in 1 .. Len(new[v]),
               new[u][i] # NULL, new[u][i] = new[v][j]
        PROVE  u = v /\ i = j
    <3>1. /\ from(u, i) \in 1 .. Len(old[u]) /\ new[u][i] = old[u][from(u, i)]
          /\ from(v, j) \in 1 .. Len(old[v]) /\ new[v][j] = old[v][from(v, j)]
      BY <1>5, <2>6
    <3>2. PICK x, y : x = from(u, i) /\ y = from(v, j)
      OBVIOUS
    <3>3. /\ x \in 1 .. Len(old[u]) /\ y \in 1 .. Len(old[v])
          /\ old[u][x] # NULL /\ old[u][x] = old[v][y]
      BY <2>6, <3>1, <3>2
    <3>4. u = v /\ x = y
      BY <1>7, <3>3
    <3> QED BY <1>a, <3>2, <3>4
  <2> QED BY <1>4, <2>4, <2>5, <2>6 DEF Undelivered
<1> QED BY <1>9, <1>10

\* What a handler that is done with a message goes on with.
LEMMA AdvanceGives ==
    ASSUME IngestionInd, NEW t \in Threads, NEW j \in Job,
           j.kind \in {"sms", "batch", "reprocess"}, j.todo # <<>>, Advance(t, j)
    PROVE  /\ Others(t)
           /\ pc' \in [Threads -> IngestionSteps] /\ job' \in [Threads -> Job]
           /\ payment' \in [Threads -> Payment \cup {NULL}]
           /\ DOMAIN session' = Threads
           /\ session'[t] = NoSession /\ payment'[t] = NULL
           /\ \/ pc'[t] = "idle" /\ job'[t] = NoJob /\ Len(j.todo) = 1
              \/ /\ pc'[t] \in {"lookup", "parse"}
                 /\ pc'[t] = "parse" => j.kind = "reprocess"
                 /\ job'[t].kind = j.kind /\ job'[t].buffer = j.buffer
                 /\ job'[t].poisoned = j.poisoned
                 /\ job'[t].todo # <<>> /\ job'[t].todo = Tail(j.todo)
                 /\ Len(job'[t].todo) + 1 = Len(j.todo)
                 /\ \A i \in 1 .. Len(job'[t].todo) : job'[t].todo[i] = j.todo[i + 1]
<1>1. /\ pc \in [Threads -> IngestionSteps] /\ job \in [Threads -> Job]
      /\ payment \in [Threads -> Payment \cup {NULL}] /\ DOMAIN session = Threads
  BY DEF IngestionInd, IngestionTypes, LedgerInd, AccountsInd
<1>2. /\ j.todo \in Seq(RawEventIds) /\ Len(j.todo) \in Nat /\ Len(j.todo) > 0
      /\ Tail(j.todo) \in Seq(RawEventIds) /\ Len(Tail(j.todo)) + 1 = Len(j.todo)
      /\ \A i \in 1 .. Len(Tail(j.todo)) : Tail(j.todo)[i] = j.todo[i + 1]
  BY DEF Job
<1>3. CASE Len(j.todo) = 1
  <2>1. /\ pc' = [pc EXCEPT ![t] = "idle"] /\ session' = [session EXCEPT ![t] = NoSession]
        /\ payment' = [payment EXCEPT ![t] = NULL] /\ job' = [job EXCEPT ![t] = NoJob]
    BY <1>3 DEF Advance, Finish, ClosePost, Close
  <2>2. NoJob \in Job
    BY NoJobTyped
  <2>3. "idle" \in IngestionSteps
    BY DEF IngestionSteps, LedgerSteps, AccountSteps
  <2> QED BY <1>1, <1>3, <2>1, <2>2, <2>3 DEF Others
<1>4. CASE Len(j.todo) # 1
  <2> DEFINE next == [j EXCEPT !.todo = Tail(j.todo), !.outcome = NULL, !.created = FALSE]
  <2>1. /\ pc' = [pc EXCEPT ![t] = IF j.kind = "reprocess" THEN "parse" ELSE "lookup"]
        /\ session' = [session EXCEPT ![t] = NoSession]
        /\ payment' = [payment EXCEPT ![t] = NULL] /\ job' = [job EXCEPT ![t] = next]
    BY <1>4 DEF Advance, GoTo
  <2>2. /\ next \in Job /\ next.kind = j.kind /\ next.buffer = j.buffer
        /\ next.todo = Tail(j.todo) /\ next.poisoned = j.poisoned
    BY <1>2 DEF Job
  <2>3. {"lookup", "parse"} \subseteq IngestionSteps
    BY DEF IngestionSteps
  <2>4. Tail(j.todo) # <<>>
    <3>1. \A todo \in Seq(RawEventIds) : Len(todo) # 0 => todo # <<>>
      OBVIOUS
    <3>2. PICK rest \in Seq(RawEventIds) : rest = Tail(j.todo)
      BY <1>2
    <3>3. Len(rest) # 0
      BY <1>2, <1>4, <3>2
    <3> QED BY <3>1, <3>2, <3>3
  <2> HIDE DEF next
  <2>5. /\ job'[t] = next
        /\ pc'[t] = IF j.kind = "reprocess" THEN "parse" ELSE "lookup"
    BY <1>1, <2>1
  <2>6. /\ pc' \in [Threads -> IngestionSteps] /\ job' \in [Threads -> Job]
        /\ payment' \in [Threads -> Payment \cup {NULL}] /\ DOMAIN session' = Threads
        /\ session'[t] = NoSession /\ payment'[t] = NULL /\ Others(t)
    BY <1>1, <2>1, <2>2, <2>3 DEF Others
  <2> QED BY <1>2, <2>2, <2>4, <2>5, <2>6
<1> QED BY <1>3, <1>4

\* A handler that is done with a message, when the tables only grew, the new
\* statuses are true, and its buffer is what is left of the one it had.
LEMMA AdvanceInd ==
    ASSUME IngestionInd, NEW t \in Threads, NEW j \in Job,
           j.kind \in {"sms", "batch", "reprocess"}, j.todo # <<>>,
           j.kind = "reprocess" =>
               \A i \in 1 .. Len(j.todo) : rawEvents[j.todo[i]] # NULL,
           Advance(t, j), Grows, TablesMove,
           rawEvents' \in [RawEventIds -> ProcessingStatus \cup {NULL}],
           \A m \in RawEventIds : Tellable(m, rawEvents[m])',
           sent' \in Seq(Nat), restarts' = restarts,
           NEW k \in {0, 1},
           \A i \in 1 .. Len(j.buffer) : j.buffer[i] # NULL =>
               i + k \in 1 .. Len(job[t].buffer) /\ j.buffer[i] = job[t].buffer[i + k],
           \/ sent' = sent
           \/ /\ k = 1 /\ job[t].buffer # <<>> /\ job[t].buffer[1] # NULL
              /\ sent' = Append(sent, job[t].buffer[1])
    PROVE  IngestionInd'
<1>1. /\ Others(t)
      /\ pc' \in [Threads -> IngestionSteps] /\ job' \in [Threads -> Job]
      /\ payment' \in [Threads -> Payment \cup {NULL}]
      /\ DOMAIN session' = Threads
      /\ session'[t] = NoSession /\ payment'[t] = NULL
  BY AdvanceGives
<1>2. \/ pc'[t] = "idle" /\ job'[t] = NoJob
      \/ /\ pc'[t] \in {"lookup", "parse"} /\ (pc'[t] = "parse" => j.kind = "reprocess")
         /\ job'[t].kind = j.kind /\ job'[t].buffer = j.buffer
         /\ job'[t].todo # <<>>
         /\ Len(job'[t].todo) + 1 = Len(j.todo)
         /\ \A i \in 1 .. Len(job'[t].todo) : job'[t].todo[i] = j.todo[i + 1]
  BY AdvanceGives
<1>3. LedgerInd'
  <2>1. IsSession(NoSession)
    BY DEF IsSession, NoSession, NoChange, IsChange
  <2>2. DOMAIN pc' = Threads /\ pc'[t] \in MessageSteps \cup {"idle", "pick"}
    BY <1>1, <1>2 DEF MessageSteps
  <2> QED BY <1>1, <2>1, <2>2, LedgerSide
<1>4. IngestionTypes'
  BY <1>1 DEF Grows, IngestionInd, IngestionTypes
<1>5. AtWork(t)'
  <2>1. CASE pc'[t] = "idle" /\ job'[t] = NoJob
    BY <2>1 DEF AtWork, MessageSteps, NoJob
  <2>2. CASE /\ pc'[t] \in {"lookup", "parse"} /\ (pc'[t] = "parse" => j.kind = "reprocess")
             /\ job'[t].kind = j.kind /\ job'[t].todo # <<>>
             /\ Len(job'[t].todo) + 1 = Len(j.todo)
             /\ \A i \in 1 .. Len(job'[t].todo) : job'[t].todo[i] = j.todo[i + 1]
    <3>1. /\ job'[t].todo \in Seq(RawEventIds) /\ Len(job'[t].todo) \in Nat
          /\ Head(job'[t].todo) = job'[t].todo[1] /\ 1 \in 1 .. Len(job'[t].todo)
          /\ \A i \in 1 .. Len(job'[t].todo) :
                i + 1 \in 1 .. Len(j.todo) /\ job'[t].todo[i] \in RawEventIds
      <4>1. job'[t].todo \in Seq(RawEventIds)
        BY <1>1 DEF Job
      <4> QED BY <2>2, <4>1
    <3>2. j.kind = "reprocess" =>
              \A i \in 1 .. Len(job'[t].todo) : rawEvents'[job'[t].todo[i]] # NULL
      BY <2>2, <3>1 DEF Grows
    <3>3. pc'[t] = "parse" => rawEvents'[Head(job'[t].todo)] # NULL
      BY <2>2, <3>1, <3>2
    <3> QED BY <2>2, <3>2, <3>3 DEF AtWork, Message, MessageSteps
  <2> QED BY <1>2, <2>1, <2>2
<1>6. Undelivered' /\ AnnouncedIsPosted'
  <2>1. \A i \in 1 .. Len(job'[t].buffer) : job'[t].buffer[i] # NULL =>
            /\ i + k \in 1 .. Len(job[t].buffer)
            /\ job'[t].buffer[i] = job[t].buffer[i + k]
    BY <1>2 DEF NoJob
  <2> QED BY <1>1, <2>1, BufferKept DEF Grows
<1> QED BY <1>1, <1>3, <1>4, <1>5, <1>6, Assembled

\* A handler at a message has one.
LEMMA MessageFacts ==
    ASSUME IngestionInd, NEW t \in Threads, pc[t] \in MessageSteps
    PROVE  /\ job[t] \in Job /\ job[t].kind \in {"sms", "batch", "reprocess"}
           /\ job[t].todo # <<>> /\ job[t].todo \in Seq(RawEventIds)
           /\ Len(job[t].todo) \in Nat /\ 1 \in 1 .. Len(job[t].todo)
           /\ Message(t) = job[t].todo[1] /\ Message(t) \in RawEventIds
           /\ job[t].buffer \in Seq(Nat \cup {NULL}) /\ Len(job[t].buffer) \in Nat
           /\ job[t].kind = "reprocess" =>
                 \A i \in 1 .. Len(job[t].todo) : rawEvents[job[t].todo[i]] # NULL
<1>1. AtWork(t) /\ job[t] \in Job
  BY DEF IngestionInd, IngestionTypes
<1>2. job[t].todo # <<>> /\ job[t].todo \in Seq(RawEventIds)
  BY <1>1 DEF AtWork, Job
<1>3. /\ Len(job[t].todo) \in Nat /\ 1 \in 1 .. Len(job[t].todo)
      /\ Head(job[t].todo) = job[t].todo[1] /\ job[t].todo[1] \in RawEventIds
  BY <1>2
<1>4. job[t].buffer \in Seq(Nat \cup {NULL}) /\ Len(job[t].buffer) \in Nat
  BY <1>1 DEF Job
<1> QED BY <1>1, <1>2, <1>3, <1>4 DEF AtWork, Message

\* A status is set; none is unset.
LEMMA StatusSet ==
    ASSUME IngestionInd, NEW m \in RawEventIds, NEW status \in ProcessingStatus,
           rawEvents' = [rawEvents EXCEPT ![m] = status]
    PROVE  /\ rawEvents' \in [RawEventIds -> ProcessingStatus \cup {NULL}]
           /\ \A n \in RawEventIds : rawEvents[n] # NULL => rawEvents'[n] # NULL
           /\ \A n \in RawEventIds : \/ rawEvents'[n] = rawEvents[n]
                                     \/ n = m /\ rawEvents'[n] = status
           /\ rawEvents'[m] = status /\ rawEvents'[m] # NULL
<1>1. rawEvents \in [RawEventIds -> ProcessingStatus \cup {NULL}] /\ status # NULL
  BY IngestionAssumption DEF IngestionInd, IngestionTypes
<1> QED BY <1>1

LEMMA TablesStay ==
    ASSUME IngestionInd, UNCHANGED <<accounts, audit, transactions, rawEvents, release>>
    PROVE  /\ TablesMove /\ Grows /\ Prefix
           /\ rawEvents' \in [RawEventIds -> ProcessingStatus \cup {NULL}]
           /\ \A m \in RawEventIds : Tellable(m, rawEvents[m])'
<1>1. TablesMove /\ Prefix
  BY Unmoved, Same DEF IngestionInd
<1>2. Grows
  BY <1>1 DEF Grows, Stored
<1>3. \A m \in RawEventIds : Tellable(m, rawEvents[m])'
  BY <1>1, StatusesStay
<1> QED BY <1>1, <1>2, <1>3 DEF IngestionInd, IngestionTypes

\* A handler goes on without touching a table; its buffer is the old one with
\* perhaps an event of nothing.
LEMMA AdvanceHere ==
    ASSUME IngestionInd, NEW t \in Threads, pc[t] \in MessageSteps, NEW j \in Job,
           j.kind = job[t].kind, j.todo = job[t].todo,
           j.buffer \in {job[t].buffer, Append(job[t].buffer, NULL)},
           Advance(t, j),
           UNCHANGED <<accounts, audit, transactions, rawEvents, sent, release, restarts>>
    PROVE  IngestionInd'
<1>1. /\ TablesMove /\ Grows
      /\ rawEvents' \in [RawEventIds -> ProcessingStatus \cup {NULL}]
      /\ \A m \in RawEventIds : Tellable(m, rawEvents[m])'
  BY TablesStay
<1>2. /\ job[t].kind \in {"sms", "batch", "reprocess"} /\ job[t].todo # <<>>
      /\ job[t].buffer \in Seq(Nat \cup {NULL})
      /\ job[t].kind = "reprocess" =>
            \A i \in 1 .. Len(job[t].todo) : rawEvents[job[t].todo[i]] # NULL
  BY MessageFacts
<1>3. \A i \in 1 .. Len(j.buffer) : j.buffer[i] # NULL =>
          i + 0 \in 1 .. Len(job[t].buffer) /\ j.buffer[i] = job[t].buffer[i + 0]
  BY <1>2
<1>4. sent' = sent /\ sent' \in Seq(Nat)
  BY DEF IngestionInd, IngestionTypes
<1> QED BY <1>1, <1>2, <1>3, <1>4, AdvanceInd

\* The same when the step set a status.
LEMMA AdvanceMarked ==
    ASSUME IngestionInd, NEW t \in Threads, pc[t] \in MessageSteps,
           Advance(t, job[t]), Grows, TablesMove,
           rawEvents' \in [RawEventIds -> ProcessingStatus \cup {NULL}],
           \A m \in RawEventIds : Tellable(m, rawEvents[m])',
           sent' = sent, restarts' = restarts
    PROVE  IngestionInd'
<1>1. /\ job[t] \in Job
      /\ job[t].kind \in {"sms", "batch", "reprocess"} /\ job[t].todo # <<>>
      /\ job[t].buffer \in Seq(Nat \cup {NULL})
      /\ job[t].kind = "reprocess" =>
            \A i \in 1 .. Len(job[t].todo) : rawEvents[job[t].todo[i]] # NULL
  BY MessageFacts
<1>2. PICK j \in Job : j = job[t]
  BY <1>1
<1>3. PICK k \in {0, 1} : k = 0
  OBVIOUS
<1>4. \A i \in 1 .. Len(j.buffer) : j.buffer[i] # NULL =>
          i + k \in 1 .. Len(job[t].buffer) /\ j.buffer[i] = job[t].buffer[i + k]
  BY <1>1, <1>2, <1>3
<1>5. sent' \in Seq(Nat)
  BY DEF IngestionInd, IngestionTypes
<1> QED BY <1>1, <1>2, <1>4, <1>5, AdvanceInd

\* A request that ends leaves nothing in hand.
LEMMA FinishInd ==
    ASSUME IngestionInd, NEW t \in Threads, Finish(t),
           UNCHANGED <<accounts, audit, transactions, rawEvents, sent, release, restarts>>
    PROVE  IngestionInd'
<1>1. /\ pc \in [Threads -> IngestionSteps] /\ job \in [Threads -> Job]
      /\ payment \in [Threads -> Payment \cup {NULL}] /\ DOMAIN session = Threads
  BY DEF IngestionInd, IngestionTypes, LedgerInd, AccountsInd
<1>2. /\ pc' = [pc EXCEPT ![t] = "idle"] /\ session' = [session EXCEPT ![t] = NoSession]
      /\ payment' = [payment EXCEPT ![t] = NULL] /\ job' = [job EXCEPT ![t] = NoJob]
  BY DEF Finish, ClosePost, Close
<1>3. NoJob \in Job /\ NoJob.buffer = <<>> /\ "idle" \in IngestionSteps
  BY NoJobTyped DEF NoJob, IngestionSteps, LedgerSteps, AccountSteps
<1>4. /\ pc' \in [Threads -> IngestionSteps] /\ job' \in [Threads -> Job]
      /\ payment' \in [Threads -> Payment \cup {NULL}] /\ DOMAIN session' = Threads
      /\ session'[t] = NoSession /\ pc'[t] = "idle" /\ job'[t] = NoJob /\ Others(t)
  BY <1>1, <1>2, <1>3 DEF Others
<1>5. /\ TablesMove /\ Grows /\ Prefix
      /\ rawEvents' \in [RawEventIds -> ProcessingStatus \cup {NULL}]
      /\ \A m \in RawEventIds : Tellable(m, rawEvents[m])'
  BY TablesStay
<1>6. IsSession(NoSession)
  BY DEF IsSession, NoSession, NoChange, IsChange
<1>7. LedgerInd'
  BY <1>4, <1>5, <1>6, LedgerSide
<1>8. IngestionTypes'
  BY <1>4 DEF IngestionInd, IngestionTypes
<1>9. AtWork(t)'
  BY <1>4 DEF AtWork, MessageSteps, NoJob
<1>10. Undelivered' /\ AnnouncedIsPosted'
  <2>1. Len(job'[t].buffer) = 0
    BY <1>3, <1>4
  <2>2. \A i \in 1 .. Len(job'[t].buffer) : job'[t].buffer[i] # NULL =>
            /\ i + 0 \in 1 .. Len(job[t].buffer)
            /\ job'[t].buffer[i] = job[t].buffer[i + 0]
    BY <2>1
  <2> QED BY <1>4, <1>5, <2>2, BufferKept
<1> QED BY <1>4, <1>5, <1>7, <1>8, <1>9, <1>10, Assembled

LEMMA RaiseInd ==
    ASSUME IngestionInd, NEW t \in Threads, pc[t] \in MessageSteps, NEW j \in Job,
           j.kind = job[t].kind, j.todo = job[t].todo, j.buffer = job[t].buffer,
           Raise(t, j),
           UNCHANGED <<accounts, audit, transactions, rawEvents, sent, release, restarts>>
    PROVE  IngestionInd'
BY AdvanceHere, FinishInd DEF Raise

\* A handler stays at its message: what remains to be shown.
LEMMA StayInd ==
    ASSUME IngestionInd, NEW t \in Threads, Others(t), Grows, TablesMove,
           pc' \in [Threads -> IngestionSteps], pc'[t] \in MessageSteps \cup {"pick"},
           DOMAIN session' = Threads, IsSession(session'[t]),
           payment' \in [Threads -> Payment \cup {NULL}], job' \in [Threads -> Job],
           rawEvents' \in [RawEventIds -> ProcessingStatus \cup {NULL}],
           \A m \in RawEventIds : Tellable(m, rawEvents[m])',
           sent' \in Seq(Nat), restarts' = restarts,
           AtWork(t)', Undelivered', AnnouncedIsPosted'
    PROVE  IngestionInd'
<1>1. LedgerInd'
  BY LedgerSide
<1>2. IngestionTypes'
  BY DEF Grows, IngestionInd, IngestionTypes
<1> QED BY <1>1, <1>2, Assembled

\* It may read and decide: no table, buffer or announcement changes.
LEMMA ReadInd ==
    ASSUME IngestionInd, NEW t \in Threads, NEW next \in MessageSteps \cup {"pick"},
           pc' = [pc EXCEPT ![t] = next], Others(t),
           DOMAIN session' = Threads, IsSession(session'[t]),
           payment' \in [Threads -> Payment \cup {NULL}], job' \in [Threads -> Job],
           job'[t].buffer \in {job[t].buffer, <<>>},
           UNCHANGED <<accounts, audit, transactions, rawEvents, sent, release, restarts>>,
           AtWork(t)'
    PROVE  IngestionInd'
<1>1. pc' \in [Threads -> IngestionSteps] /\ pc'[t] \in MessageSteps \cup {"pick"}
  BY DEF IngestionInd, IngestionTypes, MessageSteps, IngestionSteps
<1>2. /\ TablesMove /\ Grows /\ Prefix
      /\ rawEvents' \in [RawEventIds -> ProcessingStatus \cup {NULL}]
      /\ \A m \in RawEventIds : Tellable(m, rawEvents[m])'
  BY TablesStay
<1>3. sent' = sent /\ sent' \in Seq(Nat) /\ job[t].buffer \in Seq(Nat \cup {NULL})
  BY DEF IngestionInd, IngestionTypes, Job
<1>4. \A i \in 1 .. Len(job'[t].buffer) : job'[t].buffer[i] # NULL =>
          i + 0 \in 1 .. Len(job[t].buffer) /\ job'[t].buffer[i] = job[t].buffer[i + 0]
  BY <1>3
<1>5. Undelivered' /\ AnnouncedIsPosted'
  BY <1>2, <1>3, <1>4, BufferKept
<1> QED BY <1>1, <1>2, <1>3, <1>5, StayInd

-----------------------------------------------------------------------------
(* The steps of a message.                                                 *)

LEMMA SessionsTyped ==
    ASSUME IngestionInd, NEW t \in Threads
    PROVE  /\ DOMAIN session = Threads /\ IsSession(session[t])
           /\ pc \in [Threads -> IngestionSteps] /\ job \in [Threads -> Job]
           /\ payment \in [Threads -> Payment \cup {NULL}]
           /\ accounts \in [AccountIds -> Account \cup {NULL}]
           /\ AtWork(t)
BY DEF IngestionInd, IngestionTypes, LedgerInd, AccountsInd

LEMMA LookupInd ==
    ASSUME IngestionInd, NEW t \in Threads, lookup(t)
    PROVE  IngestionInd'
<1>0. /\ pc[t] = "lookup" /\ pc[t] \in MessageSteps
      /\ UNCHANGED <<accounts, audit, transactions, rawEvents, sent, release, restarts>>
  BY DEF lookup, MessageSteps
<1>1. job[t] \in Job
  BY <1>0, MessageFacts
<1>2. CASE Raise(t, job[t])
  BY <1>0, <1>1, <1>2, RaiseInd
<1>3. CASE Advance(t, job[t])
  BY <1>0, <1>1, <1>3, AdvanceHere
<1>4. CASE GoTo(t, "store") /\ UNCHANGED <<session, payment, job>>
  <2>1. /\ pc' = [pc EXCEPT ![t] = "store"] /\ pc'[t] = "store" /\ Others(t)
    BY <1>4, SessionsTyped DEF GoTo, Others
  <2>2. AtWork(t)'
    BY <1>0, <1>4, <2>1, SessionsTyped DEF AtWork, MessageSteps
  <2> QED BY <1>0, <1>4, <2>1, <2>2, SessionsTyped, ReadInd DEF MessageSteps
<1> QED BY <1>2, <1>3, <1>4 DEF lookup

LEMMA StoreInd ==
    ASSUME IngestionInd, NEW t \in Threads, store(t)
    PROVE  IngestionInd'
<1>0. /\ pc[t] = "store" /\ pc[t] \in MessageSteps
      /\ UNCHANGED <<accounts, audit, transactions, sent, release, restarts>>
  BY DEF store, MessageSteps
<1>1. job[t] \in Job /\ Message(t) \in RawEventIds
  BY <1>0, MessageFacts
<1>2. CASE Raise(t, job[t]) /\ UNCHANGED rawEvents
  BY <1>0, <1>1, <1>2, RaiseInd
<1>3. CASE /\ rawEvents[Message(t)] = NULL
           /\ rawEvents' = [rawEvents EXCEPT ![Message(t)] = "RECEIVED"]
           /\ GoTo(t, "parse") /\ UNCHANGED <<session, payment, job>>
  <2>1. /\ pc' \in [Threads -> IngestionSteps] /\ pc'[t] = "parse" /\ Others(t)
    BY <1>3, SessionsTyped DEF GoTo, Others, IngestionSteps
  <2>2. /\ rawEvents' \in [RawEventIds -> ProcessingStatus \cup {NULL}]
        /\ \A n \in RawEventIds : rawEvents[n] # NULL => rawEvents'[n] # NULL
        /\ \A n \in RawEventIds : rawEvents'[n] = rawEvents[n] \/ rawEvents'[n] = "RECEIVED"
        /\ rawEvents'[Message(t)] # NULL
    BY <1>1, <1>3, StatusSet DEF ProcessingStatus
  <2>3. TablesMove /\ Prefix
    BY <1>0, Unmoved, Same DEF IngestionInd
  <2>4. Grows
    BY <1>0, <2>2, <2>3 DEF Grows, Stored
  <2>5. \A m \in RawEventIds : Tellable(m, rawEvents[m])'
    BY <2>2, <2>3, StatusesStay
  <2>6. AtWork(t)'
    <3>1. Message(t)' = Message(t) /\ job'[t] = job[t] /\ AtWork(t)
      BY <1>3, SessionsTyped DEF Message
    <3>2. job[t].kind = "reprocess" =>
              \A i \in 1 .. Len(job[t].todo) : rawEvents'[job[t].todo[i]] # NULL
      BY <1>0, <2>2, MessageFacts
    <3> QED BY <1>0, <2>1, <2>2, <3>1, <3>2 DEF AtWork, MessageSteps
  <2>7. Undelivered' /\ AnnouncedIsPosted'
    <3>1. \A i \in 1 .. Len(job'[t].buffer) : job'[t].buffer[i] # NULL =>
              /\ i + 0 \in 1 .. Len(job[t].buffer)
              /\ job'[t].buffer[i] = job[t].buffer[i + 0]
      BY <1>0, <1>3, MessageFacts
    <3> QED BY <1>0, <1>3, <2>1, <2>3, <3>1, SessionsTyped, BufferKept
  <2>8. sent' \in Seq(Nat) /\ "parse" \in MessageSteps
    BY <1>0 DEF IngestionInd, IngestionTypes, MessageSteps
  <2> QED BY <1>0, <1>3, <2>1, <2>2, <2>3, <2>4, <2>5, <2>6, <2>7, <2>8, SessionsTyped, StayInd
<1> QED BY <1>2, <1>3 DEF store

LEMMA RecordInd ==
    ASSUME IngestionInd, NEW t \in Threads, record_unparsed(t)
    PROVE  IngestionInd'
<1> DEFINE status == IF ParseOf(Message(t)).outcome = "unknown"
                     THEN "UNKNOWN_FORMAT" ELSE "IGNORED"
<1>1. /\ pc[t] = "parse" /\ pc[t] \in MessageSteps /\ Advance(t, job[t])
      /\ rawEvents' = [rawEvents EXCEPT ![Message(t)] = status]
      /\ UNCHANGED <<accounts, audit, transactions, sent, release, restarts>>
  BY DEF record_unparsed, MessageSteps
<1>2. /\ job[t] \in Job /\ Message(t) \in RawEventIds
      /\ job[t].kind \in {"sms", "batch", "reprocess"} /\ job[t].todo # <<>>
      /\ job[t].kind = "reprocess" =>
            \A i \in 1 .. Len(job[t].todo) : rawEvents[job[t].todo[i]] # NULL
      /\ job[t].buffer \in Seq(Nat \cup {NULL})
  BY <1>1, MessageFacts
<1>3. /\ rawEvents' \in [RawEventIds -> ProcessingStatus \cup {NULL}]
      /\ \A n \in RawEventIds : rawEvents[n] # NULL => rawEvents'[n] # NULL
      /\ \A n \in RawEventIds : rawEvents'[n] = rawEvents[n]
                                \/ rawEvents'[n] \in {"UNKNOWN_FORMAT", "IGNORED"}
  BY <1>1, <1>2, StatusSet DEF ProcessingStatus
<1>4. TablesMove /\ Prefix
  BY <1>1, Unmoved, Same DEF IngestionInd
<1>5. Grows
  BY <1>1, <1>3, <1>4 DEF Grows, Stored
<1>6. \A m \in RawEventIds : Tellable(m, rawEvents[m])'
  BY <1>3, <1>4, StatusesStay
<1> QED BY <1>1, <1>3, <1>4, <1>5, <1>6, AdvanceMarked

LEMMA ResolveInd ==
    ASSUME IngestionInd, NEW t \in Threads, resolve_account(t)
    PROVE  IngestionInd'
<1> DEFINE m == Message(t)
           p == PaymentOf(m)
<1>1. /\ pc[t] = "parse" /\ pc[t] \in MessageSteps /\ ParseOf(m).outcome = "ok"
      /\ payment' = [payment EXCEPT ![t] = p] /\ job' = job
      /\ UNCHANGED <<accounts, audit, transactions, rawEvents, sent, release, restarts>>
  BY DEF resolve_account, MessageSteps
<1>2. m \in RawEventIds /\ ParseOf(m) \in Parsed /\ m # NULL
  BY <1>1, MessageFacts, IngestionAssumption, LedgerAssumption
     DEF ParseOf, IngestionInd, IngestionTypes
<1>3. p \in Payment /\ p.raw = m
  BY <1>2 DEF PaymentOf, Payment, Parsed
<1>4. /\ payment' \in [Threads -> Payment \cup {NULL}] /\ payment'[t] = p
      /\ \A u \in Threads \ {t} : payment'[u] = payment[u]
  BY <1>1, <1>3, SessionsTyped
<1>5. m = Message(t)' /\ ParseOf(m)' = ParseOf(m) /\ PaymentOf(m)' = p
  BY <1>1 DEF Message, ParseOf, PaymentOf
<1>6. CASE GoTo(t, "stub_insert") /\ UNCHANGED session
  <2>1. /\ pc' = [pc EXCEPT ![t] = "stub_insert"] /\ pc'[t] = "stub_insert" /\ Others(t)
    BY <1>1, <1>4, <1>6, SessionsTyped DEF GoTo, Others
  <2>2. AtWork(t)'
    BY <1>1, <1>4, <1>5, <2>1, SessionsTyped DEF AtWork, MessageSteps
  <2> QED BY <1>1, <1>4, <1>6, <2>1, <2>2, SessionsTyped, ReadInd DEF MessageSteps
<1>7. CASE \E id \in Matches(ParseOf(m)) : Hold(t, "sms_check", id, accounts[id], NoChange)
  <2>1. PICK id \in Matches(ParseOf(m)) : Hold(t, "sms_check", id, accounts[id], NoChange)
    BY <1>7
  <2>2. id \in Stored /\ accounts[id] \in Account
    BY SessionsTyped DEF Matches, Preferred, Stored
  <2>3. /\ pc' = [pc EXCEPT ![t] = "sms_check"] /\ pc'[t] = "sms_check"
        /\ session'[t] = [since |-> 0, target |-> id, seen |-> accounts[id], change |-> NoChange]
        /\ DOMAIN session' = Threads /\ Others(t)
    BY <1>1, <1>4, <2>1, SessionsTyped DEF Hold, HoldSince, Others
  <2>4. IsSession(session'[t])
    BY <2>2, <2>3 DEF IsSession, IsChange, NoChange, Stored
  <2>5. PostingInd(t)'
    BY <1>1, <1>2, <1>3, <1>4, <2>2, <2>3 DEF PostingInd, Stored
  <2>6. AtWork(t)'
    BY <1>1, <1>4, <1>5, <2>3, <2>5, SessionsTyped DEF AtWork, MessageSteps
  <2> QED BY <1>1, <1>4, <2>3, <2>4, <2>6, SessionsTyped, ReadInd DEF MessageSteps
<1> QED BY <1>6, <1>7 DEF resolve_account

\* A stub is a row like any other.
LEMMA StubTyped ==
    ASSUME NEW p \in Parsed
    PROVE  /\ StubOf(p) \in Account /\ StubOf(p) # NULL
           /\ StubOf(p).balance = StubOf(p).opening
           /\ StubOf(p).digits = p.digits /\ StubOf(p).bank = p.bank
<1>1. StubOf(p) \in Account
  BY DEF StubOf, Parsed, Account, AccountType, AccountStatus
<1> QED BY <1>1, AccountsAssumption DEF StubOf

LEMMA StubInsertInd ==
    ASSUME IngestionInd, NEW t \in Threads, stub_insert(t)
    PROVE  IngestionInd'
<1>0. /\ pc[t] = "stub_insert" /\ pc[t] \in MessageSteps
      /\ UNCHANGED <<audit, transactions, rawEvents, sent, release, restarts>>
  BY DEF stub_insert, MessageSteps
<1>1. job[t] \in Job /\ Message(t) \in RawEventIds /\ ParseOf(Message(t)) \in Parsed
  BY <1>0, MessageFacts, IngestionAssumption DEF ParseOf, IngestionInd, IngestionTypes
<1>2. CASE Raise(t, [job[t] EXCEPT !.poisoned = TRUE]) /\ UNCHANGED accounts
  <2> DEFINE j == [job[t] EXCEPT !.poisoned = TRUE]
  <2>1. /\ j \in Job /\ j.kind = job[t].kind /\ j.todo = job[t].todo
        /\ j.buffer = job[t].buffer
    BY <1>1 DEF Job
  <2>2. Raise(t, j)
    BY <1>2
  <2> HIDE DEF j
  <2> QED BY <1>0, <1>2, <2>1, <2>2, RaiseInd
<1>3. ASSUME NEW id \in AccountIds \ Stored, NEW stub, stub = StubOf(ParseOf(Message(t))),
             ~InsertFails(stub), accounts' = [accounts EXCEPT ![id] = stub],
             Hold(t, "stub_refresh", id, NULL, NoChange),
             job' = [job EXCEPT ![t].created = TRUE], UNCHANGED payment
      PROVE  IngestionInd'
  <2>1. /\ stub \in Account /\ stub # NULL /\ Representable(stub.balance)
    BY <1>1, <1>3, StubTyped DEF InsertFails
  <2>2. /\ accounts' \in [AccountIds -> Account \cup {NULL}]
        /\ \A a \in Stored : accounts'[a] = accounts[a] /\ accounts'[a] # NULL
        /\ accounts'[id] = stub /\ id \in Stored'
        /\ \A a \in Stored' : a = id \/ a \in Stored
    BY <1>3, <2>1, SessionsTyped DEF Stored
  <2>3. /\ pc' \in [Threads -> IngestionSteps] /\ pc'[t] = "stub_refresh"
        /\ session'[t] = [since |-> 0, target |-> id, seen |-> NULL, change |-> NoChange]
        /\ DOMAIN session' = Threads
        /\ job' \in [Threads -> Job] /\ job'[t].kind = job[t].kind
        /\ job'[t].todo = job[t].todo /\ job'[t].buffer = job[t].buffer
    <3>1. "stub_refresh" \in IngestionSteps
      BY DEF IngestionSteps
    <3>2. job' = [job EXCEPT ![t] = [job[t] EXCEPT !.created = TRUE]]
      BY <1>3
    <3>3. [job[t] EXCEPT !.created = TRUE] \in Job
      BY <1>1 DEF Job
    <3>4. /\ [job[t] EXCEPT !.created = TRUE].kind = job[t].kind
          /\ [job[t] EXCEPT !.created = TRUE].todo = job[t].todo
          /\ [job[t] EXCEPT !.created = TRUE].buffer = job[t].buffer
      BY <1>1 DEF Job
    <3> QED BY <1>3, <3>1, <3>2, <3>3, <3>4, SessionsTyped DEF Hold, HoldSince
  <2>4. Others(t)
    BY <1>3, SessionsTyped DEF Hold, HoldSince, Others
  <2>5. IsSession(session'[t])
    BY <2>3 DEF IsSession, IsChange, NoChange
  <2>6. AccountsInd'
    <3>1. AccountsInd /\ \A a \in Stored : a \in Stored'
      BY <2>2 DEF IngestionInd, LedgerInd, Stored
    <3>2. DOMAIN pc' = Threads
      BY <2>3
    <3>3. \A u \in Threads \ {t} : pc'[u] = pc[u] /\ session'[u] = session[u]
      BY <2>4 DEF Others
    <3> QED BY <1>0, <2>2, <2>3, <2>5, <3>1, <3>2, <3>3 DEF AccountsInd
  <2>7. LedgerInd'
    <3>1. \A a \in Stored' : Representable(accounts'[a].balance)
      BY <2>1, <2>2 DEF IngestionInd, LedgerInd
    <3>2. HandlerInd(t)'
      BY <2>3 DEF HandlerInd
    <3>3. ASSUME NEW u \in Threads, u # t PROVE HandlerInd(u)'
      BY <2>2, <2>4, <3>3, HandlerKept DEF IngestionInd, Others
    <3> QED BY <1>0, <1>3, <2>6, <3>1, <3>2, <3>3 DEF IngestionInd, LedgerInd
  <2>8. Prefix
    BY <1>0, Same
  <2>9. Grows
    BY <1>0, <2>2, <2>8 DEF Grows
  <2>10. IngestionTypes'
    BY <1>0, <2>3 DEF IngestionInd, IngestionTypes
  <2>11. AtWork(t)'
    <3>1. /\ Message(t)' = Message(t) /\ ParseOf(Message(t))' = ParseOf(Message(t))
          /\ PaymentOf(Message(t))' = PaymentOf(Message(t)) /\ AtWork(t)
      BY <1>0, <2>3, SessionsTyped DEF Message, ParseOf, PaymentOf
    <3> QED BY <1>0, <1>3, <2>2, <2>3, <3>1 DEF AtWork, MessageSteps
  <2>12. \A m \in RawEventIds : Tellable(m, rawEvents[m])'
    BY <1>0, <2>8, StatusesStay
  <2>13. Undelivered' /\ AnnouncedIsPosted'
    <3>1. \A i \in 1 .. Len(job'[t].buffer) : job'[t].buffer[i] # NULL =>
              /\ i + 0 \in 1 .. Len(job[t].buffer)
              /\ job'[t].buffer[i] = job[t].buffer[i + 0]
      BY <1>0, <2>3, MessageFacts
    <3> QED BY <1>0, <2>3, <2>4, <2>8, <3>1, BufferKept
  <2> QED BY <2>4, <2>7, <2>9, <2>10, <2>11, <2>12, <2>13, Assembled
<1> QED BY <1>2, <1>3 DEF stub_insert

LEMMA RefreshInd ==
    ASSUME IngestionInd, NEW t \in Threads, stub_refresh(t)
    PROVE  IngestionInd'
<1> DEFINE id == session[t].target
<1>1. /\ pc[t] = "stub_refresh" /\ pc[t] \in MessageSteps
      /\ Hold(t, "sms_check", id, accounts[id], NoChange)
      /\ payment' = payment /\ job' = job
      /\ UNCHANGED <<accounts, audit, transactions, rawEvents, sent, release, restarts>>
  BY DEF stub_refresh, MessageSteps
<1>2. /\ id \in Stored /\ accounts[id] \in Account
      /\ ParseOf(Message(t)).outcome = "ok" /\ payment[t] = PaymentOf(Message(t))
  BY <1>1, SessionsTyped DEF AtWork, Stored
<1>3. /\ pc' = [pc EXCEPT ![t] = "sms_check"] /\ pc'[t] = "sms_check"
      /\ session'[t] = [since |-> 0, target |-> id, seen |-> accounts[id], change |-> NoChange]
      /\ DOMAIN session' = Threads /\ Others(t)
  BY <1>1, SessionsTyped DEF Hold, HoldSince, Others
<1>4. IsSession(session'[t])
  BY <1>2, <1>3 DEF IsSession, IsChange, NoChange, Stored
<1>5. /\ Message(t)' = Message(t) /\ ParseOf(Message(t))' = ParseOf(Message(t))
      /\ PaymentOf(Message(t))' = PaymentOf(Message(t))
  BY <1>1 DEF Message, ParseOf, PaymentOf
<1>6. payment[t] \in Payment /\ payment[t].raw # NULL
  <2>1. Message(t) \in RawEventIds /\ Message(t) # NULL
    BY <1>1, MessageFacts, LedgerAssumption
  <2>2. ParseOf(Message(t)) \in Parsed
    BY <2>1, IngestionAssumption DEF ParseOf, IngestionInd, IngestionTypes
  <2> QED BY <1>2, <2>1, <2>2 DEF PaymentOf, Payment, Parsed
<1>7. PostingInd(t)'
  BY <1>1, <1>2, <1>3, <1>6 DEF PostingInd, Stored
<1>8. AtWork(t)'
  BY <1>1, <1>2, <1>3, <1>5, <1>7, SessionsTyped DEF AtWork, MessageSteps
<1> QED BY <1>1, <1>3, <1>4, <1>8, SessionsTyped, ReadInd DEF MessageSteps

\* A transaction of the same fingerprint is what DUPLICATE says.
LEMMA PostedTells ==
    ASSUME IngestionInd, NEW t \in Threads, Posted(Pending(t)),
           payment[t] = PaymentOf(Message(t))
    PROVE  Tellable(Message(t), "DUPLICATE")
<1> DEFINE m == Message(t)
           p == Reading[release][m]
<1>1. PICK i \in 1 .. Len(transactions) :
          Fingerprint(transactions[i]) = Fingerprint(Pending(t))
  BY DEF Posted
<1>2. <<transactions[i].amount, transactions[i].direction, transactions[i].key>> =
      <<p.amount, p.direction, p.key>>
  BY <1>1 DEF Fingerprint, Pending, RowOf, PaymentOf, ParseOf
<1>3. release \in Releases
  BY DEF IngestionInd, IngestionTypes
<1> QED BY <1>2, <1>3 DEF Tellable

\* The job with the outcome of its message and the buffer that leaves.
Decided(j, status, events) == [j EXCEPT !.outcome = status, !.buffer = events]

LEMMA DecidedTyped ==
    ASSUME NEW j \in Job, NEW status \in ProcessingStatus,
           NEW events \in Seq(Nat \cup {NULL})
    PROVE  /\ Decided(j, status, events) \in Job
           /\ Decided(j, status, events).kind = j.kind
           /\ Decided(j, status, events).todo = j.todo
           /\ Decided(j, status, events).created = j.created
           /\ Decided(j, status, events).poisoned = j.poisoned
           /\ Decided(j, status, events).outcome = status
           /\ Decided(j, status, events).buffer = events
BY DEF Decided, Job

LEMMA DuplicateTyped ==
    ASSUME NEW old \in Job
    PROVE  LET j == Decided(old, "DUPLICATE", <<>>)
           IN  /\ j \in Job /\ j.kind = old.kind /\ j.todo = old.todo
               /\ j.outcome = "DUPLICATE" /\ j.buffer = <<>>
<1>1. \A S : <<>> \in Seq(S)
  OBVIOUS
<1>2. PICK none \in Seq(Nat \cup {NULL}) : none = <<>>
  BY <1>1
<1>3. PICK status \in ProcessingStatus : status = "DUPLICATE"
  BY DEF ProcessingStatus
<1> QED BY <1>2, <1>3, DecidedTyped

LEMMA DuplicateInd ==
    ASSUME IngestionInd, NEW t \in Threads, pc[t] \in {"sms_check", "sms_write"},
           Posted(Pending(t)), Duplicate(t),
           UNCHANGED <<accounts, audit, transactions, rawEvents, sent, release, restarts>>
    PROVE  IngestionInd'
<1> DEFINE j == Decided(job[t], "DUPLICATE", <<>>)
<1>0. pc[t] \in MessageSteps /\ pc[t] \in MessageSteps \ {"lookup", "store"}
  BY DEF MessageSteps
<1>1. /\ job[t] \in Job /\ rawEvents[Message(t)] # NULL
      /\ payment[t] = PaymentOf(Message(t)) /\ ParseOf(Message(t)).outcome = "ok"
      /\ job[t].kind \in {"sms", "batch", "reprocess"} /\ job[t].todo # <<>>
      /\ job[t].kind = "reprocess" =>
            \A i \in 1 .. Len(job[t].todo) : rawEvents[job[t].todo[i]] # NULL
  BY <1>0, MessageFacts, SessionsTyped DEF AtWork
<1>2. /\ j \in Job /\ j.kind = job[t].kind /\ j.todo = job[t].todo
      /\ j.outcome = "DUPLICATE" /\ j.buffer = <<>>
  BY <1>1, DuplicateTyped
<1>3. /\ job' = [job EXCEPT ![t] = j] /\ pc' = [pc EXCEPT ![t] = "mark"]
      /\ session' = session /\ payment' = payment
  BY DEF Duplicate, GoTo, Decided
<1> HIDE DEF j
<1>4. /\ job' \in [Threads -> Job] /\ job'[t] = j /\ pc'[t] = "mark" /\ Others(t)
  BY <1>2, <1>3, SessionsTyped DEF Others
<1>5. Tellable(Message(t), "DUPLICATE")'
  <2>1. PICK m : m = Message(t)
    OBVIOUS
  <2>2. Tellable(m, "DUPLICATE")
    BY <1>1, <2>1, PostedTells
  <2>3. m = Message(t)' /\ transactions' = transactions
    BY <1>2, <1>4, <2>1 DEF Message
  <2> QED BY <2>2, <2>3 DEF Tellable
<1>6. Message(t)' = Message(t) /\ ParseOf(Message(t))' = ParseOf(Message(t))
  BY <1>2, <1>4 DEF Message, ParseOf
<1>7. AtWork(t)'
  BY <1>1, <1>2, <1>4, <1>5, <1>6 DEF AtWork, MessageSteps
<1> QED BY <1>2, <1>3, <1>4, <1>7, SessionsTyped, ReadInd DEF MessageSteps

LEMMA CheckInd ==
    ASSUME IngestionInd, NEW t \in Threads, sms_check(t)
    PROVE  IngestionInd'
<1>0. /\ pc[t] = "sms_check" /\ pc[t] \in MessageSteps
      /\ UNCHANGED <<accounts, audit, transactions, rawEvents, sent, release, restarts>>
  BY DEF sms_check, MessageSteps
<1>1. CASE Failed(t, job[t])
  BY <1>0, <1>1, MessageFacts, AdvanceHere DEF Failed
<1>2. CASE Posted(Pending(t)) /\ Duplicate(t)
  BY <1>0, <1>2, DuplicateInd
<1>3. CASE GoTo(t, "sms_write") /\ UNCHANGED <<session, payment, job>>
  <2>1. /\ pc' = [pc EXCEPT ![t] = "sms_write"] /\ pc'[t] = "sms_write" /\ Others(t)
    BY <1>3, SessionsTyped DEF GoTo, Others
  <2>2. /\ Message(t)' = Message(t) /\ ParseOf(Message(t))' = ParseOf(Message(t))
        /\ PaymentOf(Message(t))' = PaymentOf(Message(t))
        /\ PostingInd(t) => PostingInd(t)'
    BY <1>0, <1>3 DEF Message, ParseOf, PaymentOf, PostingInd, Stored
  <2>3. AtWork(t)'
    BY <1>0, <1>3, <2>1, <2>2, SessionsTyped DEF AtWork, MessageSteps
  <2> QED BY <1>0, <1>3, <2>1, <2>3, SessionsTyped, ReadInd DEF MessageSteps
<1> QED BY <1>1, <1>2, <1>3 DEF sms_check

\* A new event, of the transaction appended in the same step.
LEMMA BufferGains ==
    ASSUME IngestionInd, NEW t \in Threads, Others(t), NEW row,
           transactions' = Append(transactions, row), row.raw # NULL, sent' = sent,
           job' \in [Threads -> Job],
           job'[t].buffer = Append(job[t].buffer, Len(transactions) + 1)
    PROVE  Undelivered' /\ AnnouncedIsPosted'
<1> DEFINE n == Len(transactions) + 1
<1>1. /\ job \in [Threads -> Job] /\ sent \in Seq(Nat) /\ transactions \in Seq(Transaction)
      /\ Undelivered /\ AnnouncedIsPosted
  BY DEF IngestionInd, IngestionTypes, LedgerInd
<1>2. /\ Len(transactions) \in Nat /\ n \in Nat /\ n \notin 1 .. Len(transactions)
      /\ Len(transactions') = n /\ transactions'[n] = row
      /\ \A i \in 1 .. Len(transactions) : transactions'[i] = transactions[i] /\ i \in 1 .. n
      /\ n \in 1 .. n
  BY <1>1
<1>3. PICK old : old = [u \in Threads |-> job[u].buffer]
  OBVIOUS
<1>4. PICK new : new = [u \in Threads |-> job'[u].buffer]
  OBVIOUS
<1>5. \A u \in Threads : old[u] \in Seq(Nat \cup {NULL}) /\ Len(old[u]) \in Nat
  BY <1>1, <1>3 DEF Job
<1>6. new[t] = Append(old[t], n) /\ \A u \in Threads : u # t => new[u] = old[u]
  BY <1>3, <1>4 DEF Others
<1> HIDE DEF n
\* An event is an old one in its old place, or the new one.
<1>7. ASSUME NEW u \in Threads, NEW i \in 1 .. Len(new[u])
      PROVE  \/ i \in 1 .. Len(old[u]) /\ new[u][i] = old[u][i]
             \/ u = t /\ i = Len(old[t]) + 1 /\ new[u][i] = n
  <2>1. CASE u = t
    <3>1. \A q \in Seq(Nat \cup {NULL}), e \in Nat \cup {NULL} : \A k \in 1 .. Len(Append(q, e)) :
              \/ k \in 1 .. Len(q) /\ Append(q, e)[k] = q[k]
              \/ k = Len(q) + 1 /\ Append(q, e)[k] = e
      OBVIOUS
    <3>2. n \in Nat \cup {NULL} /\ old[t] \in Seq(Nat \cup {NULL})
      BY <1>2, <1>5
    <3>3. i \in 1 .. Len(Append(old[t], n)) /\ new[u] = Append(old[t], n)
      BY <1>6, <2>1
    <3> QED BY <2>1, <3>1, <3>2, <3>3
  <2>2. CASE u # t
    BY <1>6, <2>2
  <2> QED BY <2>1, <2>2
<1>8. n # NULL => \A l \in 1 .. Len(sent) : sent[l] # n
  BY <1>1, <1>2 DEF AnnouncedIsPosted
<1>9. \A u \in Threads : \A i \in 1 .. Len(old[u]) : old[u][i] # NULL =>
          /\ old[u][i] \in 1 .. Len(transactions)
          /\ transactions[old[u][i]].raw # NULL
          /\ \A l \in 1 .. Len(sent) : sent[l] # old[u][i]
  BY <1>1, <1>3 DEF Undelivered
<1>10. \A u, v \in Threads : \A i \in 1 .. Len(old[u]), j \in 1 .. Len(old[v]) :
           old[u][i] # NULL /\ old[u][i] = old[v][j] => u = v /\ i = j
  BY <1>1, <1>3 DEF Undelivered
<1>11. ASSUME NEW u \in Threads, NEW i \in 1 .. Len(new[u]), new[u][i] # NULL
       PROVE  /\ new[u][i] \in 1 .. Len(transactions')
              /\ transactions'[new[u][i]].raw # NULL
              /\ \A l \in 1 .. Len(sent') : sent'[l] # new[u][i]
  <2>1. CASE i \in 1 .. Len(old[u]) /\ new[u][i] = old[u][i]
    BY <1>2, <1>9, <1>11, <2>1
  <2>2. CASE new[u][i] = n
    BY <1>2, <1>8, <1>11, <2>2
  <2> QED BY <1>7, <2>1, <2>2
<1>12. ASSUME NEW u \in Threads, NEW v \in Threads,
              NEW i \in 1 .. Len(new[u]), NEW j \in 1 .. Len(new[v]),
              new[u][i] # NULL, new[u][i] = new[v][j]
       PROVE  u = v /\ i = j
  <2>1. CASE /\ i \in 1 .. Len(old[u]) /\ new[u][i] = old[u][i]
             /\ j \in 1 .. Len(old[v]) /\ new[v][j] = old[v][j]
    <3>1. old[u][i] # NULL /\ old[u][i] = old[v][j]
      BY <1>12, <2>1
    <3> QED BY <1>10, <2>1, <3>1
  <2>2. CASE i \in 1 .. Len(old[u]) /\ new[u][i] = old[u][i] /\ new[v][j] = n
    <3>1. old[u][i] # NULL /\ old[u][i] = n
      BY <1>12, <2>2
    <3>2. n \in 1 .. Len(transactions)
      BY <1>9, <2>2, <3>1
    <3> QED BY <1>2, <3>2
  <2>3. CASE j \in 1 .. Len(old[v]) /\ new[v][j] = old[v][j] /\ new[u][i] = n
    <3>1. old[v][j] # NULL /\ old[v][j] = n
      BY <1>12, <2>3
    <3>2. n \in 1 .. Len(transactions)
      BY <1>9, <2>3, <3>1
    <3> QED BY <1>2, <3>2
  <2>4. CASE u = t /\ i = Len(old[t]) + 1 /\ v = t /\ j = Len(old[t]) + 1
    BY <2>4
  <2> QED BY <1>7, <2>1, <2>2, <2>3, <2>4
<1>13. AnnouncedIsPosted'
  BY <1>1, <1>2 DEF AnnouncedIsPosted
<1> QED BY <1>4, <1>11, <1>12, <1>13 DEF Undelivered

LEMMA WriteInd ==
    ASSUME IngestionInd, NEW t \in Threads, sms_write(t)
    PROVE  IngestionInd'
<1>0. /\ pc[t] = "sms_write" /\ pc[t] \in MessageSteps
      /\ UNCHANGED <<rawEvents, sent, release, restarts>>
  BY DEF sms_write, MessageSteps
<1>1. /\ job[t] \in Job /\ Message(t) \in RawEventIds /\ job[t].todo # <<>>
      /\ job[t].buffer \in Seq(Nat \cup {NULL})
      /\ job[t].kind \in {"sms", "batch", "reprocess"}
      /\ job[t].kind = "reprocess" =>
            \A i \in 1 .. Len(job[t].todo) : rawEvents[job[t].todo[i]] # NULL
  BY <1>0, MessageFacts
<1>2. /\ PostingInd(t) /\ rawEvents[Message(t)] # NULL /\ payment[t] = PaymentOf(Message(t))
      /\ LedgerInd
  BY <1>0, SessionsTyped DEF AtWork, MessageSteps, IngestionInd
<1>3. CASE Posted(Pending(t)) /\ Duplicate(t) /\ UNCHANGED <<accounts, audit, transactions>>
  BY <1>0, <1>3, DuplicateInd
<1>4. CASE /\ Failed(t, IF Representable(payment[t].amount)
                        THEN [job[t] EXCEPT !.buffer = Append(@, NULL)] ELSE job[t])
           /\ UNCHANGED <<accounts, audit, transactions>>
  <2> DEFINE j == [job[t] EXCEPT !.buffer = Append(job[t].buffer, NULL)]
  <2>1. CASE Advance(t, job[t])
    BY <1>0, <1>1, <1>4, <2>1, AdvanceHere
  <2>2. CASE Advance(t, j)
    <3>1. Append(job[t].buffer, NULL) \in Seq(Nat \cup {NULL})
      BY <1>1
    <3>2. /\ j \in Job /\ j.kind = job[t].kind /\ j.todo = job[t].todo
          /\ j.buffer = Append(job[t].buffer, NULL)
      BY <1>1, <3>1 DEF Job
    <3> HIDE DEF j
    <3> QED BY <1>0, <1>4, <2>2, <3>2, AdvanceHere
  <2> QED BY <1>4, <2>1, <2>2 DEF Failed
<1>5. CASE /\ ~PostFails(t) /\ PostEffect(t)
           /\ job' = [job EXCEPT
                 ![t].outcome = IF NeedsReview(t) THEN "NEEDS_REVIEW" ELSE "PROCESSED",
                 ![t].buffer = Append(@, Len(transactions) + 1)]
           /\ GoTo(t, "mark") /\ UNCHANGED <<session, payment>>
  <2> DEFINE row == Pending(t)
  <2>1. PICK status \in {"NEEDS_REVIEW", "PROCESSED"} :
            status = IF NeedsReview(t) THEN "NEEDS_REVIEW" ELSE "PROCESSED"
    OBVIOUS
  <2>2. PICK events : events = Append(job[t].buffer, Len(transactions) + 1)
    OBVIOUS
  <2>3. /\ status \in ProcessingStatus /\ events \in Seq(Nat \cup {NULL}) /\ events # <<>>
        /\ transactions \in Seq(Transaction) /\ Len(transactions) \in Nat
    BY <1>1, <1>2, <2>1, <2>2 DEF ProcessingStatus, LedgerInd
  <2>4. PICK j : j = Decided(job[t], status, events)
    OBVIOUS
  <2>5. /\ j \in Job /\ j.kind = job[t].kind /\ j.todo = job[t].todo
        /\ j.outcome = status /\ j.buffer = events
    BY <1>1, <2>3, <2>4, DecidedTyped
  <2>6. job' = [job EXCEPT ![t] = j]
    BY <1>5, <2>1, <2>2, <2>4 DEF Decided
  <2>7. /\ pc' \in [Threads -> IngestionSteps] /\ pc'[t] = "mark"
        /\ job' \in [Threads -> Job] /\ job'[t] = j /\ Others(t)
    BY <1>5, <2>5, <2>6, SessionsTyped DEF GoTo, Others, IngestionSteps
  <2>8. TablesMove
    BY <1>2, <1>5, PostMoves
  <2>9. transactions' = Append(transactions, row) /\ row.raw = Message(t) /\ row.raw # NULL
    BY <1>1, <1>2, <1>5, LedgerAssumption DEF PostEffect, Pending, RowOf, PaymentOf
  <2> HIDE DEF row
  <2>10. /\ Prefix /\ Len(transactions) + 1 \in 1 .. Len(transactions')
         /\ transactions'[Len(transactions) + 1] = row
    BY <2>3, <2>9 DEF Prefix
  <2>11. Grows
    BY <1>0, <2>8, <2>10 DEF Grows, TablesMove
  <2>12. \A m \in RawEventIds : Tellable(m, rawEvents[m])'
    BY <1>0, <2>10, StatusesStay
  <2>13. Undelivered' /\ AnnouncedIsPosted'
    BY <1>0, <2>2, <2>5, <2>7, <2>9, BufferGains
  <2>14. Message(t)' = Message(t) /\ ParseOf(Message(t))' = ParseOf(Message(t))
    BY <1>0, <2>5, <2>7 DEF Message, ParseOf
  <2>15. Tellable(Message(t), job[t].outcome)'
    BY <2>1, <2>5, <2>7, <2>9, <2>10, <2>14 DEF Tellable
  <2>18. ParseOf(Message(t)).outcome = "ok"
    BY <1>0, SessionsTyped DEF AtWork
  <2>16. AtWork(t)'
    BY <1>0, <1>1, <1>2, <2>18, <2>1, <2>3, <2>5, <2>7, <2>14, <2>15 DEF AtWork, MessageSteps
  <2>17. /\ sent' \in Seq(Nat) /\ "mark" \in MessageSteps /\ restarts' = restarts
         /\ rawEvents' \in [RawEventIds -> ProcessingStatus \cup {NULL}]
         /\ DOMAIN session' = Threads /\ IsSession(session'[t])
         /\ payment' \in [Threads -> Payment \cup {NULL}]
    BY <1>0, <1>5, SessionsTyped DEF IngestionInd, IngestionTypes, MessageSteps
  <2> QED BY <2>7, <2>8, <2>11, <2>12, <2>13, <2>16, <2>17, StayInd
<1> QED BY <1>3, <1>4, <1>5 DEF sms_write

LEMMA MarkInd ==
    ASSUME IngestionInd, NEW t \in Threads, mark(t)
    PROVE  IngestionInd'
<1> DEFINE status == job[t].outcome
<1>0. /\ pc[t] = "mark" /\ pc[t] \in MessageSteps
      /\ rawEvents' = [rawEvents EXCEPT ![Message(t)] = status]
      /\ UNCHANGED <<accounts, audit, transactions, sent, release, restarts>>
  BY DEF mark, MessageSteps
<1>1. /\ job[t] \in Job /\ Message(t) \in RawEventIds /\ job[t].todo # <<>>
      /\ job[t].buffer \in Seq(Nat \cup {NULL})
      /\ job[t].kind \in {"sms", "batch", "reprocess"}
      /\ job[t].kind = "reprocess" =>
            \A i \in 1 .. Len(job[t].todo) : rawEvents[job[t].todo[i]] # NULL
  BY <1>0, MessageFacts
<1>2. /\ status \in {"PROCESSED", "NEEDS_REVIEW", "DUPLICATE"}
      /\ status # "DUPLICATE" => job[t].buffer # <<>>
      /\ Tellable(Message(t), status)
  BY <1>0, SessionsTyped DEF AtWork
<1>3. status \in ProcessingStatus
  BY <1>2 DEF ProcessingStatus
<1> HIDE DEF status
<1>4. /\ rawEvents' \in [RawEventIds -> ProcessingStatus \cup {NULL}]
      /\ \A n \in RawEventIds : rawEvents[n] # NULL => rawEvents'[n] # NULL
      /\ \A n \in RawEventIds : \/ rawEvents'[n] = rawEvents[n]
                                \/ n = Message(t) /\ rawEvents'[n] = status
      /\ rawEvents'[Message(t)] # NULL
  BY <1>0, <1>1, <1>3, StatusSet
<1>5. TablesMove /\ Prefix
  BY <1>0, Unmoved, Same DEF IngestionInd
<1>6. Grows
  BY <1>0, <1>4, <1>5 DEF Grows, Stored
<1>7. \A m \in RawEventIds : Tellable(m, rawEvents[m])'
  <2>1. ASSUME NEW m \in RawEventIds, rawEvents'[m] # rawEvents[m]
        PROVE  Tellable(m, rawEvents'[m])
    <3>1. m = Message(t) /\ rawEvents'[m] = status
      BY <1>4, <2>1
    <3> QED BY <1>2, <3>1 DEF Tellable
  <2> QED BY <1>5, <2>1, StatusesStay
<1>8. /\ sent' = sent /\ sent' \in Seq(Nat)
      /\ \A i \in 1 .. Len(job[t].buffer) : i + 0 = i /\ i \in 1 .. Len(job[t].buffer)
  BY <1>0, <1>1 DEF IngestionInd, IngestionTypes
<1>9. CASE Advance(t, job[t])
  BY <1>0, <1>4, <1>5, <1>6, <1>7, <1>9, AdvanceMarked
<1>10. CASE /\ status # "DUPLICATE"
            /\ GoTo(t, "flush") /\ UNCHANGED <<session, payment, job>>
  <2>1. /\ pc' \in [Threads -> IngestionSteps] /\ pc'[t] = "flush" /\ Others(t)
    BY <1>10, SessionsTyped DEF GoTo, Others, IngestionSteps
  <2>2. AtWork(t)'
    <3>1. Message(t)' = Message(t) /\ job'[t] = job[t]
      BY <1>10 DEF Message
    <3>2. job[t].kind = "reprocess" =>
              \A i \in 1 .. Len(job[t].todo) : rawEvents'[job[t].todo[i]] # NULL
      BY <1>1, <1>4 DEF Job
    <3> QED BY <1>1, <1>2, <1>4, <1>10, <2>1, <3>1, <3>2 DEF AtWork, MessageSteps
  <2>3. Undelivered' /\ AnnouncedIsPosted'
    <3>1. \A i \in 1 .. Len(job'[t].buffer) : job'[t].buffer[i] # NULL =>
              /\ i + 0 \in 1 .. Len(job[t].buffer)
              /\ job'[t].buffer[i] = job[t].buffer[i + 0]
      BY <1>8, <1>10
    <3> QED BY <1>0, <1>5, <1>10, <2>1, <3>1, SessionsTyped, BufferKept
  <2>4. /\ "flush" \in MessageSteps /\ DOMAIN session' = Threads /\ IsSession(session'[t])
        /\ payment' \in [Threads -> Payment \cup {NULL}] /\ job' \in [Threads -> Job]
    BY <1>10, SessionsTyped DEF MessageSteps
  <2> QED BY <1>0, <1>4, <1>5, <1>6, <1>7, <1>8, <2>1, <2>2, <2>3, <2>4, StayInd
<1> QED BY <1>9, <1>10 DEF mark, status

LEMMA FlushInd ==
    ASSUME IngestionInd, NEW t \in Threads, flush(t)
    PROVE  IngestionInd'
<1> DEFINE events == job[t].buffer
           rest == Tail(events)
           j == [job[t] EXCEPT !.buffer = rest]
<1>0. /\ pc[t] = "flush" /\ pc[t] \in MessageSteps /\ Notify(Head(events))
      /\ UNCHANGED <<accounts, audit, transactions, rawEvents, release, restarts>>
  BY DEF flush, MessageSteps
<1>1. /\ job[t] \in Job /\ Message(t) \in RawEventIds /\ job[t].todo # <<>>
      /\ events \in Seq(Nat \cup {NULL})
      /\ job[t].kind \in {"sms", "batch", "reprocess"}
      /\ job[t].kind = "reprocess" =>
            \A i \in 1 .. Len(job[t].todo) : rawEvents[job[t].todo[i]] # NULL
      /\ sent \in Seq(Nat)
  BY <1>0, MessageFacts DEF IngestionInd, IngestionTypes
<1>2. events # <<>>
  BY <1>0, SessionsTyped DEF AtWork
<1>3. /\ rest \in Seq(Nat \cup {NULL}) /\ Head(events) = events[1]
      /\ events[1] \in Nat \cup {NULL}
      /\ \A i \in 1 .. Len(rest) : i + 1 \in 1 .. Len(events) /\ rest[i] = events[i + 1]
  <2> HIDE DEF events
  <2> QED BY <1>1, <1>2
<1> HIDE DEF rest
<1>4. /\ j \in Job /\ j.kind = job[t].kind /\ j.todo = job[t].todo /\ j.buffer = rest
      /\ job[t] \in Job
  BY <1>1, <1>3 DEF Job
<1>5. \/ sent' = sent
      \/ events[1] # NULL /\ sent' = Append(sent, events[1])
  BY <1>0, <1>3 DEF Notify
<1>6. sent' \in Seq(Nat)
  <2>1. CASE sent' = sent
    BY <1>1, <2>1
  <2>2. CASE events[1] # NULL /\ sent' = Append(sent, events[1])
    <3>1. PICK e \in Nat : e = events[1]
      BY <1>3, <2>2
    <3> QED BY <1>1, <2>2, <3>1
  <2> QED BY <1>5, <2>1, <2>2
<1>7. /\ TablesMove /\ Grows /\ Prefix
      /\ rawEvents' \in [RawEventIds -> ProcessingStatus \cup {NULL}]
      /\ \A m \in RawEventIds : Tellable(m, rawEvents[m])'
  BY <1>0, TablesStay
<1> HIDE DEF j
<1>8. CASE Advance(t, j)
  <2>1. PICK k \in {0, 1} : k = 1
    OBVIOUS
  <2>2. /\ \A i \in 1 .. Len(j.buffer) : j.buffer[i] # NULL =>
              i + k \in 1 .. Len(job[t].buffer) /\ j.buffer[i] = job[t].buffer[i + k]
        /\ \/ sent' = sent
           \/ /\ k = 1 /\ job[t].buffer # <<>> /\ job[t].buffer[1] # NULL
              /\ sent' = Append(sent, job[t].buffer[1])
    BY <1>2, <1>3, <1>4, <1>5, <2>1
  <2>3. /\ j.kind \in {"sms", "batch", "reprocess"} /\ j.todo # <<>>
        /\ j.kind = "reprocess" =>
              \A i \in 1 .. Len(j.todo) : rawEvents[j.todo[i]] # NULL
    BY <1>1, <1>4
  <2> QED BY <1>0, <1>4, <1>6, <1>7, <1>8, <2>2, <2>3, AdvanceInd
<1>9. CASE rest # <<>> /\ job' = [job EXCEPT ![t] = j] /\ UNCHANGED <<pc, session, payment>>
  <2>1. /\ job' \in [Threads -> Job] /\ job'[t] = j /\ Others(t)
    BY <1>4, <1>9, SessionsTyped DEF Others
  <2>2. AtWork(t)'
    <3>1. Message(t)' = Message(t) /\ pc'[t] = "flush" /\ AtWork(t)
      BY <1>0, <1>4, <1>9, <2>1, SessionsTyped DEF Message
    <3> QED BY <1>0, <1>1, <1>4, <1>9, <2>1, <3>1 DEF AtWork, MessageSteps
  <2>3. Undelivered' /\ AnnouncedIsPosted'
    BY <1>2, <1>3, <1>4, <1>5, <1>7, <2>1, BufferKept
  <2>4. /\ DOMAIN session' = Threads /\ IsSession(session'[t])
        /\ payment' \in [Threads -> Payment \cup {NULL}]
        /\ pc' \in [Threads -> IngestionSteps] /\ pc'[t] \in MessageSteps
    BY <1>0, <1>9, SessionsTyped
  <2> QED BY <1>0, <1>6, <1>7, <2>1, <2>2, <2>3, <2>4, StayInd
<1>10. \/ Advance(t, j)
       \/ rest # <<>> /\ job' = [job EXCEPT ![t] = j] /\ UNCHANGED <<pc, session, payment>>
  BY Zenon DEF flush, j, rest
<1> QED BY <1>8, <1>9, <1>10

-----------------------------------------------------------------------------
(* The start of a request.                                                 *)

LEMMA BeginInd ==
    ASSUME IngestionInd, NEW t \in Threads, NEW j \in Job,
           j.kind \in {"sms", "batch", "reprocess"}, j.buffer = <<>>,
           NEW next \in {"lookup", "pick"},
           next = "lookup" => j.kind \in {"sms", "batch"} /\ j.todo # <<>>,
           next = "pick" => j.kind = "reprocess" /\ j.turn \in 1 .. 3 /\ j.todo = <<>>,
           Begin(t, j, next)
    PROVE  IngestionInd'
<1>1. /\ job' = [job EXCEPT ![t] = j] /\ pc' = [pc EXCEPT ![t] = next]
      /\ UNCHANGED <<accounts, audit, session, transactions, payment, rawEvents, sent,
                     release, restarts>>
  BY DEF Begin, GoTo
<1>2. /\ job' \in [Threads -> Job] /\ job'[t] = j /\ pc'[t] = next /\ Others(t)
      /\ next \in MessageSteps \cup {"pick"}
  BY <1>1, SessionsTyped DEF Others, MessageSteps
<1>3. AtWork(t)'
  BY <1>1, <1>2 DEF AtWork, MessageSteps
<1> QED BY <1>1, <1>2, <1>3, SessionsTyped, ReadInd

\* The jobs that requests begin with.
Given(j, kind, todo) == [j EXCEPT !.kind = kind, !.todo = todo]

Asked(j, window) == [j EXCEPT !.kind = "reprocess", !.window = window, !.turn = 1]

\* A reprocessing that picked some of its messages, and one that picked all.
Picking(j, todo, turn) == [j EXCEPT !.todo = todo, !.turn = turn]

PickedAll(j, todo) == [j EXCEPT !.todo = todo, !.turn = 0, !.window = {}]

LEMMA GivenTyped ==
    ASSUME NEW j \in Job, NEW kind \in {"sms", "batch"}, NEW todo \in Seq(RawEventIds)
    PROVE  /\ Given(j, kind, todo) \in Job
           /\ Given(j, kind, todo).kind = kind /\ Given(j, kind, todo).todo = todo
           /\ Given(j, kind, todo).buffer = j.buffer
BY DEF Given, Job

LEMMA PickingTyped ==
    ASSUME NEW j \in Job, NEW todo \in Seq(RawEventIds), NEW turn \in Turns
    PROVE  /\ Picking(j, todo, turn) \in Job /\ PickedAll(j, todo) \in Job
           /\ Picking(j, todo, turn).kind = j.kind /\ PickedAll(j, todo).kind = j.kind
           /\ Picking(j, todo, turn).todo = todo /\ PickedAll(j, todo).todo = todo
           /\ Picking(j, todo, turn).turn = turn
           /\ Picking(j, todo, turn).buffer = j.buffer
           /\ PickedAll(j, todo).buffer = j.buffer
<1>0. {} \in Ranges /\ 0 \in Turns
  BY DEF Ranges, Turns
<1>1. PICK none \in Ranges, past \in Turns : none = {} /\ past = 0
  BY <1>0
<1>2. PickedAll(j, todo) = [j EXCEPT !.todo = todo, !.turn = past, !.window = none]
  BY <1>1 DEF PickedAll
<1> QED BY <1>2 DEF Picking, Job

LEMMA AskedTyped ==
    ASSUME NEW j \in Job, NEW window \in Ranges
    PROVE  /\ Asked(j, window) \in Job
           /\ Asked(j, window).kind = "reprocess" /\ Asked(j, window).turn = 1
           /\ Asked(j, window).todo = j.todo /\ Asked(j, window).buffer = j.buffer
<1>1. PICK first \in Turns : first = 1
  BY DEF Turns
<1> QED BY <1>1 DEF Asked, Job

LEMMA StartInd ==
    ASSUME IngestionInd, NEW t \in Threads,
           ingest_sms(t) \/ import_batch(t) \/ reprocess(t)
    PROVE  IngestionInd'
<1>0. NoJob \in Job /\ NoJob.todo = <<>> /\ NoJob.buffer = <<>>
  BY NoJobTyped DEF NoJob
<1>1. CASE ingest_sms(t)
  <2>1. PICK m \in RawEventIds : Begin(t, Given(NoJob, "sms", <<m>>), "lookup")
    BY <1>1 DEF ingest_sms, Given
  <2>2. PICK todo : todo = <<m>>
    OBVIOUS
  <2>3. <<m>> \in Seq(RawEventIds) /\ <<m>> # <<>>
    OBVIOUS
  <2>4. todo \in Seq(RawEventIds) /\ todo # <<>> /\ Begin(t, Given(NoJob, "sms", todo), "lookup")
    BY <2>1, <2>2, <2>3
  <2> QED BY <1>0, <2>4, GivenTyped, BeginInd
<1>2. CASE import_batch(t)
  <2>1. PICK messages \in Batches :
            Begin(t, Given(NoJob, "batch", messages), "lookup")
    BY <1>2 DEF import_batch, Given
  <2>2. messages \in Seq(RawEventIds) /\ messages # <<>>
    BY IngestionAssumption
  <2> QED BY <1>0, <2>1, <2>2, GivenTyped, BeginInd
<1>3. CASE reprocess(t)
  <2>1. PICK window \in Ranges : Begin(t, Asked(NoJob, window), "pick")
    BY <1>3 DEF reprocess, Asked, Ranges
  <2> QED BY <1>0, <2>1, AskedTyped, BeginInd
<1> QED BY <1>1, <1>2, <1>3

\* What a reprocessing has picked after one more SELECT: what it had, and
\* messages with a status that is worth it.
LEMMA PickedTyped ==
    ASSUME IngestionInd, NEW t \in Threads, pc[t] = "pick",
           NEW list \in Newest(job[t].window, REPROCESSABLE_STATUSES[job[t].turn]),
           NEW todo, todo = CutToLimit(job[t].todo \o list)
    PROVE  /\ todo \in Seq(RawEventIds)
           /\ \A i \in 1 .. Len(todo) :
                 \/ \E k \in 1 .. Len(job[t].todo) : todo[i] = job[t].todo[k]
                 \/ rawEvents[todo[i]] \in {"FAILED", "UNKNOWN_FORMAT", "RECEIVED"}
<1> DEFINE status == REPROCESSABLE_STATUSES[job[t].turn]
           due == {m \in job[t].window : rawEvents[m] = status}
<1>1. /\ job[t] \in Job /\ job[t].turn \in 1 .. 3
  BY SessionsTyped DEF AtWork
<1>2. due \subseteq RawEventIds /\ Cardinality(due) \in Nat
  <2>1. job[t].window \subseteq RawEventIds /\ IsFiniteSet(job[t].window)
    BY <1>1, FS_EmptySet, IngestionAssumption DEF Job, Ranges
  <2>2. IsFiniteSet(due)
    BY <2>1, FS_Subset
  <2> QED BY <2>1, <2>2, FS_CardinalityType
<1>3. status \in {"FAILED", "UNKNOWN_FORMAT", "RECEIVED"}
  BY <1>1 DEF REPROCESSABLE_STATUSES
<1>4. PICK n \in Nat : list \in [1 .. n -> due]
  BY <1>2, IngestionAssumption DEF Newest
<1>5. /\ list \in Seq(RawEventIds) /\ Len(list) = n
      /\ \A i \in 1 .. n : rawEvents[list[i]] = status
  BY <1>2, <1>4
<1> HIDE DEF due, status
<1>6. PICK had : had = job[t].todo /\ had \in Seq(RawEventIds) /\ Len(had) \in Nat
  BY <1>1 DEF Job
<1>7. PICK all : all = had \o list
  OBVIOUS
<1>8. PICK h \in Nat :
          /\ h = Len(had) /\ all \in Seq(RawEventIds) /\ Len(all) = h + n
          /\ \A i \in 1 .. h + n : all[i] = IF i <= h THEN had[i] ELSE list[i - h]
  <2>0. had \in Seq(RawEventIds) /\ list \in Seq(RawEventIds)
    BY <1>5, <1>6
  <2>1. /\ all \in Seq(RawEventIds) /\ Len(all) = Len(had) + Len(list)
        /\ \A i \in 1 .. Len(had) + Len(list) :
              all[i] = IF i <= Len(had) THEN had[i] ELSE list[i - Len(had)]
    BY <1>7, <2>0, ConcatProperties
  <2> QED BY <1>5, <1>6, <2>1
<1>9. PICK k \in Nat : k <= Len(all) /\ todo = SubSeq(all, 1, k)
  <2>1. todo = SubSeq(all, 1, IF Len(all) < ReprocessLimit THEN Len(all) ELSE ReprocessLimit)
    BY <1>6, <1>7 DEF CutToLimit
  <2>2. Len(all) \in Nat /\ ReprocessLimit \in Nat
    BY <1>8, IngestionAssumption
  <2> QED BY <2>1, <2>2
<1>11. /\ todo \in Seq(RawEventIds) /\ Len(todo) = k
       /\ \A i \in 1 .. k : todo[i] = all[i]
  BY <1>8, <1>9
<1>10. ASSUME NEW i \in 1 .. Len(todo)
       PROVE  \/ \E l \in 1 .. Len(job[t].todo) : todo[i] = job[t].todo[l]
              \/ rawEvents[todo[i]] \in {"FAILED", "UNKNOWN_FORMAT", "RECEIVED"}
  <2>0. i \in 1 .. h + n /\ todo[i] = all[i]
    BY <1>8, <1>9, <1>11
  <2>1. CASE i <= h
    <3>1. i \in 1 .. h /\ todo[i] = had[i]
      BY <1>8, <2>0, <2>1
    <3> QED BY <1>6, <1>8, <3>1
  <2>2. CASE ~(i <= h)
    <3>1. i - h \in 1 .. n /\ todo[i] = list[i - h]
      BY <1>8, <2>0, <2>2
    <3> QED BY <1>3, <1>5, <3>1
  <2> QED BY <2>1, <2>2
<1> QED BY <1>10, <1>11

\* The handler picks on, ends with nothing picked, or starts with the first.
LEMMA PickInd ==
    ASSUME IngestionInd, NEW t \in Threads, pick(t)
    PROVE  IngestionInd'
<1>1. /\ pc[t] = "pick" /\ job[t] \in Job /\ job[t].kind = "reprocess"
      /\ job[t].turn \in 1 .. 3
      /\ \A i \in 1 .. Len(job[t].todo) : rawEvents[job[t].todo[i]] # NULL
      /\ UNCHANGED <<accounts, audit, transactions, rawEvents, sent, release, restarts>>
  BY SessionsTyped DEF pick, AtWork
<1>2. PICK list, todo :
          /\ list \in Newest(job[t].window, REPROCESSABLE_STATUSES[job[t].turn])
          /\ todo = CutToLimit(job[t].todo \o list)
          /\ \/ /\ job[t].turn < Len(REPROCESSABLE_STATUSES)
                /\ job' = [job EXCEPT ![t] = Picking(job[t], todo, job[t].turn + 1)]
                /\ UNCHANGED <<pc, session, payment>>
             \/ Finish(t)
             \/ /\ todo # <<>>
                /\ job' = [job EXCEPT ![t] = PickedAll(job[t], todo)]
                /\ GoTo(t, "parse")
                /\ UNCHANGED <<session, payment>>
  BY DEF pick, Picking, PickedAll
<1>3. todo \in Seq(RawEventIds) /\ \A i \in 1 .. Len(todo) : rawEvents[todo[i]] # NULL
  <2>1. /\ todo \in Seq(RawEventIds)
        /\ \A i \in 1 .. Len(todo) :
              \/ \E k \in 1 .. Len(job[t].todo) : todo[i] = job[t].todo[k]
              \/ rawEvents[todo[i]] \in {"FAILED", "UNKNOWN_FORMAT", "RECEIVED"}
    BY <1>1, <1>2, PickedTyped
  <2>2. NULL \notin {"FAILED", "UNKNOWN_FORMAT", "RECEIVED"}
    BY IngestionAssumption DEF ProcessingStatus
  <2> QED BY <1>1, <2>1, <2>2
<1>4. Len(REPROCESSABLE_STATUSES) = 3
  BY DEF REPROCESSABLE_STATUSES
<1>5. CASE /\ job[t].turn < Len(REPROCESSABLE_STATUSES)
           /\ job' = [job EXCEPT ![t] = Picking(job[t], todo, job[t].turn + 1)]
           /\ UNCHANGED <<pc, session, payment>>
  <2>1. PICK j : j = Picking(job[t], todo, job[t].turn + 1)
    OBVIOUS
  <2>2. /\ j \in Job /\ j.kind = "reprocess" /\ j.turn \in 1 .. 3 /\ j.todo = todo
        /\ j.buffer = job[t].buffer
    <3>1. job[t].turn + 1 \in Turns /\ job[t].turn + 1 \in 1 .. 3
      BY <1>1, <1>4, <1>5 DEF Turns
    <3> QED BY <1>1, <1>3, <2>1, <3>1, PickingTyped
  <2>3. /\ job' \in [Threads -> Job] /\ job'[t] = j /\ pc'[t] = "pick" /\ Others(t)
        /\ pc' = [pc EXCEPT ![t] = "pick"]
    BY <1>1, <1>5, <2>1, <2>2, SessionsTyped DEF Others
  <2>4. AtWork(t)'
    BY <1>1, <1>3, <2>2, <2>3 DEF AtWork, MessageSteps
  <2> QED BY <1>1, <1>5, <2>2, <2>3, <2>4, SessionsTyped, ReadInd
<1>6. CASE Finish(t)
  BY <1>1, <1>6, FinishInd
<1>7. CASE /\ todo # <<>>
           /\ job' = [job EXCEPT ![t] = PickedAll(job[t], todo)]
           /\ GoTo(t, "parse")
           /\ UNCHANGED <<session, payment>>
  <2>1. PICK j : j = PickedAll(job[t], todo)
    OBVIOUS
  <2>2. /\ j \in Job /\ j.kind = "reprocess" /\ j.todo = todo /\ j.buffer = job[t].buffer
    <3>1. 0 \in Turns
      BY DEF Turns
    <3> QED BY <1>1, <1>3, <2>1, <3>1, PickingTyped
  <2>3. /\ job' \in [Threads -> Job] /\ job'[t] = j /\ pc'[t] = "parse" /\ Others(t)
        /\ pc' = [pc EXCEPT ![t] = "parse"]
    BY <1>7, <2>1, <2>2, SessionsTyped DEF Others, GoTo
  <2>4. Message(t)' = todo[1] /\ 1 \in 1 .. Len(todo)
    BY <1>3, <1>7, <2>2, <2>3 DEF Message
  <2>5. AtWork(t)'
    BY <1>1, <1>3, <1>7, <2>2, <2>3, <2>4 DEF AtWork, MessageSteps
  <2>6. "parse" \in MessageSteps
    BY DEF MessageSteps
  <2> QED BY <1>1, <1>7, <2>2, <2>3, <2>5, <2>6, SessionsTyped, ReadInd
<1> QED BY <1>2, <1>5, <1>6, <1>7

-----------------------------------------------------------------------------
(* The ledger's own requests, and the process.                              *)

\* A step of the ledger moves one handler, which is at no message, and takes no
\* row away.
LEMMA LedgerMoves ==
    ASSUME IngestionInd, LedgerNext
    PROVE  /\ Prefix /\ \A id \in Stored : accounts'[id] # NULL
           /\ \E t \in Threads :
                 /\ pc[t] \in LedgerSteps
                 /\ \E next \in LedgerSteps : pc' = [pc EXCEPT ![t] = next]
                 /\ \A u \in Threads \ {t} : /\ pc'[u] = pc[u] /\ session'[u] = session[u]
                                             /\ payment'[u] = payment[u]
<1>0. /\ LedgerInd /\ AccountsInd /\ transactions \in Seq(Transaction)
      /\ pc \in [Threads -> IngestionSteps] /\ DOMAIN session = Threads
      /\ payment \in [Threads -> Payment \cup {NULL}]
  BY DEF IngestionInd, LedgerInd, AccountsInd, IngestionTypes
<1>1. ASSUME NEW t \in Threads, AccountsStep(t), UNCHANGED <<transactions, payment>>
      PROVE  /\ Prefix /\ \A id \in Stored : accounts'[id] # NULL
             /\ pc[t] \in LedgerSteps
             /\ \E next \in LedgerSteps : pc' = [pc EXCEPT ![t] = next]
             /\ \A u \in Threads \ {t} : /\ pc'[u] = pc[u] /\ session'[u] = session[u]
                                         /\ payment'[u] = payment[u]
  <2>1. Prefix
    BY <1>1, Same
  <2>2. \A id \in Stored : accounts'[id] # NULL
    BY <1>0, <1>1, AccountsStepBalance
  <2>3. pc[t] \in LedgerSteps
    BY <1>1 DEF AccountsStep, create_account, create_insert, update_account, update_guard,
       update_write, archive_account, archive_write, Accepts, LedgerSteps, AccountSteps
  <2>4. \E next \in LedgerSteps : pc' = [pc EXCEPT ![t] = next]
    BY <1>1 DEF AccountsStep, create_account, create_insert, update_account, update_guard,
       update_write, archive_account, archive_write, Hold, HoldSince, Close, LedgerSteps, AccountSteps
  <2>5. \A u \in Threads : u # t => pc'[u] = pc[u] /\ session'[u] = session[u]
    BY <1>0, <1>1, AccountsStepOthers
  <2> QED BY <1>1, <2>1, <2>2, <2>3, <2>4, <2>5
<1>2. ASSUME NEW t \in Threads, LedgerStep(t)
      PROVE  /\ Prefix /\ \A id \in Stored : accounts'[id] # NULL
             /\ pc[t] \in LedgerSteps
             /\ \E next \in LedgerSteps : pc' = [pc EXCEPT ![t] = next]
             /\ \A u \in Threads \ {t} : /\ pc'[u] = pc[u] /\ session'[u] = session[u]
                                         /\ payment'[u] = payment[u]
  <2>1. Prefix
    <3>1. CASE transactions' = transactions
      BY <3>1, Same
    <3>2. CASE transactions' = Append(transactions, Pending(t))
      BY <1>0, <3>2 DEF Prefix
    <3> QED BY <1>2, <3>1, <3>2 DEF LedgerStep, create_transaction, post_check, post_write,
            reconcile_account, reconcile_write, PostEffect
  <2>2. \A id \in Stored : accounts'[id] # NULL
    BY <1>0, <1>2, LedgerStepMoves DEF TablesMove
  <2>3. pc[t] \in LedgerSteps
    BY <1>2 DEF LedgerStep, create_transaction, post_check, post_write,
       reconcile_account, reconcile_write, Accepts, LedgerSteps, AccountSteps
  <2>4. \E next \in LedgerSteps : pc' = [pc EXCEPT ![t] = next]
    BY <1>2 DEF LedgerStep, create_transaction, post_check, post_write,
       reconcile_account, reconcile_write, ClosePost, Hold, HoldSince, Close, LedgerSteps, AccountSteps
  <2>5. \A u \in Threads \ {t} : session'[u] = session[u] /\ payment'[u] = payment[u]
    BY <1>0, <1>2 DEF LedgerStep, create_transaction, post_check, post_write,
       reconcile_account, reconcile_write, ClosePost, Hold, HoldSince, Close
  <2>6. \A u \in Threads \ {t} : pc'[u] = pc[u]
    BY <1>0, <2>4
  <2> QED BY <2>1, <2>2, <2>3, <2>4, <2>5, <2>6
<1>3. \/ \E t \in Threads : AccountsStep(t) /\ UNCHANGED <<transactions, payment>>
      \/ \E t \in Threads : LedgerStep(t)
  BY DEF LedgerNext, AccountsNext
<1>4. CASE \E t \in Threads : AccountsStep(t) /\ UNCHANGED <<transactions, payment>>
  BY <1>1, <1>4
<1>5. CASE \E t \in Threads : LedgerStep(t)
  BY <1>2, <1>5
<1> QED BY <1>3, <1>4, <1>5

LEMMA LedgerPartInd ==
    ASSUME IngestionInd, LedgerNext, UNCHANGED <<rawEvents, job, sent, release, restarts>>
    PROVE  IngestionInd'
<1>1. PICK t \in Threads :
          /\ pc[t] \in LedgerSteps
          /\ \E next \in LedgerSteps : pc' = [pc EXCEPT ![t] = next]
          /\ \A u \in Threads \ {t} : /\ pc'[u] = pc[u] /\ session'[u] = session[u]
                                      /\ payment'[u] = payment[u]
  BY LedgerMoves
<1>2. Prefix /\ \A id \in Stored : accounts'[id] # NULL
  BY LedgerMoves
<1>3. Others(t) /\ Grows
  BY <1>1, <1>2 DEF Others, Grows
<1>4. LedgerInd'
  BY LedgerNextInd DEF IngestionInd
<1>5. /\ LedgerSteps \cap (MessageSteps \cup {"pick"}) = {}
      /\ LedgerSteps \subseteq IngestionSteps
  BY DEF LedgerSteps, AccountSteps, MessageSteps, IngestionSteps
<1>6. IngestionTypes' /\ pc'[t] \in LedgerSteps
  BY <1>1, <1>5 DEF IngestionInd, IngestionTypes
<1>7. AtWork(t)'
  <2>1. job'[t] = NoJob
    BY <1>1, <1>5, SessionsTyped DEF AtWork
  <2> QED BY <1>5, <1>6, <2>1 DEF AtWork, MessageSteps, NoJob
<1>8. \A m \in RawEventIds : Tellable(m, rawEvents[m])'
  BY <1>2, StatusesStay
<1>9. Undelivered' /\ AnnouncedIsPosted'
  <2>1. \A i \in 1 .. Len(job'[t].buffer) : job'[t].buffer[i] # NULL =>
            /\ i + 0 \in 1 .. Len(job[t].buffer)
            /\ job'[t].buffer[i] = job[t].buffer[i + 0]
    BY SessionsTyped DEF Job
  <2>2. job' \in [Threads -> Job] /\ sent' = sent
    BY SessionsTyped
  <2> QED BY <1>2, <1>3, <2>1, <2>2, BufferKept
<1> QED BY <1>3, <1>4, <1>6, <1>7, <1>8, <1>9, Assembled

\* What is committed is as true after a restart as before it, and nothing else
\* is left.
LEMMA RestartInd ==
    ASSUME IngestionInd, restart
    PROVE  IngestionInd'
<1>1. /\ pc' = [t \in Threads |-> "idle"] /\ session' = [t \in Threads |-> NoSession]
      /\ payment' = [t \in Threads |-> NULL] /\ job' = [t \in Threads |-> NoJob]
      /\ release' \in Releases /\ restarts < MaxRestarts /\ restarts' = restarts + 1
      /\ UNCHANGED <<accounts, audit, transactions, rawEvents, sent>>
  BY DEF restart
<1>2. LedgerInd'
  <2>1. IsSession(NoSession)
    BY DEF IsSession, NoSession, NoChange, IsChange
  <2>2. AccountsInd'
    BY <1>1, <2>1 DEF IngestionInd, LedgerInd, AccountsInd
  <2>3. \A t \in Threads : HandlerInd(t)'
    BY <1>1 DEF HandlerInd
  <2>4. \A id \in Stored' : Representable(accounts'[id].balance)
    BY <1>1 DEF IngestionInd, LedgerInd, Stored
  <2> QED BY <1>1, <2>2, <2>3, <2>4 DEF IngestionInd, LedgerInd
<1>3. IngestionTypes'
  <2>1. NoJob \in Job /\ "idle" \in IngestionSteps
    BY NoJobTyped DEF NoJob, IngestionSteps, LedgerSteps, AccountSteps
  <2>2. restarts' \in Nat /\ restarts' <= MaxRestarts
    BY <1>1, IngestionAssumption DEF IngestionInd, IngestionTypes
  <2> QED BY <1>1, <2>1, <2>2 DEF IngestionInd, IngestionTypes
<1>4. \A t \in Threads : AtWork(t)'
  BY <1>1 DEF AtWork, MessageSteps, NoJob
<1>5. \A m \in RawEventIds : Tellable(m, rawEvents[m])'
  BY <1>1, Same, StatusesStay
<1>6. Undelivered'
  <2>1. \A t \in Threads : job'[t].buffer = <<>> /\ Len(job'[t].buffer) = 0
    BY <1>1 DEF NoJob
  <2> QED BY <2>1 DEF Undelivered
<1>7. AnnouncedIsPosted'
  BY <1>1 DEF IngestionInd, AnnouncedIsPosted
<1> QED BY <1>2, <1>3, <1>4, <1>5, <1>6, <1>7 DEF IngestionInd

LEMMA MessageStepInd ==
    ASSUME IngestionInd, NEW t \in Threads, MessageStep(t)
    PROVE  IngestionInd'
BY PickInd, LookupInd, StoreInd, RecordInd, ResolveInd, StubInsertInd, RefreshInd, CheckInd, WriteInd,
   MarkInd, FlushInd DEF MessageStep

LEMMA IngestionNextInd ==
    ASSUME IngestionInd, [IngestionNext]_ingestionVars
    PROVE  IngestionInd'
<1>1. CASE UNCHANGED ingestionVars
  <2>1. LedgerInd'
    BY <1>1, LedgerNextInd DEF ingestionVars, ledgerVars, IngestionInd
  <2>2. \A t \in Threads : AtWork(t)'
    BY <1>1, WorkKept, TablesStay DEF ingestionVars
  <2>3. \A m \in RawEventIds : Tellable(m, rawEvents[m])'
    BY <1>1, TablesStay DEF ingestionVars
  <2> QED BY <1>1, <2>1, <2>2, <2>3 DEF ingestionVars, IngestionInd, IngestionTypes,
          Undelivered, AnnouncedIsPosted
<1>2. CASE LedgerNext /\ UNCHANGED <<rawEvents, job, sent, release, restarts>>
  BY <1>2, LedgerPartInd
<1>3. CASE \E t \in Threads : ingest_sms(t) \/ import_batch(t) \/ reprocess(t)
  BY <1>3, StartInd
<1>4. CASE \E t \in Threads : MessageStep(t)
  BY <1>4, MessageStepInd
<1>5. CASE restart
  BY <1>5, RestartInd
<1> QED BY <1>1, <1>2, <1>3, <1>4, <1>5 DEF IngestionNext

LEMMA IngestionInvariant == IngestionSpec => []IngestionInd
<1>1. IngestionInit => IngestionInd
  <2> SUFFICES ASSUME IngestionInit PROVE IngestionInd
    OBVIOUS
  <2>1. LedgerInd /\ pc = [t \in Threads |-> "idle"] /\ transactions = <<>>
    BY LedgerInitInd DEF IngestionInit, LedgerInit, AccountsInit
  <2>2. NoJob \in Job /\ NoJob.buffer = <<>> /\ "idle" \in IngestionSteps
    BY NoJobTyped DEF NoJob, IngestionSteps, LedgerSteps, AccountSteps
  <2>3. IngestionTypes
    BY <2>1, <2>2, IngestionAssumption DEF IngestionInit, IngestionTypes
  <2>4. \A t \in Threads : AtWork(t)
    BY <2>1 DEF IngestionInit, AtWork, MessageSteps, NoJob
  <2>5. \A m \in RawEventIds : Tellable(m, rawEvents[m])
    BY IngestionAssumption DEF IngestionInit, Tellable, ProcessingStatus
  <2>6. Undelivered /\ AnnouncedIsPosted
    BY <2>1, <2>2 DEF IngestionInit, Undelivered, AnnouncedIsPosted
  <2> QED BY <2>1, <2>3, <2>4, <2>5, <2>6 DEF IngestionInd
<1> QED BY <1>1, IngestionNextInd, PTL DEF IngestionSpec

-----------------------------------------------------------------------------
(* Theorems.                                                               *)

\* The tables, the jobs and the process hold well-formed values whatever the
\* requests, the parsers and the restarts.
THEOREM IngestionTypeCorrect == IngestionSpec => []IngestionTypeOK
<1>1. IngestionInd => IngestionTypeOK
  <2> SUFFICES ASSUME IngestionInd PROVE IngestionTypeOK
    OBVIOUS
  <2>1. \A t \in Threads : IsJob(job[t])
    <3>1. ASSUME NEW j \in Job PROVE IsJob(j)
      <4>1. DOMAIN j = DOMAIN NoJob
        BY DEF Job, NoJob
      <4>2. \A i \in 1 .. Len(j.buffer) : j.buffer[i] \in Nat \cup {NULL}
        BY DEF Job
      <4>3. j.window \subseteq RawEventIds
        BY IngestionAssumption DEF Job, Ranges
      <4>4. j.turn \in 0 .. Len(REPROCESSABLE_STATUSES)
        <5>1. Len(REPROCESSABLE_STATUSES) = 3
          BY DEF REPROCESSABLE_STATUSES
        <5> QED BY <5>1 DEF Job, Turns
      <4> QED BY <4>1, <4>2, <4>3, <4>4 DEF IsJob, Job
    <3> QED BY <3>1 DEF IngestionInd, IngestionTypes
  <2>2. /\ accounts \in [AccountIds -> Account \cup {NULL}]
        /\ transactions \in Seq(Transaction)
        /\ payment \in [Threads -> Payment \cup {NULL}]
    BY DEF IngestionInd, LedgerInd, AccountsInd
  <2>3. /\ pc \in [Threads -> IngestionSteps]
        /\ rawEvents \in [RawEventIds -> ProcessingStatus \cup {NULL}]
        /\ DOMAIN job = Threads
        /\ \A i \in 1 .. Len(sent) : sent[i] \in Nat
        /\ release \in Releases /\ restarts \in 0 .. MaxRestarts
    BY IngestionAssumption DEF IngestionInd, IngestionTypes
  <2> QED BY <2>1, <2>2, <2>3 DEF IngestionTypeOK
<1> QED BY <1>1, IngestionInvariant, PTL

\* Status and transaction are two commits, and a restart, another delivery or a
\* reprocessing may come between: the status of every message is true of the
\* ledger nevertheless.
THEOREM IngestionStatusTellsTruth == IngestionSpec => []StatusTellsTruth
<1>1. IngestionInd => StatusTellsTruth
  <2> SUFFICES ASSUME IngestionInd, NEW m \in RawEventIds
               PROVE  /\ rawEvents[m] \in {"PROCESSED", "NEEDS_REVIEW"} =>
                            \E i \in 1 .. Len(transactions) : transactions[i].raw = m
                      /\ rawEvents[m] = "DUPLICATE" =>
                            \E i \in 1 .. Len(transactions), r \in Releases :
                                LET e == transactions[i]
                                    p == Reading[r][m]
                                IN  <<e.amount, e.direction, e.key>> =
                                    <<p.amount, p.direction, p.key>>
    BY DEF StatusTellsTruth
  <2> QED BY DEF IngestionInd, Tellable
<1> QED BY <1>1, IngestionInvariant, PTL

\* Nothing is announced twice or before it is in the table, although every
\* handler keeps a buffer of its own and a failed message leaves its event there.
THEOREM IngestionAnnouncedIsPosted == IngestionSpec => []AnnouncedIsPosted
<1>1. IngestionInd => AnnouncedIsPosted
  BY DEF IngestionInd
<1> QED BY <1>1, IngestionInvariant, PTL

-----------------------------------------------------------------------------
(* Which messages a handler drops.                                         *)

\* What a step of a message does to its handler's list: nothing, or it goes on
\* with the next message, or it ends a request that is no import.
ListMoves(t) ==
    \/ job'[t].todo = job[t].todo /\ job'[t].kind = job[t].kind
    \/ job[t].kind # "batch" /\ Finish(t)
    \/ \E j \in Job : /\ j.kind = job[t].kind /\ j.todo = job[t].todo
                      /\ Advance(t, j)

LEMMA RaiseMoves ==
    ASSUME NEW t \in Threads, NEW j \in Job, j.kind = job[t].kind, j.todo = job[t].todo,
           Raise(t, j)
    PROVE  ListMoves(t)
BY DEF ListMoves, Raise

LEMMA MessageStepMoves ==
    ASSUME IngestionInd, NEW t \in Threads, MessageStep(t), pc[t] # "pick"
    PROVE  ListMoves(t)
<1>1. /\ job \in [Threads -> Job] /\ job[t] \in Job
      /\ job[t].buffer \in Seq(Nat \cup {NULL})
  BY SessionsTyped DEF Job
<1>2. CASE job' = job
  BY <1>2 DEF ListMoves
<1>3. CASE Raise(t, job[t]) \/ Advance(t, job[t])
  BY <1>1, <1>3, RaiseMoves DEF ListMoves
<1>4. CASE \/ Duplicate(t)
           \/ job' = [job EXCEPT ![t].created = TRUE]
           \/ \E status, events :
                 job' = [job EXCEPT ![t].outcome = status, ![t].buffer = events]
           \/ \E events : job' = [job EXCEPT ![t].buffer = events]
  <2>1. \A old \in Job : \A status, events :
            /\ [old EXCEPT !.created = TRUE].todo = old.todo
            /\ [old EXCEPT !.created = TRUE].kind = old.kind
            /\ [old EXCEPT !.buffer = events].todo = old.todo
            /\ [old EXCEPT !.buffer = events].kind = old.kind
            /\ Decided(old, status, events).todo = old.todo
            /\ Decided(old, status, events).kind = old.kind
    BY DEF Job, Decided
  <2>2. CASE job' = [job EXCEPT ![t].created = TRUE]
    <3>1. job'[t] = [job[t] EXCEPT !.created = TRUE]
      BY <1>1, <2>2
    <3> QED BY <1>1, <2>1, <3>1 DEF ListMoves
  <2>3. ASSUME NEW events, job' = [job EXCEPT ![t].buffer = events]
        PROVE  ListMoves(t)
    <3>1. job'[t] = [job[t] EXCEPT !.buffer = events]
      BY <1>1, <2>3
    <3> QED BY <1>1, <2>1, <3>1 DEF ListMoves
  <2>4. ASSUME NEW status, NEW events,
               job' = [job EXCEPT ![t].outcome = status, ![t].buffer = events]
        PROVE  ListMoves(t)
    <3>1. job' = [job EXCEPT ![t] = Decided(job[t], status, events)]
      BY <2>4 DEF Decided
    <3>2. job'[t] = Decided(job[t], status, events)
      BY <1>1, <3>1
    <3> QED BY <1>1, <2>1, <3>2 DEF ListMoves
  <2>5. CASE Duplicate(t)
    BY <2>4, <2>5, Zenon DEF Duplicate
  <2> QED BY <1>4, <2>2, <2>3, <2>4, <2>5
<1>5. CASE \/ Raise(t, [job[t] EXCEPT !.poisoned = TRUE])
           \/ Advance(t, [job[t] EXCEPT !.buffer = Append(job[t].buffer, NULL)])
           \/ Advance(t, [job[t] EXCEPT !.buffer = Tail(job[t].buffer)]) /\ pc[t] = "flush"
  <2>1. \A old \in Job, events \in Seq(Nat \cup {NULL}) :
            /\ [old EXCEPT !.poisoned = TRUE] \in Job
            /\ [old EXCEPT !.poisoned = TRUE].kind = old.kind
            /\ [old EXCEPT !.poisoned = TRUE].todo = old.todo
            /\ [old EXCEPT !.buffer = events] \in Job
            /\ [old EXCEPT !.buffer = events].kind = old.kind
            /\ [old EXCEPT !.buffer = events].todo = old.todo
    BY DEF Job
  <2>2. CASE Raise(t, [job[t] EXCEPT !.poisoned = TRUE])
    BY <1>1, <2>1, <2>2, RaiseMoves
  <2>3. Append(job[t].buffer, NULL) \in Seq(Nat \cup {NULL})
    BY <1>1
  <2>4. CASE Advance(t, [job[t] EXCEPT !.buffer = Append(job[t].buffer, NULL)])
    BY <1>1, <2>1, <2>3, <2>4 DEF ListMoves
  <2>5. CASE Advance(t, [job[t] EXCEPT !.buffer = Tail(job[t].buffer)]) /\ pc[t] = "flush"
    <3>1. job[t].buffer # <<>>
      BY <2>5, SessionsTyped DEF AtWork
    <3>2. Tail(job[t].buffer) \in Seq(Nat \cup {NULL})
      BY <1>1, <3>1
    <3> QED BY <1>1, <2>1, <2>5, <3>2 DEF ListMoves
  <2> QED BY <1>5, <2>2, <2>4, <2>5
<1>6. CASE lookup(t) \/ store(t) \/ record_unparsed(t) \/ resolve_account(t)
           \/ stub_refresh(t) \/ sms_check(t) \/ mark(t)
  BY <1>2, <1>3, <1>4, <1>6 DEF lookup, store, record_unparsed, resolve_account, stub_refresh,
     sms_check, mark, Failed
<1>7. CASE stub_insert(t)
  BY <1>4, <1>5, <1>7 DEF stub_insert
<1>8. CASE sms_write(t)
  BY <1>3, <1>4, <1>5, <1>8 DEF sms_write, Failed
<1>9. CASE flush(t)
  BY <1>4, <1>5, <1>9 DEF flush
<1> QED BY <1>6, <1>7, <1>8, <1>9 DEF MessageStep, pick

LEMMA MessageStepOthers ==
    ASSUME IngestionInd, NEW t \in Threads, MessageStep(t)
    PROVE  Others(t)
<1>1. /\ DOMAIN job = Threads /\ DOMAIN pc = Threads /\ DOMAIN session = Threads
      /\ DOMAIN payment = Threads
  BY SessionsTyped
<1>2. \A j : Advance(t, j) \/ Raise(t, j) => Others(t)
  BY <1>1 DEF Advance, Raise, Finish, ClosePost, Close, GoTo, Others
<1>3. \A next, id, row, c : /\ (GoTo(t, next) /\ UNCHANGED session) \/ Hold(t, next, id, row, c)
                            /\ UNCHANGED job
                            /\ UNCHANGED payment
                            => Others(t)
  BY <1>1 DEF GoTo, Hold, HoldSince, Others
<1>4. CASE lookup(t) \/ store(t) \/ record_unparsed(t) \/ stub_refresh(t)
  BY <1>2, <1>3, <1>4 DEF lookup, store, record_unparsed, stub_refresh
<1>5. CASE resolve_account(t)
  BY <1>1, <1>5 DEF resolve_account, GoTo, Hold, HoldSince, Others
<1>6. CASE stub_insert(t)
  BY <1>1, <1>2, <1>6 DEF stub_insert, Hold, HoldSince, Others
<1>7. CASE sms_check(t)
  BY <1>1, <1>2, <1>7 DEF sms_check, Failed, Duplicate, GoTo, Others
<1>8. CASE sms_write(t) \/ mark(t) \/ flush(t)
  BY <1>1, <1>2, <1>8 DEF sms_write, mark, flush, Failed, Duplicate, GoTo, Others
<1>9. CASE pick(t)
  BY <1>1, <1>9 DEF pick, Finish, ClosePost, Close, GoTo, Others
<1> QED BY <1>4, <1>5, <1>6, <1>7, <1>8, <1>9 DEF MessageStep

\* A handler whose session is sound is done with a stored message only.
LEMMA DoneIsStored ==
    ASSUME IngestionInd, NEW t \in Threads, MessageStep(t), pc[t] # "pick",
           ~job[t].poisoned
    PROVE  job'[t].todo = job[t].todo \/ rawEvents'[Message(t)] # NULL
<1>1. pc[t] \in MessageSteps
  BY DEF MessageStep, pick, lookup, store, record_unparsed, resolve_account, stub_insert,
     stub_refresh, sms_check, sms_write, mark, flush, MessageSteps
<1>2. Message(t) \in RawEventIds /\ job[t] \in Job
  BY <1>1, MessageFacts
<1>3. CASE lookup(t)
  BY <1>3 DEF lookup
<1>4. CASE store(t)
  <2>1. CASE rawEvents[Message(t)] # NULL /\ UNCHANGED rawEvents
    BY <2>1
  <2>2. CASE rawEvents' = [rawEvents EXCEPT ![Message(t)] = "RECEIVED"]
    BY <1>2, <2>2, StatusSet DEF ProcessingStatus
  <2> QED BY <1>4, <2>1, <2>2 DEF store
<1>5. CASE ~lookup(t) /\ ~store(t)
  <2>1. pc[t] \in MessageSteps \ {"lookup", "store"}
    BY <1>5 DEF MessageStep, pick, record_unparsed, resolve_account, stub_insert,
       stub_refresh, sms_check, sms_write, mark, flush, MessageSteps
  <2>2. rawEvents[Message(t)] # NULL
    BY <2>1, SessionsTyped DEF AtWork
  <2>3. CASE rawEvents' = rawEvents
    BY <2>2, <2>3
  <2>4. CASE record_unparsed(t)
    <3>1. PICK status \in ProcessingStatus :
              rawEvents' = [rawEvents EXCEPT ![Message(t)] = status]
      BY <2>4 DEF record_unparsed, ProcessingStatus
    <3> QED BY <1>2, <3>1, StatusSet
  <2>5. CASE mark(t)
    <3>1. job[t].outcome \in ProcessingStatus
      BY <2>5, SessionsTyped DEF mark, AtWork, ProcessingStatus
    <3> QED BY <1>2, <2>5, <3>1, StatusSet DEF mark
  <2> QED BY <1>5, <2>3, <2>4, <2>5 DEF MessageStep, pick, resolve_account, stub_insert,
          stub_refresh, sms_check, sms_write, flush
<1> QED BY <1>3, <1>4, <1>5

\* An import loses a message before it is stored in one way only: through the
\* session that a stub's unique violation left behind, earlier in the batch.
THEOREM IngestionOnlyPoisonDrops == IngestionSpec => OnlyPoisonDropsMessages
<1> DEFINE Kept == restarts' = restarts =>
                       \A t \in Threads : job[t].kind = "batch" /\ ~job[t].poisoned =>
                           \A m \in Dropped(t) : rawEvents'[m] # NULL
<1>1. IngestionInd /\ [IngestionNext]_ingestionVars => [Kept]_ingestionVars
  <2> SUFFICES ASSUME IngestionInd, [IngestionNext]_ingestionVars, restarts' = restarts,
                      NEW u \in Threads, job[u].kind = "batch", ~job[u].poisoned,
                      NEW m \in Dropped(u)
               PROVE  rawEvents'[m] # NULL
    BY Zenon
  <2>0. job[u] \in Job /\ AtWork(u) /\ NoJob.kind = NULL /\ NULL # "batch"
    BY SessionsTyped, IngestionAssumption DEF NoJob
  <2>1. CASE job'[u].todo = job[u].todo
    BY <2>1 DEF Dropped
  <2>2. ASSUME NEW t \in Threads, MessageStep(t) PROVE rawEvents'[m] # NULL
    <3>1. CASE t # u
      <4>1. job'[u] = job[u]
        BY <2>2, <3>1, MessageStepOthers DEF Others
      <4> QED BY <2>1, <4>1
    <3>2. CASE t = u /\ job'[u].todo # job[u].todo
      <4>2. pc[u] \in MessageSteps /\ pc[u] # "pick"
        BY <2>0 DEF AtWork
      <4>1. PICK j \in Job : j.kind = job[u].kind /\ j.todo = job[u].todo /\ Advance(u, j)
        BY <2>2, <3>2, <4>2, MessageStepMoves DEF ListMoves
      <4>3. /\ job[u].todo # <<>> /\ Len(job[u].todo) \in Nat /\ Message(u) = job[u].todo[1]
        BY <4>2, MessageFacts
      <4>4. \/ job'[u] = NoJob /\ Len(j.todo) = 1
            \/ /\ Len(job'[u].todo) + 1 = Len(j.todo) /\ job'[u] \in Job
               /\ \A i \in 1 .. Len(job'[u].todo) : job'[u].todo[i] = j.todo[i + 1]
        BY <2>0, <4>1, <4>3, AdvanceGives
      <4>5. PICK i \in 1 .. Len(job[u].todo) : m = job[u].todo[i]
        BY DEF Dropped
      <4>6. i = 1
        <5>1. CASE Len(j.todo) = 1
          BY <4>1, <4>5, <5>1
        <5>2. CASE /\ Len(job'[u].todo) + 1 = Len(j.todo) /\ job'[u] \in Job
                   /\ \A k \in 1 .. Len(job'[u].todo) : job'[u].todo[k] = j.todo[k + 1]
          <6>1. Len(job'[u].todo) \in Nat
            BY <5>2 DEF Job
          <6>2. ASSUME i # 1 PROVE FALSE
            <7>1. /\ i - 1 \in 1 .. Len(job'[u].todo) /\ i - 1 + 1 = i
              <8>1. PICK n, all : n = Len(job'[u].todo) /\ all = Len(job[u].todo)
                OBVIOUS
              <8>2. n \in Nat /\ all \in Nat /\ n + 1 = all /\ i \in 1 .. all
                BY <4>1, <4>3, <4>5, <5>2, <6>1, <8>1
              <8>3. i - 1 \in 1 .. n /\ i - 1 + 1 = i
                BY <6>2, <8>2
              <8> QED BY <8>1, <8>3
            <7>2. job'[u].todo[i - 1] = m
              BY <4>1, <4>5, <5>2, <7>1
            <7> QED BY <7>1, <7>2 DEF Dropped
          <6> QED BY <6>2
        <5> QED BY <4>4, <5>1, <5>2
      <4>7. rawEvents'[Message(u)] # NULL
        BY <2>2, <3>2, <4>2, DoneIsStored
      <4> QED BY <4>3, <4>5, <4>6, <4>7
    <3> QED BY <2>1, <3>1, <3>2
  <2>3. CASE UNCHANGED job
    BY <2>1, <2>3
  <2>4. ASSUME NEW t \in Threads, ingest_sms(t) \/ import_batch(t) \/ reprocess(t)
        PROVE  rawEvents'[m] # NULL
    <3>1. pc[t] = "idle" /\ \E j : job' = [job EXCEPT ![t] = j]
      BY <2>4, Zenon DEF ingest_sms, import_batch, reprocess, Begin, Accepts
    <3>2. job[t] = NoJob
      BY <3>1, SessionsTyped DEF AtWork, MessageSteps
    <3>3. job'[u] = job[u]
      BY <2>0, <3>1, <3>2, SessionsTyped
    <3> QED BY <2>1, <3>3
  <2>5. ~restart
    BY DEF restart, IngestionInd, IngestionTypes
  <2> QED BY <2>2, <2>3, <2>4, <2>5 DEF IngestionNext, ingestionVars
<1> QED BY <1>1, IngestionInvariant, PTL DEF IngestionSpec, OnlyPoisonDropsMessages

-----------------------------------------------------------------------------
(* The transactions of messages: no two are alike, and a message makes one  *)
(* at most, however often it is delivered, interrupted and reprocessed,     *)
(* when messages name their account.                                        *)
(*                                                                         *)
(* The unique index on the fingerprint keeps one account from two postings  *)
(* of a message; what remains to be shown is that a message never finds     *)
(* another account, that is, that no second stub is made for one.           *)

\* No two accounts have digits that messages name.
NoTwins ==
    \A a, b \in Stored :
        /\ accounts[a].digits \in MessageDigits
        /\ accounts[a].digits = accounts[b].digits
        => a = b

\* A transaction of a message is on an account of the digits the message names,
\* and is what some parser read.
AsRead(e) ==
    e.raw # NULL =>
        /\ e.raw \in RawEventIds /\ e.account \in Stored
        /\ \E r \in Releases :
              LET p == Reading[r][e.raw]
              IN  /\ Transactional(r, e.raw)
                  /\ <<accounts[e.account].digits, e.amount, e.direction, e.key>> =
                     <<p.digits, p.amount, p.direction, p.key>>

PostedAsRead == \A i \in 1 .. Len(transactions) : AsRead(transactions[i])

\* What a handler on the way to a posting, or to an account, holds: a stub it is
\* about to insert would be the twin of every account of its digits, and the
\* account it posts to has the digits of its message.
OnTheWay(t) ==
    /\ pc[t] = "stub_insert" =>
          LET p == ParseOf(Message(t))
          IN  \A id \in Stored : accounts[id].digits = p.digits =>
                  Identity(accounts[id]) = Identity(StubOf(p))
    /\ pc[t] \in {"stub_refresh", "sms_check", "sms_write"} =>
          accounts[session[t].target].digits = ParseOf(Message(t)).digits
    /\ pc[t] = "create_insert" => session[t].change \in NewAccounts
    /\ pc[t] \in {"update_guard", "update_write"} =>
          DOMAIN session[t].change \cap IDENTITY_FIELDS = {}
    /\ pc[t] \in {"post_check", "post_write"} => payment[t].raw = NULL

OnePostingInd ==
    /\ NoTwins
    /\ PostedAsRead
    /\ \A t \in Threads : OnTheWay(t)

-----------------------------------------------------------------------------
(* What a step does to the rows.                                           *)

\* Whatever is stored stays, and what identifies it.
IdentitiesKept ==
    \A id \in Stored : id \in Stored' /\ Identity(accounts'[id]) = Identity(accounts[id])

\* A new row is of no message, or the stub of one.
RowKnown(row) ==
    \/ row.digits \notin MessageDigits
    \/ \E r \in Releases, m \in RawEventIds :
          Transactional(r, m) /\ Identity(row) = Identity(StubOf(Reading[r][m]))

NewRowsKnown == \A id \in Stored' \ Stored : RowKnown(accounts'[id])

LEMMA SameIdentity ==
    ASSUME NEW a, NEW b, Identity(a) = Identity(b)
    PROVE  a.bank = b.bank /\ a.digits = b.digits /\ a.type = b.type
BY DEF Identity

\* What the message a handler reads names.
LEMMA ReadingFacts ==
    ASSUME MessagesNameTheirAccount, IngestionInd, NEW r \in Releases, NEW m \in RawEventIds,
           Transactional(r, m)
    PROVE  /\ Reading[r][m] \in Parsed
           /\ Reading[r][m].digits \in MessageDigits /\ Reading[r][m].digits # NULL
           /\ Reading[r][m].bank # NULL
           /\ StubOf(Reading[r][m]).digits = Reading[r][m].digits
           /\ Indexed(StubOf(Reading[r][m]))
<1>1. Reading[r][m] \in Parsed
  BY IngestionAssumption
<1>2. Reading[r][m].digits # NULL /\ Reading[r][m].bank # NULL
  BY DEF MessagesNameTheirAccount
<1>3. Reading[r][m].digits \in MessageDigits
  BY <1>1, <1>2 DEF Parsed, MessageDigits
<1>4. /\ StubOf(Reading[r][m]).digits = Reading[r][m].digits
      /\ StubOf(Reading[r][m]).bank = Reading[r][m].bank
  BY <1>1, StubTyped
<1> QED BY <1>1, <1>2, <1>3, <1>4 DEF Indexed

LEMMA AsReadKept ==
    ASSUME IdentitiesKept, NEW e, AsRead(e)
    PROVE  AsRead(e)'
<1>1. CASE e.raw = NULL
  BY <1>1 DEF AsRead
<1>2. CASE e.raw # NULL
  <2>1. e.account \in Stored
    BY <1>2 DEF AsRead
  <2>2. e.account \in Stored' /\ accounts'[e.account].digits = accounts[e.account].digits
    BY <2>1, SameIdentity DEF IdentitiesKept
  <2> QED BY <1>2, <2>2 DEF AsRead
<1> QED BY <1>1, <1>2

\* The table of transactions stays as it is, or gains a row that is as read.
LEMMA PostedKept ==
    ASSUME IngestionInd, IdentitiesKept, PostedAsRead,
           \/ transactions' = transactions
           \/ \E e : transactions' = Append(transactions, e) /\ AsRead(e)'
    PROVE  PostedAsRead'
<1>1. transactions \in Seq(Transaction)
  BY DEF IngestionInd, LedgerInd
<1>2. ASSUME NEW i \in 1 .. Len(transactions), transactions'[i] = transactions[i]
      PROVE  AsRead(transactions[i])'
  <2>1. PICK e : e = transactions[i]
    OBVIOUS
  <2>2. AsRead(e)'
    BY <2>1, AsReadKept DEF PostedAsRead
  <2> QED BY <1>2, <2>1, <2>2 DEF AsRead
<1>3. CASE transactions' = transactions
  BY <1>2, <1>3 DEF PostedAsRead
<1>4. ASSUME NEW e, transactions' = Append(transactions, e), AsRead(e)'
      PROVE  PostedAsRead'
  <2>1. /\ Len(transactions) \in Nat /\ Len(transactions') = Len(transactions) + 1
        /\ \A i \in 1 .. Len(transactions) : transactions'[i] = transactions[i]
        /\ transactions'[Len(transactions) + 1] = e
    BY <1>1, <1>4
  <2>2. ASSUME NEW i \in 1 .. Len(transactions') PROVE AsRead(transactions[i])'
    <3>1. CASE i \in 1 .. Len(transactions)
      BY <1>2, <2>1, <3>1
    <3>2. CASE i = Len(transactions) + 1
      BY <1>4, <2>1, <3>2 DEF AsRead
    <3> QED BY <2>1, <3>1, <3>2
  <2> QED BY <2>2 DEF PostedAsRead
<1> QED BY <1>3, <1>4

\* No twin comes of rows that messages do not name.
LEMMA NoTwinsKept ==
    ASSUME NoTwins, IdentitiesKept,
           \A id \in Stored' \ Stored : accounts'[id].digits \notin MessageDigits
    PROVE  NoTwins'
<1>1. \A id \in Stored : accounts'[id].digits = accounts[id].digits
  BY SameIdentity DEF IdentitiesKept
<1> QED BY <1>1 DEF NoTwins

\* A handler that does not move is where it was.
LEMMA OnTheWayKept ==
    ASSUME MessagesNameTheirAccount, IngestionInd, OnePostingInd, NEW u \in Threads,
           pc'[u] = pc[u], session'[u] = session[u], payment'[u] = payment[u],
           job'[u] = job[u], release' = release, IdentitiesKept, NewRowsKnown
    PROVE  OnTheWay(u)'
<1>1. OnTheWay(u) /\ AtWork(u) /\ release \in Releases
  BY DEF OnePostingInd, IngestionInd, IngestionTypes
<1>2. Message(u)' = Message(u) /\ ParseOf(Message(u))' = ParseOf(Message(u))
  BY DEF Message, ParseOf
<1>3. ASSUME pc[u] = "stub_insert", NEW id \in Stored',
             accounts'[id].digits = ParseOf(Message(u)).digits
      PROVE  Identity(accounts'[id]) = Identity(StubOf(ParseOf(Message(u))))
  <2>1. Message(u) \in RawEventIds /\ Transactional(release, Message(u))
    BY <1>1, <1>3, MessageFacts DEF AtWork, MessageSteps, ParseOf, Transactional
  <2>2. ParseOf(Message(u)).digits \in MessageDigits
    BY <1>1, <2>1, ReadingFacts DEF ParseOf
  <2>3. CASE id \in Stored
    BY <1>1, <1>3, <2>3, SameIdentity DEF IdentitiesKept, OnTheWay
  <2>4. CASE id \notin Stored
    <3>1. PICK r \in Releases, m \in RawEventIds :
              Transactional(r, m) /\ Identity(accounts'[id]) = Identity(StubOf(Reading[r][m]))
      BY <1>3, <2>2, <2>4 DEF NewRowsKnown, RowKnown
    <3>2. Reading[r][m].digits = Reading[release][Message(u)].digits
      BY <1>3, <3>1, ReadingFacts, SameIdentity DEF ParseOf
    <3>3. Identity(StubOf(Reading[r][m])) = Identity(StubOf(Reading[release][Message(u)]))
      BY <1>1, <2>1, <3>1, <3>2 DEF MessagesNameTheirAccount
    <3> QED BY <3>1, <3>3 DEF ParseOf
  <2> QED BY <2>3, <2>4
<1>4. ASSUME pc[u] \in {"stub_refresh", "sms_check", "sms_write"}
      PROVE  accounts'[session[u].target].digits = ParseOf(Message(u)).digits
  <2>1. session[u].target \in Stored
    BY <1>1, <1>4 DEF AtWork, PostingInd
  <2> QED BY <1>1, <1>4, <2>1, SameIdentity DEF IdentitiesKept, OnTheWay
<1> QED BY <1>1, <1>2, <1>3, <1>4 DEF OnTheWay

\* The rows and the moving handler's side make the whole invariant.
LEMMA OnePostingStep ==
    ASSUME MessagesNameTheirAccount, IngestionInd, OnePostingInd, NEW t \in Threads,
           Others(t), release' = release, IdentitiesKept, NewRowsKnown,
           NoTwins', PostedAsRead', OnTheWay(t)'
    PROVE  OnePostingInd'
<1>1. ASSUME NEW u \in Threads, u # t PROVE OnTheWay(u)'
  BY <1>1, OnTheWayKept DEF Others
<1> QED BY <1>1 DEF OnePostingInd

\* A handler that is at none of these steps is not on its way.
LEMMA NotOnTheWay ==
    ASSUME NEW t,
           pc'[t] \notin {"stub_insert", "stub_refresh", "sms_check", "sms_write",
                          "create_insert", "update_guard", "update_write",
                          "post_check", "post_write"}
    PROVE  OnTheWay(t)'
BY DEF OnTheWay

-----------------------------------------------------------------------------
(* The ledger's own requests.                                              *)

LEMMA TablesUntouched ==
    ASSUME IngestionInd, accounts' = accounts
    PROVE  IdentitiesKept /\ Stored' = Stored /\ NewRowsKnown
BY DEF IdentitiesKept, NewRowsKnown, Stored

LEMMA AccountsStepRows ==
    ASSUME MessagesNameTheirAccount, IngestionInd, NEW t \in Threads, OnTheWay(t),
           AccountsStep(t)
    PROVE  /\ IdentitiesKept
           /\ \A id \in Stored' \ Stored : accounts'[id].digits \notin MessageDigits
<1>0. AccountsInd
  BY DEF IngestionInd, LedgerInd
<1>1. CASE accounts' = accounts
  BY <1>1, TablesUntouched
<1>2. ASSUME create_insert(t), NEW id \in AccountIds \ Stored,
             accounts' = [accounts EXCEPT ![id] = session[t].change]
      PROVE  /\ IdentitiesKept
             /\ \A a \in Stored' \ Stored : accounts'[a].digits \notin MessageDigits
  <2>1. /\ session[t].change \in NewAccounts
        /\ session[t].change.digits \notin MessageDigits
    BY <1>2 DEF create_insert, OnTheWay, MessagesNameTheirAccount
  <2> QED BY <1>0, <1>2, <2>1 DEF AccountsInd, IdentitiesKept, Stored
<1>3. ASSUME NEW c, IsChange(c), DOMAIN c \cap IDENTITY_FIELDS = {},
             NEW id \in Stored, accounts' = [accounts EXCEPT ![id] = Write(accounts[id], c)]
      PROVE  /\ IdentitiesKept
             /\ \A a \in Stored' \ Stored : accounts'[a].digits \notin MessageDigits
  <2>1. accounts[id] \in Account
    BY <1>0 DEF AccountsInd, Stored
  <2>2. \A f \in IDENTITY_FIELDS : Write(accounts[id], c)[f] = accounts[id][f]
    BY <1>3, <2>1 DEF Write, Account, IDENTITY_FIELDS
  <2>3. Identity(Write(accounts[id], c)) = Identity(accounts[id])
    BY <2>2 DEF Identity, IDENTITY_FIELDS
  <2>4. Write(accounts[id], c) # NULL
    BY <1>3, <2>1, WriteTyped, AccountsAssumption
  <2> QED BY <1>0, <1>3, <2>3, <2>4 DEF AccountsInd, IdentitiesKept, Stored
<1>4. CASE create_insert(t)
  BY <1>1, <1>2, <1>4 DEF create_insert
<1>5. CASE update_write(t)
  <2>1. /\ session[t].target \in Stored /\ IsChange(session[t].change)
        /\ DOMAIN session[t].change \cap IDENTITY_FIELDS = {}
    BY <1>0, <1>5 DEF update_write, AccountsInd, OnTheWay, IsSession
  <2> QED BY <1>1, <1>3, <1>5, <2>1 DEF update_write
<1>6. CASE archive_write(t)
  <2>1. /\ session[t].target \in Stored /\ IsChange(session[t].change)
        /\ session[t].change = [status |-> "ARCHIVED"]
    BY <1>0, <1>6 DEF archive_write, AccountsInd, IsSession
  <2>2. DOMAIN session[t].change \cap IDENTITY_FIELDS = {}
    BY <2>1 DEF IDENTITY_FIELDS
  <2> QED BY <1>3, <1>6, <2>1, <2>2 DEF archive_write
<1> QED BY <1>1, <1>4, <1>5, <1>6 DEF AccountsStep, create_account, update_account,
        update_guard, archive_account

LEMMA AccountsStepOnTheWay ==
    ASSUME MessagesNameTheirAccount, IngestionInd, NEW t \in Threads, OnTheWay(t),
           AccountsStep(t)
    PROVE  OnTheWay(t)'
<1>0. AccountsInd /\ DOMAIN pc = Threads /\ DOMAIN session = Threads
  BY DEF IngestionInd, LedgerInd, AccountsInd
<1>1. CASE create_account(t)
  <2>1. PICK row \in NewAccounts : Hold(t, "create_insert", NULL, NULL, row)
    BY <1>1 DEF create_account
  <2>2. pc'[t] = "create_insert" /\ session'[t].change = row
    BY <1>0, <2>1 DEF Hold, HoldSince
  <2> QED BY <2>2 DEF OnTheWay
<1>2. CASE update_account(t)
  <2>1. PICK id \in Stored, patch \in Patches, n \in Began :
            HoldSince(t, n, IF DOMAIN Differing(accounts[id], patch) \cap IDENTITY_FIELDS # {}
                    THEN "update_guard" ELSE "update_write",
                      id, accounts[id], Differing(accounts[id], patch))
    BY <1>2 DEF update_account
  <2>2. DOMAIN Differing(accounts[id], patch) \cap IDENTITY_FIELDS = {}
    BY DEF Differing, MessagesNameTheirAccount
  <2>3. pc'[t] = "update_write" /\ session'[t].change = Differing(accounts[id], patch)
    BY <1>0, <2>1, <2>2 DEF Hold, HoldSince
  <2> QED BY <2>2, <2>3 DEF OnTheWay
<1>3. CASE update_guard(t)
  <2>1. CASE Close(t)
    BY <1>0, <2>1, NotOnTheWay DEF Close
  <2>2. CASE pc' = [pc EXCEPT ![t] = "update_write"] /\ UNCHANGED session
    BY <1>0, <1>3, <2>2 DEF OnTheWay, update_guard
  <2> QED BY <1>3, <2>1, <2>2 DEF update_guard
<1>4. CASE create_insert(t) \/ update_write(t) \/ archive_write(t)
  BY <1>0, <1>4, NotOnTheWay DEF create_insert, update_write, archive_write, Close
<1>5. CASE archive_account(t)
  BY <1>0, <1>5, NotOnTheWay DEF archive_account, Hold, HoldSince
<1> QED BY <1>1, <1>2, <1>3, <1>4, <1>5 DEF AccountsStep

LEMMA AccountsStepOnePosting ==
    ASSUME MessagesNameTheirAccount, IngestionInd, OnePostingInd, NEW t \in Threads,
           AccountsStep(t), UNCHANGED <<transactions, payment, rawEvents, job, sent, release>>
    PROVE  OnePostingInd'
<1>0. OnTheWay(t) /\ NoTwins /\ PostedAsRead
  BY DEF OnePostingInd
<1>1. /\ IdentitiesKept
      /\ \A id \in Stored' \ Stored : accounts'[id].digits \notin MessageDigits
  BY <1>0, AccountsStepRows
<1>2. NewRowsKnown
  BY <1>1 DEF NewRowsKnown, RowKnown
<1>3. NoTwins'
  BY <1>0, <1>1, NoTwinsKept
<1>4. PostedAsRead'
  BY <1>0, <1>1, PostedKept
<1>5. OnTheWay(t)'
  BY <1>0, AccountsStepOnTheWay
<1>6. Others(t)
  BY AccountsStepOthers DEF Others, IngestionInd, LedgerInd
<1> QED BY <1>1, <1>2, <1>3, <1>4, <1>5, <1>6, OnePostingStep

\* A posting or a reconciliation writes balances only.
LEMMA TablesMoveRows ==
    ASSUME IngestionInd, TablesMove
    PROVE  /\ IdentitiesKept /\ Stored' = Stored /\ NewRowsKnown
           /\ \A id \in Stored' \ Stored : accounts'[id].digits \notin MessageDigits
<1>1. \A id \in Stored : Identity(accounts'[id]) = Identity(accounts[id])
  BY DEF TablesMove, UPDATABLE_FIELDS, Identity
<1>2. Stored' = Stored
  BY DEF TablesMove, Stored
<1> QED BY <1>1, <1>2 DEF IdentitiesKept, NewRowsKnown

LEMMA LedgerStepHandlers ==
    ASSUME IngestionInd, NEW t \in Threads, OnTheWay(t), LedgerStep(t), UNCHANGED job
    PROVE  OnTheWay(t)' /\ Others(t)
<1>0. /\ DOMAIN pc = Threads /\ DOMAIN session = Threads
      /\ payment \in [Threads -> Payment \cup {NULL}]
  BY DEF IngestionInd, LedgerInd, AccountsInd
<1>1. CASE create_transaction(t)
  <2>1. PICK p \in Payments :
            /\ \E id \in Stored : Hold(t, "post_check", id, accounts[id], NoChange)
            /\ payment' = [payment EXCEPT ![t] = p]
    BY <1>1 DEF create_transaction
  <2>2. p.raw = NULL
    BY LedgerAssumption
  <2>3. pc'[t] = "post_check" /\ payment'[t].raw = NULL /\ Others(t)
    BY <1>0, <2>1, <2>2 DEF Hold, HoldSince, Others
  <2> QED BY <2>3 DEF OnTheWay
<1>2. CASE post_check(t)
  <2>1. CASE ClosePost(t)
    BY <1>0, <2>1, NotOnTheWay DEF ClosePost, Close, Others
  <2>2. CASE pc' = [pc EXCEPT ![t] = "post_write"] /\ UNCHANGED <<session, payment>>
    BY <1>0, <1>2, <2>2 DEF OnTheWay, Others, post_check
  <2> QED BY <1>2, <2>1, <2>2 DEF post_check
<1>3. CASE post_write(t)
  BY <1>0, <1>3, NotOnTheWay DEF post_write, ClosePost, Close, Others
<1>4. CASE reconcile_account(t)
  BY <1>0, <1>4, NotOnTheWay DEF reconcile_account, Hold, HoldSince, Others
<1>5. CASE reconcile_write(t)
  BY <1>0, <1>5, NotOnTheWay DEF reconcile_write, Close, Others
<1> QED BY <1>1, <1>2, <1>3, <1>4, <1>5 DEF LedgerStep

LEMMA LedgerStepOnePosting ==
    ASSUME MessagesNameTheirAccount, IngestionInd, OnePostingInd, NEW t \in Threads,
           LedgerStep(t), UNCHANGED <<rawEvents, job, sent, release>>
    PROVE  OnePostingInd'
<1>0. OnTheWay(t) /\ NoTwins /\ PostedAsRead
  BY DEF OnePostingInd
<1>1. TablesMove
  BY LedgerStepMoves DEF IngestionInd
<1>2. /\ IdentitiesKept /\ NewRowsKnown
      /\ \A id \in Stored' \ Stored : accounts'[id].digits \notin MessageDigits
  BY <1>1, TablesMoveRows
<1>3. \/ transactions' = transactions
      \/ \E e : transactions' = Append(transactions, e) /\ AsRead(e)'
  <2>1. CASE post_write(t)
    <3>1. Pending(t).raw = NULL
      BY <1>0, <2>1 DEF OnTheWay, post_write, Pending, RowOf
    <3>2. PICK e : e = Pending(t)
      OBVIOUS
    <3>3. AsRead(e)'
      BY <3>1, <3>2 DEF AsRead
    <3> QED BY <2>1, <3>2, <3>3 DEF post_write, PostEffect
  <2> QED BY <2>1 DEF LedgerStep, create_transaction, post_check, reconcile_account,
          reconcile_write
<1>4. PostedAsRead'
  BY <1>0, <1>2, <1>3, PostedKept
<1>5. NoTwins'
  BY <1>0, <1>2, NoTwinsKept
<1>6. OnTheWay(t)' /\ Others(t)
  BY <1>0, LedgerStepHandlers
<1> QED BY <1>2, <1>4, <1>5, <1>6, OnePostingStep

-----------------------------------------------------------------------------
(* The steps of a message.                                                 *)

\* A step that changes neither table.
LEMMA QuietStep ==
    ASSUME MessagesNameTheirAccount, IngestionInd, OnePostingInd, NEW t \in Threads,
           Others(t), UNCHANGED <<accounts, transactions, release>>, OnTheWay(t)'
    PROVE  OnePostingInd'
<1>1. IdentitiesKept /\ Stored' = Stored /\ NewRowsKnown
  BY TablesUntouched
<1>2. NoTwins' /\ PostedAsRead'
  BY <1>1, NoTwinsKept, PostedKept DEF OnePostingInd
<1> QED BY <1>1, <1>2, OnePostingStep

\* What a handler past the parser has read.
LEMMA ReadFacts ==
    ASSUME MessagesNameTheirAccount, IngestionInd, NEW t \in Threads,
           pc[t] \in MessageSteps, ParseOf(Message(t)).outcome = "ok"
    PROVE  /\ release \in Releases /\ Message(t) \in RawEventIds
           /\ Transactional(release, Message(t))
           /\ ParseOf(Message(t)) = Reading[release][Message(t)]
           /\ ParseOf(Message(t)) \in Parsed
           /\ ParseOf(Message(t)).digits \in MessageDigits
           /\ ParseOf(Message(t)).digits # NULL /\ ParseOf(Message(t)).bank # NULL
           /\ StubOf(ParseOf(Message(t))).digits = ParseOf(Message(t)).digits
           /\ Indexed(StubOf(ParseOf(Message(t))))
<1>1. release \in Releases /\ Message(t) \in RawEventIds
  BY MessageFacts DEF IngestionInd, IngestionTypes
<1>2. Transactional(release, Message(t))
  BY DEF Transactional, ParseOf
<1> QED BY <1>1, <1>2, ReadingFacts DEF ParseOf

\* The search finds accounts of the message's digits only, and finds none only
\* when there is none.
LEMMA MatchesFacts ==
    ASSUME NoTwins, NEW p, p.digits \in MessageDigits, p.digits # NULL
    PROVE  /\ \A id \in Matches(p) : id \in Stored /\ accounts[id].digits = p.digits
           /\ Matches(p) = {} => \A id \in Stored : accounts[id].digits # p.digits
<1> DEFINE byDigits == {id \in Stored : accounts[id].digits = p.digits}
           exact == {id \in byDigits : Folded(accounts[id].bank) = Folded(p.bank)}
<1>1. /\ Preferred(exact) \subseteq exact
      /\ exact # {} => Preferred(exact) # {}
  BY DEF Preferred
<1>2. byDigits # {} => Cardinality(byDigits) = 1
  <2> SUFFICES ASSUME NEW id \in byDigits PROVE Cardinality(byDigits) = 1
    OBVIOUS
  <2>1. byDigits = {id}
    BY DEF NoTwins
  <2>2. Cardinality({id}) = 1
    BY FS_Singleton
  <2> HIDE DEF byDigits
  <2> QED BY <2>1, <2>2
<1>3. exact \subseteq byDigits
  OBVIOUS
<1>4. Matches(p) = IF p.digits = NULL THEN {}
                   ELSE IF p.bank # NULL /\ exact # {} THEN Preferred(exact)
                   ELSE IF Cardinality(byDigits) = 1 THEN byDigits
                   ELSE {}
  BY DEF Matches
<1>5. \A id \in byDigits : id \in Stored /\ accounts[id].digits = p.digits
  OBVIOUS
<1>6. \A id \in Stored : accounts[id].digits = p.digits => id \in byDigits
  OBVIOUS
<1> HIDE DEF byDigits, exact
<1>7. Matches(p) \subseteq byDigits
  BY <1>1, <1>3, <1>4
<1>8. Matches(p) = {} => byDigits = {}
  BY <1>1, <1>2, <1>4
<1> QED BY <1>5, <1>6, <1>7, <1>8

LEMMA ResolveOnTheWay ==
    ASSUME MessagesNameTheirAccount, IngestionInd, OnePostingInd, NEW t \in Threads,
           resolve_account(t)
    PROVE  OnTheWay(t)'
<1> DEFINE p == ParseOf(Message(t))
<1>0. /\ pc[t] \in MessageSteps /\ p.outcome = "ok"
      /\ UNCHANGED <<accounts, job, release>>
  BY DEF resolve_account, MessageSteps
<1>1. /\ p.digits \in MessageDigits /\ p.digits # NULL
      /\ NoTwins /\ DOMAIN pc = Threads /\ DOMAIN session = Threads
  BY <1>0, ReadFacts DEF OnePostingInd, IngestionInd, LedgerInd, AccountsInd
<1>2. p = ParseOf(Message(t))'
  BY <1>0 DEF ParseOf, Message
<1>3. Stored' = Stored
  BY <1>0 DEF Stored
<1> HIDE DEF p
<1>4. CASE Matches(p) = {} /\ GoTo(t, "stub_insert")
  <2>1. \A id \in Stored : accounts[id].digits # p.digits
    BY <1>1, <1>4, MatchesFacts
  <2>2. pc'[t] = "stub_insert"
    BY <1>1, <1>4 DEF GoTo
  <2>3. \A id \in Stored' : accounts'[id].digits # p.digits
    BY <1>0, <1>3, <2>1
  <2> QED BY <1>2, <2>2, <2>3 DEF OnTheWay
<1>5. ASSUME NEW id \in Matches(p), Hold(t, "sms_check", id, accounts[id], NoChange)
      PROVE  OnTheWay(t)'
  <2>1. accounts'[id].digits = p.digits
    BY <1>0, <1>1, MatchesFacts
  <2>2. pc'[t] = "sms_check" /\ session'[t].target = id
    BY <1>1, <1>5 DEF Hold, HoldSince
  <2> QED BY <1>2, <2>1, <2>2 DEF OnTheWay
<1> QED BY <1>4, <1>5 DEF resolve_account, p

\* The stub that is inserted is the only account of its digits: every other one
\* would have made the index reject it.
LEMMA StubOnePosting ==
    ASSUME MessagesNameTheirAccount, IngestionInd, OnePostingInd, NEW t \in Threads,
           pc[t] = "stub_insert", Others(t), NEW id \in AccountIds \ Stored,
           ~InsertFails(StubOf(ParseOf(Message(t)))),
           accounts' = [accounts EXCEPT ![id] = StubOf(ParseOf(Message(t)))],
           Hold(t, "stub_refresh", id, NULL, NoChange),
           job' = [job EXCEPT ![t].created = TRUE], UNCHANGED <<transactions, release>>
    PROVE  OnePostingInd'
<1> DEFINE p == ParseOf(Message(t))
           stub == StubOf(p)
<1>0. /\ pc[t] \in MessageSteps /\ p.outcome = "ok"
      /\ NoTwins /\ PostedAsRead /\ OnTheWay(t)
      /\ DOMAIN pc = Threads /\ DOMAIN session = Threads
      /\ accounts \in [AccountIds -> Account \cup {NULL}]
      /\ job \in [Threads -> Job]
  BY SessionsTyped DEF MessageSteps, OnePostingInd, AtWork, IngestionInd, LedgerInd, AccountsInd
<1>1. /\ release \in Releases /\ Message(t) \in RawEventIds
      /\ Transactional(release, Message(t)) /\ p = Reading[release][Message(t)]
      /\ p \in Parsed /\ stub.digits = p.digits /\ Indexed(stub)
  BY <1>0, ReadFacts
<1>2. stub # NULL
  BY <1>1, StubTyped
<1>3. \A a \in Stored : Identity(accounts[a]) # Identity(stub)
  BY <1>1, AccountsAssumption DEF InsertFails, IndexRejects, find_duplicate, Stored
<1>4. \A a \in Stored : accounts[a].digits # stub.digits
  BY <1>0, <1>1, <1>3 DEF OnTheWay
<1>5. Message(t)' = Message(t)
  <2>1. job'[t] = [job[t] EXCEPT !.created = TRUE]
    BY <1>0
  <2>2. [job[t] EXCEPT !.created = TRUE].todo = job[t].todo
    BY <1>0 DEF Job
  <2> QED BY <2>1, <2>2 DEF Message
<1>6. p' = p
  BY <1>5 DEF ParseOf
<1>7. accounts' = [accounts EXCEPT ![id] = stub]
  OBVIOUS
<1> HIDE DEF p, stub
<1>8. /\ accounts'[id] = stub /\ Stored' = Stored \cup {id}
      /\ \A a \in Stored : accounts'[a] = accounts[a]
  BY <1>0, <1>2, <1>7 DEF Stored
<1>9. IdentitiesKept
  BY <1>8 DEF IdentitiesKept
<1>10. NewRowsKnown
  BY <1>1, <1>8 DEF NewRowsKnown, RowKnown, stub
<1>11. NoTwins'
  BY <1>0, <1>4, <1>8 DEF NoTwins
<1>12. PostedAsRead'
  BY <1>0, <1>9, PostedKept
<1>13. OnTheWay(t)'
  <2>1. pc'[t] = "stub_refresh" /\ session'[t].target = id
    BY <1>0 DEF Hold, HoldSince
  <2>2. accounts'[id].digits = p'.digits
    BY <1>1, <1>6, <1>8
  <2> QED BY <2>1, <2>2 DEF OnTheWay, p
<1> QED BY <1>9, <1>10, <1>11, <1>12, <1>13, OnePostingStep

\* The row of a message is as read.
LEMMA SmsPostOnePosting ==
    ASSUME MessagesNameTheirAccount, IngestionInd, OnePostingInd, NEW t \in Threads,
           pc[t] = "sms_write", Others(t), ~PostFails(t), PostEffect(t),
           GoTo(t, "mark"), release' = release
    PROVE  OnePostingInd'
<1> DEFINE p == ParseOf(Message(t))
           a == session[t].target
<1>0. /\ pc[t] \in MessageSteps /\ p.outcome = "ok" /\ payment[t] = PaymentOf(Message(t))
      /\ PostingInd(t) /\ NoTwins /\ PostedAsRead /\ OnTheWay(t) /\ DOMAIN pc = Threads
  BY SessionsTyped DEF MessageSteps, OnePostingInd, AtWork, IngestionInd, LedgerInd, AccountsInd
<1>1. /\ release \in Releases /\ Message(t) \in RawEventIds
      /\ Transactional(release, Message(t)) /\ p = Reading[release][Message(t)]
  BY <1>0, ReadFacts
<1>2. a \in Stored /\ accounts[a].digits = p.digits
  BY <1>0 DEF PostingInd, OnTheWay
<1>3. TablesMove
  BY <1>0, PostMoves DEF IngestionInd
<1>4. /\ IdentitiesKept /\ NewRowsKnown /\ Stored' = Stored
      /\ \A id \in Stored' \ Stored : accounts'[id].digits \notin MessageDigits
  BY <1>3, TablesMoveRows
<1>5. accounts'[a].digits = p.digits
  BY <1>2, <1>4, SameIdentity DEF IdentitiesKept
<1>6. PICK e : e = Pending(t)
  OBVIOUS
<1>7. /\ e.raw = Message(t) /\ e.account = a
      /\ e.amount = p.amount /\ e.direction = p.direction /\ e.key = p.key
  BY <1>0, <1>6 DEF Pending, RowOf, PaymentOf
<1>8. AsRead(e)'
  <2>1. e.account \in Stored' /\ e.raw \in RawEventIds
    BY <1>1, <1>2, <1>4, <1>7
  <2>2. <<accounts'[e.account].digits, e.amount, e.direction, e.key>> =
        <<Reading[release][e.raw].digits, Reading[release][e.raw].amount,
          Reading[release][e.raw].direction, Reading[release][e.raw].key>>
    BY <1>1, <1>5, <1>7
  <2> QED BY <1>1, <1>7, <2>1, <2>2 DEF AsRead
<1>9. PostedAsRead'
  BY <1>0, <1>4, <1>6, <1>8, PostedKept DEF PostEffect
<1>10. NoTwins'
  BY <1>0, <1>4, NoTwinsKept
<1>11. OnTheWay(t)'
  BY <1>0, NotOnTheWay DEF GoTo
<1> QED BY <1>4, <1>9, <1>10, <1>11, OnePostingStep

LEMMA MessageStepOnePosting ==
    ASSUME MessagesNameTheirAccount, IngestionInd, OnePostingInd, NEW t \in Threads,
           MessageStep(t)
    PROVE  OnePostingInd'
<1>0. /\ Others(t) /\ OnTheWay(t) /\ DOMAIN pc = Threads /\ DOMAIN session = Threads
  BY MessageStepOthers DEF OnePostingInd, IngestionInd, LedgerInd, AccountsInd
<1>1. \A j : Advance(t, j) \/ Raise(t, j) \/ Failed(t, j) => OnTheWay(t)'
  BY <1>0, NotOnTheWay DEF Advance, Raise, Failed, Finish, ClosePost, Close, GoTo
<1>2. \A next \in {"store", "parse", "mark", "flush"} : GoTo(t, next) => OnTheWay(t)'
  BY <1>0, NotOnTheWay DEF GoTo
<1>3. Duplicate(t) => OnTheWay(t)'
  BY <1>2 DEF Duplicate
<1>11. CASE pick(t)
  <2>1. OnTheWay(t)'
    BY <1>0, <1>2, <1>11, NotOnTheWay DEF pick, Finish, ClosePost, Close
  <2> QED BY <1>0, <1>11, <2>1, QuietStep DEF pick
<1>4. CASE lookup(t) \/ store(t) \/ record_unparsed(t) \/ mark(t)
  BY <1>0, <1>1, <1>2, <1>4, QuietStep DEF lookup, store, record_unparsed, mark
<1>5. CASE flush(t)
  <2>1. OnTheWay(t)'
    BY <1>0, <1>1, <1>5, NotOnTheWay DEF flush
  <2> QED BY <1>0, <1>5, <2>1, QuietStep DEF flush
<1>6. CASE resolve_account(t)
  BY <1>0, <1>6, ResolveOnTheWay, QuietStep DEF resolve_account
<1>7. CASE stub_insert(t)
  BY <1>0, <1>1, <1>7, StubOnePosting, QuietStep DEF stub_insert
<1>8. CASE stub_refresh(t)
  <2>1. /\ pc'[t] = "sms_check" /\ session'[t].target = session[t].target
        /\ UNCHANGED <<accounts, transactions, job, release>>
    BY <1>0, <1>8 DEF stub_refresh, Hold, HoldSince
  <2>2. OnTheWay(t)'
    BY <1>0, <1>8, <2>1 DEF OnTheWay, stub_refresh, Message, ParseOf
  <2> QED BY <1>0, <2>1, <2>2, QuietStep
<1>9. CASE sms_check(t)
  <2>1. UNCHANGED <<accounts, transactions, release>>
    BY <1>9 DEF sms_check
  <2>2. GoTo(t, "sms_write") /\ UNCHANGED <<session, payment, job>> => OnTheWay(t)'
    BY <1>0, <1>9, <2>1 DEF GoTo, OnTheWay, sms_check, Message, ParseOf
  <2>3. OnTheWay(t)'
    BY <1>1, <1>3, <1>9, <2>2 DEF sms_check
  <2> QED BY <1>0, <2>1, <2>3, QuietStep
<1>10. CASE sms_write(t)
  <2>1. CASE ~PostFails(t) /\ PostEffect(t) /\ GoTo(t, "mark")
    BY <1>0, <1>10, <2>1, SmsPostOnePosting DEF sms_write
  <2>2. CASE OnTheWay(t)' /\ UNCHANGED <<accounts, transactions>>
    BY <1>0, <1>10, <2>2, QuietStep DEF sms_write
  <2> QED BY <1>1, <1>3, <1>10, <2>1, <2>2 DEF sms_write
<1> QED BY <1>4, <1>5, <1>6, <1>7, <1>8, <1>9, <1>10, <1>11 DEF MessageStep

-----------------------------------------------------------------------------
(* The process, and theorems.                                              *)

LEMMA OnePostingInit ==
    ASSUME MessagesNameTheirAccount, IngestionInit
    PROVE  OnePostingInd
<1>1. /\ accounts = InitialAccounts /\ transactions = <<>>
      /\ pc = [t \in Threads |-> "idle"]
  BY DEF IngestionInit, LedgerInit, AccountsInit
<1>2. NoTwins
  BY <1>1 DEF NoTwins, Stored, MessagesNameTheirAccount
<1>3. PostedAsRead
  BY <1>1 DEF PostedAsRead
<1>4. \A t \in Threads : OnTheWay(t)
  BY <1>1 DEF OnTheWay
<1> QED BY <1>2, <1>3, <1>4 DEF OnePostingInd

LEMMA OnePostingNext ==
    ASSUME MessagesNameTheirAccount, IngestionInd, OnePostingInd,
           [IngestionNext]_ingestionVars
    PROVE  OnePostingInd'
<1>0. DOMAIN pc = Threads /\ NoTwins /\ PostedAsRead
  BY DEF OnePostingInd, IngestionInd, LedgerInd, AccountsInd
<1>1. CASE UNCHANGED ingestionVars
  <2>1. IdentitiesKept /\ Stored' = Stored /\ NewRowsKnown
    BY <1>1, TablesUntouched DEF ingestionVars
  <2>2. NoTwins' /\ PostedAsRead'
    BY <1>0, <1>1, <2>1, NoTwinsKept, PostedKept DEF ingestionVars
  <2>3. \A u \in Threads : OnTheWay(u)'
    BY <1>1, <2>1, OnTheWayKept DEF ingestionVars
  <2> QED BY <2>2, <2>3 DEF OnePostingInd
<1>2. ASSUME NEW t \in Threads, AccountsStep(t),
             UNCHANGED <<transactions, payment, rawEvents, job, sent, release>>
      PROVE  OnePostingInd'
  BY <1>2, AccountsStepOnePosting
<1>3. ASSUME NEW t \in Threads, LedgerStep(t), UNCHANGED <<rawEvents, job, sent, release>>
      PROVE  OnePostingInd'
  BY <1>3, LedgerStepOnePosting
<1>4. ASSUME NEW t \in Threads, ingest_sms(t) \/ import_batch(t) \/ reprocess(t)
      PROVE  OnePostingInd'
  <2>1. PICK next \in {"lookup", "pick"} : \E j : Begin(t, j, next)
    BY <1>4, Zenon DEF ingest_sms, import_batch, reprocess
  <2>2. /\ pc' = [pc EXCEPT ![t] = next] /\ \E j : job' = [job EXCEPT ![t] = j]
        /\ UNCHANGED <<accounts, transactions, session, payment, release>>
    BY <2>1, Zenon DEF Begin, GoTo
  <2>3. OnTheWay(t)' /\ Others(t)
    BY <1>0, <2>2, SessionsTyped, NotOnTheWay DEF Others
  <2> QED BY <2>2, <2>3, QuietStep
<1>5. ASSUME NEW t \in Threads, MessageStep(t) PROVE OnePostingInd'
  BY <1>5, MessageStepOnePosting
<1>6. CASE restart
  <2>1. IdentitiesKept /\ Stored' = Stored
    BY <1>6, TablesUntouched DEF restart
  <2>2. NoTwins' /\ PostedAsRead'
    BY <1>0, <1>6, <2>1, NoTwinsKept, PostedKept DEF restart
  <2>3. \A u \in Threads : OnTheWay(u)'
    BY <1>6, NotOnTheWay DEF restart
  <2> QED BY <2>2, <2>3 DEF OnePostingInd
<1> QED BY <1>1, <1>2, <1>3, <1>4, <1>5, <1>6 DEF IngestionNext, LedgerNext, AccountsNext

\* No two transactions have one fingerprint, whatever mix of users, deliveries,
\* imports and reprocessings writes them: the pre-check is a read, the index is
\* what holds.
THEOREM IngestionNoDoublePosting == IngestionSpec => []NoDoublePosting
<1>1. IngestionInit => NoDoublePosting
  BY DEF IngestionInit, LedgerInit, NoDoublePosting
<1>2. IngestionInd /\ NoDoublePosting /\ [IngestionNext]_ingestionVars => NoDoublePosting'
  <2> SUFFICES ASSUME IngestionInd, NoDoublePosting, [IngestionNext]_ingestionVars
               PROVE  NoDoublePosting'
    OBVIOUS
  <2>1. CASE UNCHANGED transactions
    BY <2>1 DEF NoDoublePosting, Fingerprint
  <2>2. ASSUME NEW t \in Threads, ~PostFails(t), PostEffect(t) PROVE NoDoublePosting'
    BY <2>2, NewPosting DEF PostFails, PostEffect, IngestionInd, LedgerInd
  <2>3. ASSUME NEW t \in Threads, MessageStep(t) \/ LedgerStep(t) PROVE NoDoublePosting'
    <3>1. UNCHANGED transactions \/ (~PostFails(t) /\ PostEffect(t))
      BY <2>3 DEF MessageStep, pick, lookup, store, record_unparsed, resolve_account, stub_insert,
         stub_refresh, sms_check, sms_write, mark, flush, LedgerStep, create_transaction,
         post_check, post_write, reconcile_account, reconcile_write
    <3> QED BY <2>1, <2>2, <3>1
  <2>4. CASE \/ \E t \in Threads : ingest_sms(t) \/ import_batch(t) \/ reprocess(t)
             \/ restart
    BY <2>1, <2>4, Zenon DEF ingest_sms, import_batch, reprocess, Begin, restart
  <2> QED BY <2>1, <2>3, <2>4 DEF IngestionNext, LedgerNext, ingestionVars
<1> QED BY <1>1, <1>2, IngestionInvariant, PTL DEF IngestionSpec

\* A message is posted once at most, whatever the deliveries, the restarts and
\* the reprocessings by whatever parsers, when messages name their account.
THEOREM IngestionOnePosting ==
    ASSUME MessagesNameTheirAccount
    PROVE  IngestionSpec => []OnePostingPerMessage
<1>1. IngestionInit => OnePostingInd
  BY OnePostingInit
<1>2. IngestionInd /\ OnePostingInd /\ [IngestionNext]_ingestionVars => OnePostingInd'
  BY OnePostingNext
<1>3. IngestionInd /\ OnePostingInd /\ NoDoublePosting => OnePostingPerMessage
  <2> SUFFICES ASSUME IngestionInd, OnePostingInd, NoDoublePosting,
                      NEW i \in 1 .. Len(transactions), NEW j \in 1 .. Len(transactions),
                      transactions[i].raw # NULL, transactions[i].raw = transactions[j].raw
               PROVE  i = j
    BY DEF OnePostingPerMessage
  <2>1. PICK d, e : d = transactions[i] /\ e = transactions[j]
    OBVIOUS
  <2>2. /\ AsRead(d) /\ AsRead(e) /\ d.raw # NULL /\ d.raw = e.raw
    BY <2>1 DEF OnePostingInd, PostedAsRead
  <2>3. PICK m \in RawEventIds : m = d.raw /\ m = e.raw
    BY <2>2 DEF AsRead
  <2>4. /\ d.account \in Stored /\ e.account \in Stored
    BY <2>2 DEF AsRead
  <2>5. PICK r \in Releases :
            /\ Transactional(r, m)
            /\ <<accounts[d.account].digits, d.amount, d.direction, d.key>> =
               <<Reading[r][m].digits, Reading[r][m].amount,
                 Reading[r][m].direction, Reading[r][m].key>>
    BY <2>2, <2>3 DEF AsRead
  <2>6. PICK s \in Releases :
            /\ Transactional(s, m)
            /\ <<accounts[e.account].digits, e.amount, e.direction, e.key>> =
               <<Reading[s][m].digits, Reading[s][m].amount,
                 Reading[s][m].direction, Reading[s][m].key>>
    BY <2>2, <2>3 DEF AsRead
  <2>7. /\ accounts[d.account].digits = accounts[e.account].digits
        /\ d.amount = e.amount /\ d.direction = e.direction /\ d.key = e.key
    BY <2>5, <2>6 DEF MessagesNameTheirAccount
  <2>8. accounts[d.account].digits \in MessageDigits
    BY <2>5, ReadingFacts
  <2>9. d.account = e.account
    BY <2>4, <2>7, <2>8 DEF OnePostingInd, NoTwins
  <2> QED BY <2>1, <2>7, <2>9 DEF NoDoublePosting, Fingerprint
<1> QED BY <1>1, <1>2, <1>3, IngestionInvariant, IngestionNoDoublePosting, PTL
        DEF IngestionSpec

-----------------------------------------------------------------------------
(* What a message gave is not taken back.                                  *)
(*                                                                         *)
(* A reprocessing does not look at a status again once it picked a message, *)
(* and so may work on one that another request has settled meanwhile.  It   *)
(* does no harm because a parser that stays is at work in both, and a       *)
(* message that one release settled is read again by that release only.     *)

\* The messages that handler t will parse, whatever their status is by then.
Unlooked(t) ==
    (IF job[t].kind = "reprocess" THEN {job[t].todo[i] : i \in 1 .. Len(job[t].todo)} ELSE {})
    \cup (IF pc[t] = "parse" THEN {Message(t)} ELSE {})

ReadsAlike ==
    \A t \in Threads : \A m \in Unlooked(t) :
        Settled(m) => ParseOf(m).outcome = "ok"

\* Done with a message, a handler no longer has it.
LEMMA DoneIsDropped ==
    ASSUME IngestionInd, NEW t \in Threads, pc[t] \in MessageSteps,
           NEW j \in Job, j.kind = job[t].kind, j.todo = job[t].todo,
           Raise(t, j) \/ Advance(t, j)
    PROVE  job'[t].todo # job[t].todo
<1>1. /\ job \in [Threads -> Job] /\ j.kind \in {"sms", "batch", "reprocess"}
      /\ j.todo # <<>> /\ Len(j.todo) \in Nat
  BY SessionsTyped, MessageFacts
<1>2. CASE job'[t] = NoJob
  BY <1>1, <1>2 DEF NoJob
<1>3. CASE Advance(t, j)
  <2>1. job'[t] = NoJob \/ Len(job'[t].todo) + 1 = Len(j.todo)
    BY <1>1, <1>3, AdvanceGives
  <2> QED BY <1>1, <1>2, <2>1
<1>4. CASE Finish(t)
  BY <1>1, <1>2, <1>4 DEF Finish
<1> QED BY <1>3, <1>4 DEF Raise

\* What a step of a message writes is its own status, and what that may be.
LEMMA HeadOnly ==
    ASSUME IngestionInd, NEW t \in Threads, MessageStep(t)
    PROVE  \/ rawEvents' = rawEvents
           \/ /\ pc[t] \in MessageSteps
              /\ \A m \in RawEventIds \ {Message(t)} : rawEvents'[m] = rawEvents[m]
              /\ \/ pc[t] = "store" /\ rawEvents[Message(t)] = NULL
                    /\ rawEvents'[Message(t)] = "RECEIVED"
                 \/ /\ pc[t] = "parse" /\ ParseOf(Message(t)).outcome # "ok"
                    /\ rawEvents'[Message(t)] \in {"UNKNOWN_FORMAT", "IGNORED"}
                 \/ /\ pc[t] = "mark" /\ ParseOf(Message(t)).outcome = "ok"
                    /\ rawEvents'[Message(t)] \in {"PROCESSED", "NEEDS_REVIEW", "DUPLICATE"}
<1>1. CASE store(t) \/ record_unparsed(t) \/ mark(t)
  <2>1. pc[t] \in MessageSteps /\ pc[t] \in {"store", "parse", "mark"}
    BY <1>1 DEF store, record_unparsed, mark, MessageSteps
  <2>2. /\ Message(t) \in RawEventIds
        /\ rawEvents \in [RawEventIds -> ProcessingStatus \cup {NULL}]
    BY <2>1, MessageFacts DEF IngestionInd, IngestionTypes
  <2>3. pc[t] = "mark" => /\ job[t].outcome \in {"PROCESSED", "NEEDS_REVIEW", "DUPLICATE"}
                          /\ ParseOf(Message(t)).outcome = "ok"
    BY SessionsTyped DEF AtWork
  <2>4. CASE store(t)
    BY <2>1, <2>2, <2>4 DEF store
  <2>5. CASE record_unparsed(t)
    BY <2>1, <2>2, <2>5 DEF record_unparsed
  <2>6. CASE mark(t)
    BY <2>1, <2>2, <2>3, <2>6 DEF mark
  <2> QED BY <1>1, <2>4, <2>5, <2>6
<1>2. CASE ~(store(t) \/ record_unparsed(t) \/ mark(t))
  BY <1>2 DEF MessageStep, pick, lookup, resolve_account, stub_insert, stub_refresh,
     sms_check, sms_write, flush
<1> QED BY <1>1, <1>2

\* A step that keeps its message brings it to the parser from `store` only.
LEMMA ParsedAfterStore ==
    ASSUME IngestionInd, NEW t \in Threads, MessageStep(t), pc[t] \in MessageSteps,
           pc[t] # "pick", ~store(t), job'[t].todo = job[t].todo
    PROVE  pc'[t] # "parse"
<1>1. \A j \in Job : j.kind = job[t].kind /\ j.todo = job[t].todo =>
          ~Raise(t, j) /\ ~Advance(t, j)
  BY DoneIsDropped
<1>2. /\ job[t] \in Job /\ job[t].buffer \in Seq(Nat \cup {NULL}) /\ DOMAIN pc = Threads
  BY SessionsTyped DEF Job
<1>3. \A old \in Job, events \in Seq(Nat \cup {NULL}) :
          /\ [old EXCEPT !.poisoned = TRUE] \in Job
          /\ [old EXCEPT !.poisoned = TRUE].kind = old.kind
          /\ [old EXCEPT !.poisoned = TRUE].todo = old.todo
          /\ [old EXCEPT !.buffer = events] \in Job
          /\ [old EXCEPT !.buffer = events].kind = old.kind
          /\ [old EXCEPT !.buffer = events].todo = old.todo
  BY DEF Job
<1>4. ~Raise(t, job[t]) /\ ~Advance(t, job[t])
  BY <1>1, <1>2
<1>5. ~Raise(t, [job[t] EXCEPT !.poisoned = TRUE])
  BY <1>1, <1>2, <1>3
<1>6. \A events \in Seq(Nat \cup {NULL}) : ~Advance(t, [job[t] EXCEPT !.buffer = events])
  BY <1>1, <1>2, <1>3
<1>7. CASE lookup(t) \/ record_unparsed(t) \/ mark(t)
  BY <1>2, <1>4, <1>7 DEF lookup, record_unparsed, mark, GoTo
<1>8. CASE resolve_account(t) \/ stub_refresh(t)
  BY <1>2, <1>8 DEF resolve_account, stub_refresh, GoTo, Hold, HoldSince
<1>9. CASE stub_insert(t)
  BY <1>2, <1>5, <1>9 DEF stub_insert, Hold, HoldSince
<1>10. CASE sms_check(t)
  BY <1>2, <1>4, <1>10 DEF sms_check, Failed, Duplicate, GoTo
<1>11. CASE sms_write(t)
  <2>1. Append(job[t].buffer, NULL) \in Seq(Nat \cup {NULL})
    BY <1>2
  <2>2. ~Advance(t, [job[t] EXCEPT !.buffer = Append(job[t].buffer, NULL)])
    BY <1>6, <2>1
  <2> QED BY <1>2, <1>4, <1>11, <2>2 DEF sms_write, Failed, Duplicate, GoTo
<1>12. CASE flush(t)
  <2>1. job[t].buffer # <<>>
    BY <1>12, SessionsTyped DEF flush, AtWork
  <2>2. Tail(job[t].buffer) \in Seq(Nat \cup {NULL})
    BY <1>2, <2>1
  <2>3. ~Advance(t, [job[t] EXCEPT !.buffer = Tail(job[t].buffer)])
    BY <1>6, <2>2
  <2> QED BY <1>2, <1>12, <2>3 DEF flush
<1> QED BY <1>7, <1>8, <1>9, <1>10, <1>11, <1>12 DEF MessageStep, pick

\* A handler comes to a message that is not settled only, or was on its way to
\* it already.
LEMMA UnlookedStep ==
    ASSUME IngestionInd, NEW t \in Threads, MessageStep(t), NEW m \in Unlooked(t)'
    PROVE  m \in Unlooked(t) \/ ~Settled(m)'
<1>0. /\ job \in [Threads -> Job] /\ DOMAIN pc = Threads /\ job[t] \in Job
      /\ NoJob.kind # "reprocess"
  BY SessionsTyped, IngestionAssumption DEF NoJob
<1>1. CASE Finish(t)
  <2>1. job'[t] = NoJob /\ pc'[t] = "idle"
    BY <1>0, <1>1 DEF Finish, ClosePost, Close
  <2> QED BY <1>0, <2>1 DEF Unlooked
<1>2. ASSUME pc[t] \in MessageSteps, NEW j \in Job, j.kind = job[t].kind,
             j.todo = job[t].todo, Advance(t, j)
      PROVE  m \in Unlooked(t)
  <2>1. /\ job[t].kind \in {"sms", "batch", "reprocess"} /\ job[t].todo # <<>>
        /\ Len(job[t].todo) \in Nat
    BY <1>2, MessageFacts
  <2>2. \/ pc'[t] = "idle" /\ job'[t] = NoJob
        \/ /\ pc'[t] = "parse" => job[t].kind = "reprocess"
           /\ job'[t].kind = job[t].kind /\ job'[t].todo # <<>>
           /\ job'[t].todo \in Seq(RawEventIds)
           /\ Len(job'[t].todo) + 1 = Len(job[t].todo)
           /\ \A i \in 1 .. Len(job'[t].todo) : job'[t].todo[i] = job[t].todo[i + 1]
    BY <1>2, <2>1, AdvanceGives DEF Job
  <2>3. CASE pc'[t] = "idle" /\ job'[t] = NoJob
    BY <1>0, <2>3 DEF Unlooked
  <2>4. CASE /\ pc'[t] = "parse" => job[t].kind = "reprocess"
             /\ job'[t].kind = job[t].kind /\ job'[t].todo # <<>>
             /\ job'[t].todo \in Seq(RawEventIds)
             /\ Len(job'[t].todo) + 1 = Len(job[t].todo)
             /\ \A i \in 1 .. Len(job'[t].todo) : job'[t].todo[i] = job[t].todo[i + 1]
    <3>1. PICK next : next = job'[t].todo
      OBVIOUS
    <3>2. /\ Len(next) \in Nat /\ 1 \in 1 .. Len(next) /\ Head(next) = next[1]
          /\ \A i \in 1 .. Len(next) : i + 1 \in 1 .. Len(job[t].todo)
      BY <2>1, <2>4, <3>1
    <3>3. job[t].kind = "reprocess" /\ \E i \in 1 .. Len(next) : m = next[i]
      BY <2>4, <3>1, <3>2 DEF Unlooked, Message
    <3>4. PICK i \in 1 .. Len(job[t].todo) : m = job[t].todo[i]
      BY <2>4, <3>1, <3>2, <3>3
    <3> QED BY <3>3, <3>4 DEF Unlooked
  <2> QED BY <2>2, <2>3, <2>4
<1>3. CASE pick(t)
  <2>1. PICK list, todo :
            /\ pc[t] = "pick" /\ rawEvents' = rawEvents
            /\ list \in Newest(job[t].window, REPROCESSABLE_STATUSES[job[t].turn])
            /\ todo = CutToLimit(job[t].todo \o list)
            /\ \/ /\ job' = [job EXCEPT ![t] = Picking(job[t], todo, job[t].turn + 1)]
                  /\ pc' = pc
               \/ Finish(t)
               \/ /\ todo # <<>>
                  /\ job' = [job EXCEPT ![t] = PickedAll(job[t], todo)]
    BY <1>3 DEF pick, Picking, PickedAll
  <2>2. /\ todo \in Seq(RawEventIds) /\ job[t].kind = "reprocess"
        /\ \A i \in 1 .. Len(todo) :
              \/ \E k \in 1 .. Len(job[t].todo) : todo[i] = job[t].todo[k]
              \/ rawEvents[todo[i]] \in {"FAILED", "UNKNOWN_FORMAT", "RECEIVED"}
    BY <2>1, PickedTyped, SessionsTyped DEF AtWork
  <2>3. \A i \in 1 .. Len(todo) : todo[i] \in Unlooked(t) \/ ~Settled(todo[i])'
    BY <2>1, <2>2 DEF Unlooked, Settled
  <2>4. ASSUME job'[t].todo = todo, todo # <<>> \/ pc'[t] # "parse"
        PROVE  \E i \in 1 .. Len(todo) : m = todo[i]
    <3>1. todo # <<>> => 1 \in 1 .. Len(todo) /\ Head(todo) = todo[1]
      BY <2>2
    <3> QED BY <2>4, <3>1 DEF Unlooked, Message
  <2>5. CASE /\ job' = [job EXCEPT ![t] = Picking(job[t], todo, job[t].turn + 1)]
             /\ pc' = pc
    <3>1. job'[t].todo = todo /\ pc'[t] # "parse"
      BY <1>0, <2>1, <2>5 DEF Picking, Job
    <3> QED BY <2>3, <2>4, <3>1
  <2>6. CASE todo # <<>> /\ job' = [job EXCEPT ![t] = PickedAll(job[t], todo)]
    <3>1. job'[t].todo = todo
      BY <1>0, <2>6 DEF PickedAll, Job
    <3> QED BY <2>3, <2>4, <2>6, <3>1
  <2> QED BY <1>1, <2>1, <2>5, <2>6
<1>4. CASE ~pick(t) /\ job'[t].todo = job[t].todo /\ job'[t].kind = job[t].kind
  <2>1. pc[t] # "pick" /\ pc[t] \in MessageSteps
    BY <1>4 DEF MessageStep, pick, lookup, store, record_unparsed, resolve_account,
       stub_insert, stub_refresh, sms_check, sms_write, mark, flush, MessageSteps
  <2>2. Message(t)' = Message(t)
    BY <1>4 DEF Message
  <2>3. CASE store(t)
    <3>1. CASE rawEvents' = [rawEvents EXCEPT ![Message(t)] = "RECEIVED"]
      <4>1. rawEvents'[Message(t)] = "RECEIVED"
        BY <2>1, <3>1, MessageFacts DEF IngestionInd, IngestionTypes
      <4> QED BY <1>4, <2>2, <4>1 DEF Unlooked, Settled
    <3>2. CASE Raise(t, job[t])
      BY <1>0, <2>1, <3>2, DoneIsDropped, <1>4
    <3> QED BY <2>3, <3>1, <3>2 DEF store
  <2>4. CASE ~store(t)
    <3>1. pc'[t] # "parse"
      BY <1>4, <2>1, <2>4, ParsedAfterStore
    <3> QED BY <1>4, <3>1 DEF Unlooked
  <2> QED BY <2>3, <2>4
<1>5. CASE ~pick(t)
  <2>1. pc[t] # "pick" /\ pc[t] \in MessageSteps
    BY <1>5 DEF MessageStep, pick, lookup, store, record_unparsed, resolve_account,
       stub_insert, stub_refresh, sms_check, sms_write, mark, flush, MessageSteps
  <2> QED BY <1>1, <1>2, <1>4, <1>5, <2>1, MessageStepMoves DEF ListMoves
<1> QED BY <1>3, <1>5

\* What every reprocessing will read it will read as it was read before.
LEMMA ReadsAlikeNext ==
    ASSUME IngestionInd, ReadsAlike, [IngestionNext]_ingestionVars
    PROVE  ReadsAlike'
<1>0. NoJob.kind # "reprocess"
  BY IngestionAssumption DEF NoJob
<1>1. CASE restart
  <2>1. \A t \in Threads : Unlooked(t)' = {}
    BY <1>0, <1>1 DEF restart, Unlooked
  <2> QED BY <2>1 DEF ReadsAlike
<1>2. ASSUME release' = release, rawEvents' = rawEvents,
             \A t \in Threads : Unlooked(t)' \subseteq Unlooked(t)
      PROVE  ReadsAlike'
  BY <1>2 DEF ReadsAlike, Settled, ParseOf
<1>3. CASE UNCHANGED ingestionVars
  BY <1>2, <1>3 DEF ingestionVars, Unlooked, Message
<1>4. CASE LedgerNext /\ UNCHANGED <<rawEvents, job, sent, release, restarts>>
  <2>1. PICK u \in Threads :
            /\ pc[u] \in LedgerSteps
            /\ \E next \in LedgerSteps : pc' = [pc EXCEPT ![u] = next]
            /\ \A t \in Threads \ {u} : pc'[t] = pc[t]
    BY <1>4, LedgerMoves
  <2>2. "parse" \notin LedgerSteps
    BY DEF LedgerSteps, AccountSteps
  <2>3. pc'[u] # "parse"
    BY <2>1, <2>2, SessionsTyped
  <2>4. \A t \in Threads : pc'[t] = "parse" => pc[t] = "parse"
    BY <2>1, <2>3
  <2>5. \A t \in Threads : Unlooked(t)' \subseteq Unlooked(t)
    BY <1>4, <2>4 DEF Unlooked, Message
  <2> QED BY <1>2, <1>4, <2>5
<1>5. ASSUME NEW u \in Threads, ingest_sms(u) \/ import_batch(u) \/ reprocess(u)
      PROVE  ReadsAlike'
  <2>1. PICK j : \E next \in {"lookup", "pick"} :
            Begin(u, j, next) /\ (j.kind = "reprocess" => j.todo = <<>>)
    <3>0. NoJob \in Job /\ NoJob.todo = <<>>
      BY NoJobTyped DEF NoJob
    <3>1. CASE ingest_sms(u)
      <4>1. PICK m \in RawEventIds : Begin(u, Given(NoJob, "sms", <<m>>), "lookup")
        BY <3>1 DEF ingest_sms, Given
      <4>2. PICK todo : todo = <<m>>
        OBVIOUS
      <4>3. <<m>> \in Seq(RawEventIds)
        OBVIOUS
      <4>4. todo \in Seq(RawEventIds) /\ Begin(u, Given(NoJob, "sms", todo), "lookup")
        BY <4>1, <4>2, <4>3
      <4> QED BY <3>0, <4>4, GivenTyped
    <3>2. CASE import_batch(u)
      <4>1. PICK messages \in Batches : Begin(u, Given(NoJob, "batch", messages), "lookup")
        BY <3>2 DEF import_batch, Given
      <4>2. messages \in Seq(RawEventIds)
        BY IngestionAssumption
      <4> QED BY <3>0, <4>1, <4>2, GivenTyped
    <3>3. CASE reprocess(u)
      <4>1. PICK window \in Ranges : Begin(u, Asked(NoJob, window), "pick")
        BY <3>3 DEF reprocess, Asked, Ranges
      <4> QED BY <3>0, <4>1, AskedTyped
    <3> QED BY <1>5, <3>1, <3>2, <3>3
  <2>2. PICK next \in {"lookup", "pick"} :
            /\ job' = [job EXCEPT ![u] = j] /\ pc' = [pc EXCEPT ![u] = next]
            /\ UNCHANGED <<rawEvents, release>>
    BY <2>1 DEF Begin, GoTo
  <2>3. Unlooked(u)' = {}
    BY <2>1, <2>2, SessionsTyped DEF Unlooked
  <2>4. \A t \in Threads \ {u} : Unlooked(t)' = Unlooked(t)
    BY <2>2, SessionsTyped DEF Unlooked, Message
  <2> QED BY <1>2, <2>2, <2>3, <2>4
<1>6. ASSUME NEW u \in Threads, MessageStep(u) PROVE ReadsAlike'
  <2>1. /\ release' = release /\ Others(u)
    BY <1>6, MessageStepOthers DEF MessageStep, pick, lookup, store, record_unparsed,
       resolve_account, stub_insert, stub_refresh, sms_check, sms_write, mark, flush
  <2>2. ASSUME NEW t \in Threads, NEW m \in Unlooked(t)', Settled(m)'
        PROVE  ParseOf(m)'.outcome = "ok"
    <3>1. m \in Unlooked(t)
      <4>1. CASE t = u
        BY <1>6, <2>2, <4>1, UnlookedStep
      <4>2. CASE t # u
        BY <2>1, <4>2 DEF Others, Unlooked, Message
      <4> QED BY <4>1, <4>2
    <3>2. CASE Settled(m)
      BY <2>1, <3>1, <3>2 DEF ReadsAlike, ParseOf
    <3>3. CASE ~Settled(m)
      <4>1. m \in RawEventIds
        <5>1. job[t] \in Job /\ (pc[t] = "parse" => pc[t] \in MessageSteps)
          BY SessionsTyped DEF MessageSteps
        <5> QED BY <3>1, <5>1, MessageFacts DEF Unlooked, Job
      <4>2. m = Message(u) /\ ParseOf(Message(u)).outcome = "ok"
        BY <1>6, <2>2, <3>3, <4>1, HeadOnly DEF Settled
      <4> QED BY <2>1, <4>2 DEF ParseOf
    <3> QED BY <3>2, <3>3
  <2> QED BY <2>2 DEF ReadsAlike
<1> QED BY <1>1, <1>3, <1>4, <1>5, <1>6 DEF IngestionNext

\* A message that gave a transaction or repeats one is never shown again as
\* unread, ignored or waiting, whatever handlers, restarts and releases do.
THEOREM IngestionNeverTakenBack == IngestionSpec => NeverTakenBack
<1> DEFINE Kept == \A m \in RawEventIds : Settled(m) => Settled(m)'
<1>1. IngestionInit => ReadsAlike
  <2> SUFFICES ASSUME IngestionInit PROVE ReadsAlike
    OBVIOUS
  <2>1. NoJob.kind # "reprocess"
    BY IngestionAssumption DEF NoJob
  <2>2. /\ job = [t \in Threads |-> NoJob]
        /\ pc = [t \in Threads |-> "idle"]
    BY Zenon DEF IngestionInit, LedgerInit, AccountsInit
  <2>3. \A t \in Threads : job[t] = NoJob /\ pc[t] = "idle"
    BY <2>2, Zenon
  <2>4. \A t \in Threads : Unlooked(t) = {}
    BY <2>1, <2>3 DEF Unlooked
  <2> QED BY <2>4 DEF ReadsAlike
<1>2. IngestionInd /\ ReadsAlike /\ [IngestionNext]_ingestionVars => ReadsAlike'
  BY ReadsAlikeNext
<1>3. IngestionInd /\ ReadsAlike /\ [IngestionNext]_ingestionVars => [Kept]_ingestionVars
  <2> SUFFICES ASSUME IngestionInd, ReadsAlike, [IngestionNext]_ingestionVars,
                      NEW m \in RawEventIds, Settled(m)
               PROVE  Settled(m)'
    OBVIOUS
  <2>1. CASE rawEvents' = rawEvents
    BY <2>1 DEF Settled
  <2>2. ASSUME NEW t \in Threads, MessageStep(t) PROVE Settled(m)'
    <3>1. rawEvents[m] # NULL
      BY IngestionAssumption DEF Settled, ProcessingStatus
    <3>2. pc[t] = "parse" /\ Settled(Message(t)) => ParseOf(Message(t)).outcome = "ok"
      BY DEF ReadsAlike, Unlooked
    <3>3. CASE m = Message(t)
      BY <2>1, <2>2, <3>1, <3>2, <3>3, HeadOnly DEF Settled
    <3>4. CASE m # Message(t)
      BY <2>1, <2>2, <3>4, HeadOnly DEF Settled
    <3> QED BY <3>3, <3>4
  <2>3. CASE \E t \in Threads : ingest_sms(t) \/ import_batch(t) \/ reprocess(t)
    BY <2>1, <2>3, Zenon DEF ingest_sms, import_batch, reprocess, Begin
  <2> QED BY <2>1, <2>2, <2>3 DEF IngestionNext, restart, ingestionVars
<1> QED BY <1>1, <1>2, <1>3, IngestionInvariant, PTL DEF IngestionSpec, NeverTakenBack
=============================================================================
