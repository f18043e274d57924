# The personal finance platform in TLA+

This directory specifies the backend of the personal finance platform
(`backend/app`, FastAPI over PostgreSQL through SQLModel) in TLA+. TLC checks
the specifications on small instances; TLAPS proves the theorems for every
value of their constants. Definitions keep the names of the source;
`PROJECT.json` gives the lines each one stands for.

## 1. The system

Every endpoint is a plain `def`: FastAPI runs it on a thread pool, so requests
overlap freely. Each request has one database session. PostgreSQL runs at READ
COMMITTED, no statement locks a row it reads and no row carries a version. A
session keeps the first copy of a row it loads (the identity map), decides on
that copy, and at flush writes only the columns it changed. This is where most
of the difficult behaviour comes from.

| Component | State | Operations | What makes it correct |
| --- | --- | --- | --- |
| accounts | `accounts` | create, edit, archive | one account per identity; archived is final; legal status edges |
| transactions | `transactions` | post, edit | one row per fingerprint; none on an archived account by hand |
| balances | `accounts.estimated_balance` | apply a posting, reconcile | the balance is what was posted |
| audit | `audit_log` | append, list by `created_at` | every change leaves its row, and the trail tells what is stored |
| ingestion | `raw_events` | deliver, import a batch, reprocess | no message is lost or posted twice; its status is true |
| events, telegram | a buffer per request | publish, flush, discard | what is announced was committed, and is announced once |
| parser | none | select a parser, parse | a function of the message and the release |
| merchants | `merchants`, `merchant_patterns` | get or create, add a pattern, resolve | a user's rule beats a shared one; few twins |
| categories | `categories` | create, rename, move | system rows are protected; nobody's category shows at another's |
| learning | `user_feedback`, `merchant_patterns` | correct | a correction prevails, for its user alone |
| AI suggestions | `ai_suggestions` | suggest, review | only what can be trusted is stored; the last review counts |
| transfers | `transfers` | link, confirm | both sides the user's, on two accounts |
| reporting, lists | none | totals, breakdowns, net worth, pages | reports agree; counts cover what is shown |
| users, tokens | `users`, JWTs | register, log in, refresh | one user per address; a login ends |
| access | roles, `user_api_keys`, connections | grant, disable, issue, use, revoke | a revoked key stays revoked; requests are answered |
| rate limiting | counters in memory | check | at most the limit in a window |

They meet in four ways: calls (a service calls its repository), events (a
service publishes, and audit, the balance engine and the notifier receive the
event inside the posting's own transaction, the notifier through a buffer),
shared rows (the balance engine and the account service write the same row from
different sessions) and commits (ingestion makes several per message, and
anything may happen between two).

## 2. Modules

```
FinancialCalculator          money and signs
  Accounts                   the account table, its trail, sessions
    Ledger                   + postings and reconciliations   ~~> AbstractLedger
      Ingestion              + messages, jobs, notifications, restarts
  Reporting                  edits, transfers, lists and reports over the ledger
Catalogue                    categories, merchants, learning, suggestions
Access                       users, tokens, roles, keys, the connection pool
RateLimiter                  the request counter
AccountsProofs, LedgerProofs, ReportingProofs, CatalogueProofs,
AccessProofs, RateLimiterProofs                            theorems
IngestionProofs                theorems, over LedgerProofs
Sums                           lemmas: sums over finite sets
MCLedger, MCIngestion, MCReporting, MCCatalogue, MCAccess,
MCRateLimiter                                              instances for TLC
```

**One action is one database round trip.** A SELECT and the decisions made on it
are one action; a flush with the commit that follows is another, since
PostgreSQL makes the two atomic for every other session (a unique index makes
the second of two inserts wait for the first, then fail). `pc[t]` says where
handler `t` is, `session[t]` holds the row it loaded (`seen`) and the columns it
will write (`change`). `Write(row, change)` is the UPDATE: it takes the columns
of the change and leaves the others as they are *then*, which is why the stale
copy matters for one column and not for another. Requests that a guard refuses
before they write anything change nothing and are disabled rather than modelled
as steps.

**Accounts** (`domains/accounts`, `api/accounts.py`):
`create_account` / `create_insert` are the pre-check and the INSERT;
`update_account`, `update_guard`, `update_write` the read with its guards, the
second duplicate check, and the UPDATE; `archive_account` / `archive_write` the
same for DELETE. `find_duplicate` compares as the SELECT does (two NULLs match),
`IndexRejects` as the unique constraint does (they do not). A row has no name
and no currency: no rule reads them. Each write appends its event to `audit` in
the same step, as `AuditService.publish` stages the row on the same session. The
position of an entry in `audit` is the order of the commits, which no column
records. What the row does record is `created_at`, the start of its transaction:
the entry's `since` is the number of events committed by then. The driver sends
BEGIN in a round trip of its own before the request's first SELECT, so any earlier
moment is possible (`Began`, up to `MaxStart`).

**Ledger** (`domains/transactions`, `domains/balances`): `create_transaction`,
`post_check`, `post_write` are the account read, the fingerprint pre-check and
the commit. The commit contains what the publishers do inside it: the audit row,
and the balance that `apply_transaction` computed on the session's copy of the
account. `PostFails` is the unique index and NUMERIC(18,2), whichever the flush
meets. `reconcile_account` / `reconcile_write` are POST `.../reconcile`. A
fingerprint's minute, merchant and reference are one value, `key`; the hash is
taken to be injective.

**AbstractLedger** says what the documentation promises: a posting adds its
signed amount to the balance in one indivisible step, nothing is posted twice,
an archived account takes no posting by hand, an edit leaves the balance alone.

**Ingestion** (`domains/ingestion`, `events/publisher.py`,
`telegram/notifier.py`): a request is a `job`, a list of messages worked through
with one session and one buffer. Per message: `lookup` and `store` (the hash
check and the insert), `record_unparsed` or `resolve_account`, `stub_insert` and
`stub_refresh` for an unknown account, `sms_check` and `sms_write` for the
posting, `mark` for the status, `flush` for the notifications. `Raise` and
`Failed` are the two ways an exception goes: out of `ingest_sms`, where only the
batch import catches it, or into `_process`, which answers FAILED. `poisoned` is
a SQLAlchemy session whose flush failed and that nobody rolled back: every later
statement raises. `Reading` is what each release of the parser makes of each
message; `restart` stops the process at any point and may bring another release.
`pick` is one SELECT of a reprocessing, one per status in turn: a page of the
messages with that status, newest first (`Newest`; `Received` is the order of
arrival), after those it has, all cut to the limit. `flush` hands the notifier
one event per step, so that a restart may come between two.
A message is identified with its hash; texts the endpoint refuses outright
(empty, too long) are not among the messages. Merchant and category are
filled in by reads and decide nothing here. `_process` reports FAILED and never
stores it, so a message that failed is still RECEIVED here, whatever
`docs/sprint-4` says of the status (line 92).

**RateLimiter** (`core/rate_limit.py`, `api/middleware/rate_limit.py`): `check`
is one step, because `dispatch` runs on the event loop and awaits nothing before
the decision. `windows` is `_windows`; `Counted`, `Stored` and `Kept` are the new
count, the table with it, and `_evict_expired`; `Decision` is the answer, kept in
`decisions` for the properties. `Layers` is the order in which `create_app`
nests the middleware; `KnownUser` is what `_rate_limit_key` can read there. Time
passes in ticks, several to the second, because Retry-After is in whole seconds
and the clock is not. The hash of an API key is taken to be injective, and
`reset` has no caller.

**Access** (`domains/users`, `domains/access`, `core/jwt.py`,
`core/refresh_token.py`, `api/auth.py`, `api/admin.py`, `api/api_keys.py`,
`api/middleware/authentication.py`): `dispatch` decodes a token, `authenticate`
is the middleware's query; its connection stays out until `respond`, because
`call_next` is awaited inside the session. The route takes a second one. `conns`
are the connections that are out, `Take` and `Return` the checkout of the first
statement and the return at the commit. The middleware's query is synchronous:
while it waits, the event loop accepts and answers nothing (`LoopFree`).
`pool_timeout` is QueuePool's. `load_user` / `user_write` are the two routes of
the administrators, `revoke` / `revoke_write` and `key_lookup` / `key_touch` /
`key_owner` the life of a key, `register_check` / `register_insert` a
registration. A token carries, beside its claims, the moment of the login it
descends from (`since`). A tick is minutes, so no request is in progress across
one (each ends within the pool's timeout). Passwords and secrets are taken to
match, tokens to be unforgeable.

**Catalogue** (`domains/categories`, `domains/merchants`, `domains/ai`,
`ai/services`, `ai/validators`, `api/ai.py`): creations are check and insert
(`create_category` / `category_insert`, `get_or_create_merchant` /
`merchant_insert`, `create_pattern` / `pattern_insert`), edits and reviews read
and write (`update_category` / `category_write`, `review_suggestion` /
`mark_reviewed`). Both category requests look the name up (`create_category`,
`category_name`) and then the parent (`category_parent`), if there is one, each in
a statement of its own. When an edit has both, the lookup of the parent already
sends the new name (autoflush): nobody sees it before the commit, and the index
lets one of two such rows through either way, so it is part of `category_write`. A correction is `record_feedback`, then the merchant it finds
or creates, then `learned_pattern` and `pattern_insert`: three commits. `resolve`
is what the pipeline asks per message. A text is a stem that ends in a letter,
perhaps digits, perhaps an underscore, perhaps between wildcards: what
`build_learned_pattern`, the four kinds of patterns and `_precedence_key` tell
apart. Ties of precedence are broken by the order of rows, so any of the best
patterns may decide. A model's answer is a number in half percents, so that both
ways to write it, rounding half to even, and what is out of range are there.
`asked` is what the last review said, kept for a property.

**Reporting** (`domains/reporting`, `domains/transfers`, the edits and lists of
`domains/transactions`): `posted` is the set of postings in an account's
estimated balance, so that a sum is taken only where a report takes one; postings
and archives are those of Ledger and Accounts, in the same steps, stripped of
what no report reads (each is a payment of its own, and one of nothing leaves the
balance alone). `begin` is where a request's transaction begins, which the audit
rows of a PATCH keep (`since`). `update_transaction` / `patch_write` is PATCH, `link_transfer` and `confirm_transfer` /
`confirm_write` the transfers, `account_summaries` / `summary_count` and
`list_for_user` / `count_for_user` answers made of two queries. Each report is
one query and so an operator on a state: `reporting_scope` and what is computed
from it. A day has two instants, its first and its last: a window is cut between
them. Of the editable columns `category` and `type` stand for all five (one with
a foreign key, one that must not be null). `_reporting_scope` also asks for the
status ACTIVE; nothing ever writes another.

## 3. What TLC checks

Runs that pass. The bound that ends a ledger run is `MaxEvents`, the number of
audited events and requests in flight; the others are bounded by the number of
requests and the clock. A run that has used its bound up stops, hence
`CHECK_DEADLOCK FALSE`:

| Run | Instance | Shows |
| --- | --- | --- |
| `ledger_races` | 3 handlers, asset and liability, colliding creations and edits, archives, postings (duplicate, zero, overflowing), reconciliations, 3 events, transactions that began any time before | types and column ranges; unique identity; no unaudited edit; the trail tells what is stored, and old values the transaction could read; no double posting; a balance lacks whole lost postings at most, never the latest, as long as nothing but postings set it; only a status PATCH with a stale copy revives an account; only the write of an overtaken edit or posting is no step of `AbstractLedger` |
| `ledger_serial` | 1 handler, 3 rows, every endpoint, 4 events | the ledger implements `AbstractLedger`; archived is final; status edges |
| `ingest_races` | 2 handlers, 4 messages (2 wordings of a payment, a purchase, a payment that overflows after another), a batch, 1 restart | a status is true of the ledger; a message that names its account is posted once; only what was committed is announced, once; only a poisoned session drops messages of a batch |
| `ingest_recovery` | 2 handlers, 3 messages, 1 restart, 2 releases, fair | reprocessing decides what was cut off; a message that gave a transaction, or repeats one, is not taken back, though reprocessings and deliveries overlap |
| `rate_limit` | 2 callers, limit 2, a window of 3 s in ticks of half a second, 7 requests, room for 1 counter | refusals are earned; waiting for Retry-After and a second helps; twice the limit at most in a window's length |
| `access` | 2 requests, a pool of 2 or 3, 2 administrators and room for 2 users, 1 key, 3 ticks, 4 requests, fair | one user per address; a login ends; revocation is final; who can still administer; every request is answered |
| `catalogue` | 2 requests of 2 users, 4 requests: 10 of merchants and messages, 7 of categories, 4 of suggestions | references and confidences; few twins; a correction prevails, for its user alone; categories stay private; only an overlap loses a review |
| `reporting` | 2 requests, 4 in all, over 3 accounts, 2 transactions, 2 months of 2 days | reports agree; the trail of edits tells the table; transfers are of their user; counts cover what is shown |

Why these bounds are enough to see the interesting cases: a race needs two
handlers and one row; a constraint needs a second row to collide with and a
third to be moved onto; losing a posting needs two, and amounts that are powers
of two make every sum tell which postings are in it; `MaxMoney = 7` makes one payment
overflow alone and another only on top of a balance. The second kind matters in
`ingest_races`: it fails at the commit, after its event was published, so an event
of a transaction that is not there waits in the buffer of its batch (the mutant
`NotifyAll` announces it). Each property is shown to
depend on the code by a mutant (`PROJECT.json`, "mutants") under which the run
fails. In `ledger_races` the handlers are interchangeable, in `ingest_races` the
account ids too, and the runs are reduced by that symmetry; they check no
liveness. `rate_limit` has room for one counter, so that every second key makes
the table overflow, and seven requests: three fill a window and go beyond it,
three more do so for the next, and one is left for another caller. `ledger_races`
has three handlers and three events: all three requests may overlap, or two may
overlap after a third has committed. No request is accepted after the second event,
so `MaxStart = 2` leaves no beginning of a transaction out; the other ledger and
ingestion runs ask nothing of `created_at` and have it at 0. A batch or a
reprocessing takes up one place of `MaxEvents` when it is accepted, whatever it
goes on to post.

`access` has two requests, which is what it takes to use up a pool of two, to
disable one another, to register one address twice and to revoke a key in use;
with a pool of three a request always gets on. Lifetimes of 1 and 2 ticks and a
clock of 3 let a token be refreshed just before it expires. `catalogue` has a
shared rule that is as specific as a rule can be, three spellings of one name, a
string too short for a rule without its digits and one too long with wildcards;
four requests are a correction, a pattern, and a message of either user, or two
overlapping pairs of creations, or two moves that make a cycle. `reporting` has a
transaction at the last instant of a month, one at the first of the next, one
without a date, one that is a transfer, and one on a liability. In `catalogue`
and `reporting` the requests in progress are interchangeable; they check no
liveness.

`ledger_serial` has one handler for a reason: with two, the code gives up what
it checks. A status PATCH that read an account before an archive committed makes
it live again, and a posting can commit on an account archived since it was read.
What is left with several handlers is said in `ledger_races`: `OnlyStalePatchRevives`,
and `OnlyOvertakenDepart`, that nothing but the write of an edit or a posting whose
copy another request has overtaken departs from the abstract ledger.
`ingest_recovery` is for pages that hold every message: the statuses fill the page
in turn, so with a smaller one unreadable messages that stay unreadable may take
all of it, and a RECEIVED one behind them is never reached.
A reprocessing that picked a message still being delivered turns its PROCESSED
into DUPLICATE, of itself; `NeverTakenBack` allows that and nothing worse.

What the models also show of the code, and no property hides: of two overlapping
edits of a column, the one that begins first may commit last, and then the newest
row of the trail by `created_at` tells a value that is not the stored one, and
either may audit an old value that the other has already replaced (`TrailTells` and
`OldWasStored` say what is left of both); overlapping
archives publish the event twice; overlapping creations without a bank or digits
both commit, since the constraint takes NULLs for different; a reconciliation to
the figure its session had read is not written, even if a posting committed
meanwhile (`FlushBalance`), and reconciling works on archived accounts; a message
without digits gets a new account on every run, so that one cut off between its
posting and its status is posted again by a reprocessing, on another account
(`OnePostingPerMessage` is checked, and proved, of messages that name theirs:
`MessagesNameTheirAccount`); the rule learned from a string with a `_` or `%` in
it does not match that string (`CorrectionPrevails` excludes them); re-parenting
can make a cycle of a user's own categories; one transaction may be linked in
several transfers; the role in a token is nowhere read, and a login always says
USER; with a pool as small as the requests in progress, only the pool's timeout
lets them go.

Runs that end in a counterexample. Each states a sentence of the repository that
the code does not keep; `PROJECT.json` quotes it.

| Run | What happens |
| --- | --- |
| `ledger_drift` | the later of two overlapping postings erases the earlier from the balance |
| `ingest_poison` | a lost race on a stub account drops the rest of the batch |
| `rate_shared` | the limiter runs before authentication, so users behind one address share one allowance |
| `reporting_linked` | a transaction linked as one side of a transfer is still reported as income or expense |

Two things a reader of the limiter may expect and `rate_limit` does not claim. A
minute may see twice the limit (the end of one window and the start of the next;
`TwiceTheLimitAtMost` says never more). And `MAX_TRACKED_KEYS` does not bound the
table: within a window no counter has elapsed, so none is dropped however many
there are (`Kept`).

**Fairness.** `FairIngestionSpec` assumes that the server keeps running each
request it accepted (weak fairness of every handler's steps: threads are
preemptive, and a restart is the only thing that ends one early) and that the
user asks for a reprocessing again and again whenever there is something to
reprocess (strong fairness, since a handler is free only now and then; without
that user nothing in the system would pick a message up again). No other client
is assumed to do anything. Restarts are bounded and not fair.

`FairAccessSpec` assumes the same of the threads (weak fairness of every
request's steps, the pool's timeout among them), and strong fairness of
`respond`: the event loop serves its callbacks in turn, but it stands still
whenever a middleware query waits, so a response can go out again and again
rather than all the time. Without `pool_timeout` two requests that each hold a
connection wait for ever (the mutant of `RequestsAnswered`). No client is assumed
to do anything.

## 4. What is proved

For every number of handlers, accounts, banks, callers, users, texts,
requests and amounts, from the assumptions named in the modules
(`MoneyAssumption`, `AccountsAssumption`, `LedgerAssumption`,
`IngestionAssumption`, `ReportingAssumption`, `CatalogueAssumption`,
`AccessAssumption`, `RateAssumption`: the constants have the shapes the request models enforce,
the initial table satisfies the constraint, NULL is none of the values):

| Theorem | States |
| --- | --- |
| `AccountsTypeCorrect` | `AccountsSpec => []AccountsTypeOK` |
| `AccountsUniqueIdentity` | `AccountsSpec => []UniqueIdentity` |
| `AccountsTrailTells` | `AccountsSpec => []TrailTells` |
| `AccountsOldWasStored` | `AccountsSpec => []OldWasStored` |
| `LedgerTypeCorrect` | `LedgerSpec => []LedgerTypeOK` |
| `LedgerNoDoublePosting` | `LedgerSpec => []NoDoublePosting` |
| `LedgerUniqueIdentity` | `LedgerSpec => []UniqueIdentity` |
| `LedgerNoUnauditedEdit` | `LedgerSpec => NoUnauditedEdit` |
| `LedgerOnlyStalePatchRevives` | `LedgerSpec => OnlyStalePatchRevives` |
| `LedgerDriftIsLostPostings` | `LedgerSpec => []DriftIsLostPostings` |
| `LedgerTrailTells` | `LedgerSpec => []TrailTells` |
| `LedgerOldWasStored` | `LedgerSpec => []OldWasStored` |
| `LedgerDepartsOnlyOvertaken` | `LedgerSpec => OnlyOvertakenDepart` |
| `IngestionTypeCorrect` | `IngestionSpec => []IngestionTypeOK` |
| `IngestionStatusTellsTruth` | `IngestionSpec => []StatusTellsTruth` |
| `IngestionAnnouncedIsPosted` | `IngestionSpec => []AnnouncedIsPosted` |
| `IngestionOnlyPoisonDrops` | `IngestionSpec => OnlyPoisonDropsMessages` |
| `IngestionNoDoublePosting` | `IngestionSpec => []NoDoublePosting` |
| `IngestionOnePosting` | if `MessagesNameTheirAccount`, `IngestionSpec => []OnePostingPerMessage` |
| `IngestionNeverTakenBack` | `IngestionSpec => NeverTakenBack` |
| `ReportingTypeCorrect` | `ReportingSpec => []ReportingTypeOK` |
| `ReportingCountsCover` | `ReportingSpec => CountsCoverWhatIsShown` |
| `ReportingReportsAgree` | `ReportingSpec => []ReportsAgree` |
| `ReportingEditsTell` | `ReportingSpec => []EditsTell` |
| `CatalogueTypeCorrect` | `CatalogueSpec => []CatalogueTypeOK` |
| `CatalogueTwinsAreBounded` | `CatalogueSpec => []TwinsAreBounded` |
| `CatalogueCorrectionPrevails` | `CatalogueSpec => []CorrectionPrevails` |
| `CatalogueCategoriesStayPrivate` | `CatalogueSpec => []CategoriesStayPrivate` |
| `CatalogueNobodyElseRefiled` | `CatalogueSpec => NobodyElseRefiled` |
| `CatalogueOnlyOverlapLosesReview` | `CatalogueSpec => OnlyOverlapLosesReview` |
| `AccessTypeCorrect` | `AccessSpec => []AccessTypeOK` |
| `AccessOneUserPerEmail` | `AccessSpec => []OneUserPerEmail` |
| `AccessLoginEnds` | `AccessSpec => []LoginEnds` |
| `AccessRevocationIsFinal` | `AccessSpec => RevocationIsFinal` |
| `AccessOnlyRoleOrRaceLocksOut` | `AccessSpec => OnlyRoleOrRaceLocksOut` |
| `RateTypeCorrect` | `RateSpec => []RateTypeOK` |
| `RateRefusedHasSpent` | `RateSpec => []RefusedHasSpent` |
| `RateTwiceTheLimitAtMost` | `RateSpec => []TwiceTheLimitAtMost` |
| `RateRetryAfterSuffices` | `RateSpec => []RetryAfterSuffices` |

The argument. `AccountsInd` strengthens the type invariant with what a handler
holds between its read and its write: a target that is stored, a change over
the columns its request may write, a copy that was live when it was read. The
properties are not inductive without it, since the write of a change is only
well typed if the change is. `UniqueIdentity` is then preserved because the
constraint is evaluated in the step that writes. `TrailTells` needs what
`SinceInd` says, that every transaction in progress began when the trail was no
longer than it is: a step either appends an entry that tells what it wrote, column
by column, which everything told before began before, or touches no editable
column (`TrailExtends`; `Records` is what a step that appends does). For
`OldWasStored`, `HeldInd` says that the table holds what was told last and that an
edit in progress holds what its column held when its transaction began or since:
`Held` speaks of a stretch of the trail, which grows at its end while the edit runs
(`HeldUntilLater`). `LedgerInd` adds the same for postings and
reconciliations (`HandlerInd`); `TablesMove` collects what their writes may do to
the tables, and is what the account theorems are carried over with. What is said
of edits goes through `EditsCommit`: the only steps that change a stored row's
editable columns are the two UPDATEs, each with its entry in the trail. `EditInd`
says what a handler that holds a PATCH of the status knows of the copy it decided
on, which is what `LedgerOnlyStalePatchRevives` blames.

`LedgerDepartsOnlyOvertaken` is the refinement for any number of handlers, and
names the steps in which it fails. A handler whose copy agrees with the row in what
the book shows takes the abstract step (`EditRefines`, `PostRefines`); the writes of
an archive and of a reconciliation take theirs whatever happened to the row, since
they read nothing of the copy that could mislead them (`ReconcileRefines`: a
reconciliation that is not written leaves the book alone). One that was overtaken is
what the theorem leaves out.

Ingestion writes the status of a message in a commit of its own, after the one
it tells of. `IngestionInd` bridges the two: `AtWork(t)` says what handler `t`
has in hand at each step of a message, in particular that the outcome it is about
to mark is `Tellable`, and since transactions are only ever added, what was
tellable once stays so whatever the others, a restart or another parser do.
`Undelivered` says that the events in the buffers, and what Telegram was told,
are all different transactions of messages: a handler appends the row it has just
committed, and `flush` removes the event it hands over; what a failed commit
leaves in the buffer names no transaction and is never announced.

`IngestionOnePosting` goes furthest. The unique index keeps one
account from two postings of a message, so a second posting would need another
account; `NoTwins` says that no two accounts have digits that messages name,
`AsRead` that a transaction of a message is on an account of its digits, and
`OnTheWay` that a handler about to insert a stub would make a twin of whatever
has its digits meanwhile, so that the constraint refuses it. The theorem has a
hypothesis, `MessagesNameTheirAccount`, on constants alone: every message names
its digits and bank, all parsers read one payment out of it, messages of one
account ask for one stub, and users neither create nor move accounts onto those
digits. Each conjunct is needed: without a bank the constraint takes two stubs
for different (NULLs), without digits no account is ever found again, and a user
may put a second account of another type beside the first. `MCIngestion` assumes
it of the instances it runs, so TLC evaluates it there.

`IngestionNeverTakenBack` is about a status that nobody looks at again: a
reprocessing works on what it picked, and another request may have settled one of
those messages since. `ReadsAlike` is why it does no harm. Of every message that a
handler is about to parse without having looked at its status again (`Unlooked`), if
it is settled, the parser that runs reads a payment out of it: it was settled by the
same release, since a restart that brings another one ends every list that was
picked before. A step of a message writes that message's status only (`HeadOnly`),
and one that is parsed as a payment ends up settled or keeps its status.

The limiter's table says how many requests a window has counted, its answers say
who was served, and nothing in the code relates the two. `Backed` does: every
counter has that many answers behind it (up to the limit), served under its key
since its window began. It is inductive because a window only grows by a request
that is answered in the same step, and a refusal reads the counter it just
raised. `PaceInd` adds where the requests answered so far stand (`Placed`): in
the window their key still has; before it, with one earlier window's worth of
requests served since; under a key that was evicted, which can only be once its
window is over, with one window's worth; or a whole window ago, when no more can
be added to theirs. `RetryCovers` ties a refusal to the end of its window.

The three other invariants have one plan. `HeldAt` says what a request holds at
each step, over the tables as they are; `Moves` what a step may do to them;
`HeldStays` that what the others hold outlives it, because rows are never deleted
and what was checked of them never changes back. Each action is then one lemma.

`AccessInd` adds to it that a token names a registered user and lives no longer
than a refresh lifetime from its login on, an access token one of its own longer:
`LoginEnds` follows, since a refresh never makes a refresh token. `KeysInd` is
what revocation needs: a revoked key is inactive, and a copy that shows it
inactive is right, for nothing makes a key active again. For
`OnlyRoleOrRaceLocksOut`, whoever disables the last administrator is somebody
else, so no longer one.

`CatalogueInd` is about references: what a category, a filing, a pattern points
at is visible to its owner. `TwinsInd` counts: the rows that share a name,
together with the requests that have found none and will still write one, are at
most as many as the requests in progress (`Room`). A request that is let past the
check found none, so those before it are all requests. `RoundedUnit` and
`RoundedPercentage` bound what `parse_confidence` stores.
`CorrectionPrevails` needs the learned pattern to match its string
(`LearnedText`) and nothing of the other patterns.

`ReportingInd` says that the trail tells the table (`Shows`, with `BeganBy` for the
sessions, as for accounts) and that a balance holds postings of its account only; a
posting writes a copy that does, and one more. A PATCH may append two entries at
once, one per changed field.

**Sums.** Balances and reports are sums over sets of transactions, and the
library's induction theorems take an operator that no installed prover can
instantiate. `Sums` goes round it. `Total(S, f)` is the sum of a *function* `f`
over a finite set, written as the fold the community modules write it; what is
needed of it (a step adds one weight, disjoint parts add up, equal weights give
equal totals, ones count) is proved with a fixed set of counterexamples in place
of the induction's operator (`SubsetInduction`, from the well-foundedness of the
strict-subset order). `FoldIsTotal` ties it to `MapThenSumSet`, in which the
modules are written.

`LedgerDriftIsLostPostings` says what overlapping postings can do to a balance at
worst. Its invariant, `DriftInd`, speaks of the stored balance and of the copy
that each posting handler will write: each is the opening balance with the
effects of some of the account's postings, and the stored one's include the
latest. A posting writes its copy's postings and itself, so the ones the copy did
not know of are lost and nothing else is; the weights are
signed amounts and the claim is about a sum, so a witness (the set of postings)
is carried through every step. `ledger_drift` shows that the witness need not be
all of the postings.

`ReportingReportsAgree` compares reports that are computed in different ways.
Spending by category and expenses, and the months and all that is dated, are one
set cut into parts (`TotalParts`); a month's scope is that of its first to its last
date (`MonthScope`); an account's worth is its start and the directed amounts of
its postings, with the sign its type gives them (`WorthOfOne`, `FlowIsDirected`).
The invariant it needs of the state is only that there are finitely many
transactions, and that balances hold postings of their own account.

Only model-checked: liveness (`StoredIsDecided`, `RequestsAnswered`), since the
prover does not reason about fairness or ENABLED; `ImplementsAbstractLedger`,
`ArchivedIsTerminal` and `StatusLifecycle`, which hold of one request at a time only
(what is proved instead is what overlapping requests leave of them); and the
properties that the code does not keep.

## 5. What is not modelled

- Reads that decide nothing (lists of accounts, categories, merchants, messages
  and keys, the audit view, statistics, profile) are not actions: they change
  nothing, and each is one query.
- The parser is a function from messages to results per release. Which parser a
  sender selects and what its expressions extract is text processing, better
  served by the examples in `tests/`.
- Names, texts and currencies are left out where no rule of the modelled parts
  reads them. Net worth adds balances whatever their currency.
- Identifiers, hashes and digests are taken to be distinct for distinct things.
- Amounts are whole cents, as they are once `to_money` has rounded them on input;
  the converted amount a posting may store is read by nothing.
- The fall-back to the ingestion key of the environment, `user_sessions` and
  `capture_snapshot` (never called), HTTP clients and prompts, log formatting and
  masking, the static page, operator scripts, and the migrations beyond the
  constraints and the seeded categories they create.
