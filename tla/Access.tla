------------------------------- MODULE Access -------------------------------
(***************************************************************************)
(* Who may call the platform: users, tokens, administrators and ingestion   *)
(* keys (app/domains/{users,access}, app/core/jwt.py, app/api/{auth,admin,  *)
(* api_keys}.py), behind AuthenticationMiddleware and over the engine's     *)
(* connection pool.                                                        *)
(*                                                                         *)
(* A request to a protected path is authenticated on the event loop, with a *)
(* connection the middleware keeps until the response has gone out; its     *)
(* route runs on a thread and takes a second connection.  The queries of    *)
(* the middleware are synchronous, so while one waits for the pool the      *)
(* event loop stands still.  Routes decide on the user the middleware       *)
(* loaded and on the row they loaded themselves, and write the columns that *)
(* differ from that copy.                                                  *)
(***************************************************************************)
EXTENDS Integers, FiniteSets

CONSTANTS
    Threads,          \* requests that may be in progress at the same time
    UserIds, KeyIds,  \* identities of rows
    Emails,
    NULL,
    InitialUsers,     \* [UserIds -> User \cup {NULL}]
    InitialLogins,    \* users that have just logged in
    Requests,         \* what clients of this instance send
    PoolSizes,        \* pool_size + max_overflow of the engine: one of these
    AccessLifetime,   \* ACCESS_TOKEN_EXPIRE_MINUTES, in ticks
    RefreshLifetime,  \* REFRESH_TOKEN_EXPIRE_DAYS, in ticks
    MaxTime,          \* bound on the clock
    MaxRequests       \* bound on the requests that are accepted

UserRole == {"USER", "ADMIN"}
DEFAULT_USER_ROLE == "USER"

\* A row of `users`.  Nothing sets deleted_at; passwords are taken to match.
User == [email : Emails, role : UserRole, active : BOOLEAN]

\* A row of `user_api_keys`: revoked_at and last_used_at matter as set or not.
UserApiKey == [owner : UserIds, active : BOOLEAN,
               revoked : BOOLEAN, used : BOOLEAN]

Moments == 0 .. MaxTime + AccessLifetime + RefreshLifetime

\* A token with its claims; `since` is the login it descends from (no claim).
Token == [type : {"access", "refresh"}, user : UserIds, role : UserRole,
          exp : Moments, since : 0 .. MaxTime]

AdminRequest == [kind : {"role"}, target : UserIds, value : UserRole]
                \cup [kind : {"status"}, target : UserIds, value : BOOLEAN]
KeyRequest == [kind : {"issue"}] \cup [kind : {"revoke"}, target : KeyIds]
PublicRequest == [kind : {"register"}, email : Emails]
                 \cup [kind : {"login"}, target : UserIds]
                 \cup [kind : {"refresh"}] \cup [kind : {"ingest"}, target : KeyIds]
Request == AdminRequest \cup KeyRequest \cup PublicRequest

PUBLIC == {"register", "login", "refresh", "ingest"}

ASSUME AccessAssumption ==
    /\ NULL \notin UserIds \cup KeyIds \cup User \cup UserApiKey \cup Token \cup Request
    /\ InitialUsers \in [UserIds -> User \cup {NULL}]
    /\ \A u, v \in UserIds :
          u # v /\ InitialUsers[u] # NULL /\ InitialUsers[v] # NULL
          => InitialUsers[u].email # InitialUsers[v].email
    /\ InitialLogins \subseteq {u \in UserIds : InitialUsers[u] # NULL}
    /\ Requests \subseteq Request
    /\ PoolSizes \subseteq Nat \ {0}
    /\ AccessLifetime \in Nat \ {0} /\ RefreshLifetime \in Nat \ {0}
    /\ MaxTime \in Nat /\ MaxRequests \in Nat

VARIABLES
    users, keys,  \* the tables
    tokens,       \* tokens clients hold and that have not expired
    clock,
    accepted,     \* how many requests have come
    poolSize,     \* the size of the pool, fixed
    conns,        \* connections checked out of the pool: <<request, holder>>
    pc, session   \* where each request is, and what it knows

accessVars == <<users, keys, tokens, clock, accepted, poolSize, conns,
                pc, session>>

NoSession == [token |-> NULL, request |-> NULL, seen |-> NULL]

Registered == {u \in UserIds : users[u] # NULL}
Issued == {k \in KeyIds : keys[k] # NULL}

-----------------------------------------------------------------------------
(* Tokens: core/jwt.py                                                     *)

Decodes(token, type) == token.type = type /\ clock < token.exp

create_access_token(user, role, since) ==
    [type |-> "access", user |-> user, role |-> role,
     exp |-> clock + AccessLifetime, since |-> since]

\* Mutant: the role claim is left out.
RefreshWithoutRole(user, role, since) ==
    [type |-> "refresh", user |-> user, role |-> NULL,
     exp |-> clock + RefreshLifetime, since |-> since]

create_refresh_token(user, role, since) ==
    [type |-> "refresh", user |-> user, role |-> role,
     exp |-> clock + RefreshLifetime, since |-> since]

create_token_pair(user, role, since) ==
    {create_access_token(user, role, since), create_refresh_token(user, role, since)}

AccessInit ==
    /\ users = InitialUsers
    /\ clock = 0
    /\ keys = [k \in KeyIds |-> NULL]
    /\ tokens = UNION {create_token_pair(u, DEFAULT_USER_ROLE, 0) : u \in InitialLogins}
    /\ accepted = 0
    /\ poolSize \in PoolSizes
    /\ conns = {}
    /\ pc = [t \in Threads |-> "idle"]
    /\ session = [t \in Threads |-> NoSession]

-----------------------------------------------------------------------------
(* The pool and the event loop.                                            *)

Free == Cardinality(conns) < poolSize

Take(t, holder) == Free /\ conns' = conns \cup {<<t, holder>>}

Return(t, holder) == conns' = conns \ {<<t, holder>>}

\* Nobody's middleware query is waiting for a connection.
LoopFree == \A t \in Threads : pc[t] # "authenticate"

\* A request comes in.
Accept(t) == /\ pc[t] = "idle" /\ LoopFree
             /\ accepted < MaxRequests
             /\ accepted' = accepted + 1

\* Request t goes on to `next`; once it is answered nothing of it matters.
GoTo(t, next) ==
    /\ pc' = [pc EXCEPT ![t] = next]
    /\ session' = IF next \in {"respond", "idle"}
                  THEN [session EXCEPT ![t] = NoSession] ELSE session

\* It goes on holding its copy of a row.
Hold(t, next, row) ==
    /\ pc' = [pc EXCEPT ![t] = next]
    /\ session' = [session EXCEPT ![t].seen = row]

\* It goes on with what it asks for, under a token.
Begin(t, next, r, token) ==
    /\ pc' = [pc EXCEPT ![t] = next]
    /\ session' = [session EXCEPT ![t] = [token |-> token, request |-> r, seen |-> NULL]]

\* Steps that begin by checking a connection out.
Waiting == {"authenticate", "route", "reload", "register", "login", "refresh",
            "ingest", "key_owner"}

\* Mutant: create_engine(..., pool_timeout=None).
wait_forever(t) == FALSE /\ UNCHANGED accessVars

\* QueuePool: TimeoutError after 30 s without a free connection, answered 500.
pool_timeout(t) ==
    /\ pc[t] \in Waiting
    /\ ~Free
    /\ GoTo(t, "respond")
    /\ UNCHANGED <<users, keys, tokens, clock, accepted, poolSize, conns>>

\* The response leaves through the event loop, and both sessions are closed.
respond(t) ==
    /\ pc[t] = "respond"
    /\ LoopFree
    /\ conns' = {c \in conns : c[1] # t}
    /\ GoTo(t, "idle")
    /\ UNCHANGED <<users, keys, tokens, clock, accepted, poolSize>>

-----------------------------------------------------------------------------
(* Refreshing tokens, and time.                                            *)

\* Mutant: a refresh answers with a new pair, as a login does.
Rotated(token) == create_token_pair(token.user, token.role, token.since)

\* What a refresh adds: an access token with the role of the refresh token.
Refreshed(token) == {create_access_token(token.user, token.role, token.since)}

\* Time passes.  A tick is minutes, a request at most the pool's timeout: none
\* is in progress across one.  A token that has expired is never decoded again.
tick ==
    /\ clock < MaxTime
    /\ \A t \in Threads : pc[t] = "idle"
    /\ clock' = clock + 1
    /\ tokens' = {token \in tokens : clock' < token.exp}
    /\ UNCHANGED <<users, keys, accepted, poolSize, conns, pc, session>>

-----------------------------------------------------------------------------
(* AuthenticationMiddleware                                                *)

\* A protected path with a live access token: decoded before any query.
dispatch(t) ==
    /\ Accept(t)
    /\ \E r \in Requests, token \in tokens :
          /\ r.kind \notin PUBLIC
          /\ Decodes(token, "access")
          /\ Begin(t, "authenticate", r, token)
    /\ UNCHANGED <<users, keys, tokens, clock, poolSize, conns>>

\* Mutant: an administrator may disable anybody.
AdminMay(user, caller, r) == caller.role = "ADMIN"

\* require_role on the loaded record, and the guard of set_user_active.
Admitted(user, caller, r) ==
    r.kind \in {"role", "status"} =>
        /\ caller.role = "ADMIN"
        /\ ~(r.kind = "status" /\ r.target = user /\ ~r.value)

\* The record of the caller; the connection stays out until the response.
authenticate(t) ==
    LET s == session[t]
        row == users[s.token.user]
    IN  /\ pc[t] = "authenticate"
        /\ Take(t, "middleware")
        /\ GoTo(t, IF row.active /\ Admitted(s.token.user, row, s.request)
                   THEN "route" ELSE "respond")
        /\ UNCHANGED <<users, keys, tokens, clock, accepted, poolSize>>

\* A public path goes to its route at once.
dispatch_public(t) ==
    /\ Accept(t)
    /\ \E r \in Requests :
          /\ r.kind \in PUBLIC
          /\ IF r.kind = "refresh"
             THEN \E token \in tokens :
                     /\ Decodes(token, "refresh")
                     /\ Begin(t, r.kind, r, token)
             ELSE Begin(t, r.kind, r, NULL)
    /\ UNCHANGED <<users, keys, tokens, clock, poolSize, conns>>

-----------------------------------------------------------------------------
(* PATCH /admin/users/{id}/role and .../status                             *)

\* _load_user
load_user(t) ==
    LET r == session[t].request
    IN  /\ pc[t] = "route" /\ r.kind \in {"role", "status"}
        /\ Take(t, "route")
        /\ IF r.target \in Registered
           THEN Hold(t, "user_write", users[r.target])
           ELSE GoTo(t, "respond")
        /\ UNCHANGED <<users, keys, tokens, clock, accepted, poolSize>>

\* The column is written if it differs from the copy; the commit returns the
\* connection.
user_write(t) ==
    LET r == session[t].request
        seen == session[t].seen
    IN  /\ pc[t] = "user_write"
        /\ users' = IF r.kind = "role"
                    THEN IF r.value # seen.role
                         THEN [users EXCEPT ![r.target].role = r.value] ELSE users
                    ELSE IF r.value # seen.active
                         THEN [users EXCEPT ![r.target].active = r.value] ELSE users
        /\ Return(t, "route")
        /\ GoTo(t, "reload")
        /\ UNCHANGED <<keys, tokens, clock, accepted, poolSize>>

\* session.refresh after the commit, for the response.
reload(t) ==
    /\ pc[t] = "reload"
    /\ Take(t, "route")
    /\ GoTo(t, "respond")
    /\ UNCHANGED <<users, keys, tokens, clock, accepted, poolSize>>

-----------------------------------------------------------------------------
(* /api-keys                                                               *)

issue(t) ==
    /\ pc[t] = "route" /\ session[t].request.kind = "issue"
    /\ Free
    /\ \/ \E k \in KeyIds \ Issued :
             keys' = [keys EXCEPT ![k] = [owner |-> session[t].token.user,
                         active |-> TRUE, revoked |-> FALSE, used |-> FALSE]]
       \/ Issued = KeyIds /\ UNCHANGED keys   \* bound: no identity left
    /\ GoTo(t, "reload")
    /\ UNCHANGED <<users, tokens, clock, accepted, poolSize, conns>>

OwnedKey(k, user) == k \in Issued /\ keys[k].owner = user

revoke(t) ==
    LET s == session[t]
    IN  /\ pc[t] = "route" /\ s.request.kind = "revoke"
        /\ Take(t, "route")
        /\ IF OwnedKey(s.request.target, s.token.user)
           THEN Hold(t, "revoke_write", keys[s.request.target])
           ELSE GoTo(t, "respond")
        /\ UNCHANGED <<users, keys, tokens, clock, accepted, poolSize>>

\* revoked_at is written whatever the copy said, is_active if it differs.
revoke_write(t) ==
    LET k == session[t].request.target
    IN  /\ pc[t] = "revoke_write"
        /\ keys' = [keys EXCEPT ![k].revoked = TRUE,
                                ![k].active = IF session[t].seen.active THEN FALSE ELSE @]
        /\ Return(t, "route")
        /\ GoTo(t, "reload")
        /\ UNCHANGED <<users, tokens, clock, accepted, poolSize>>

-----------------------------------------------------------------------------
(* X-API-KEY: get_ingestion_user                                           *)

\* SELECT ... WHERE revoked_at IS NULL, then is_active and the secret.
key_lookup(t) ==
    LET k == session[t].request.target
    IN  /\ pc[t] = "ingest"
        /\ Take(t, "route")
        /\ IF k \in Issued /\ ~keys[k].revoked /\ keys[k].active
           THEN Hold(t, "key_touch", keys[k])
           ELSE GoTo(t, "respond")
        /\ UNCHANGED <<users, keys, tokens, clock, accepted, poolSize>>

\* Mutant: every column of the copy is written back.
TouchedAll(row, seen) == [seen EXCEPT !.used = TRUE]

\* UPDATE ... SET last_used_at
Touched(row, seen) == [row EXCEPT !.used = TRUE]

key_touch(t) ==
    LET k == session[t].request.target
    IN  /\ pc[t] = "key_touch"
        /\ keys' = [keys EXCEPT ![k] = Touched(@, session[t].seen)]
        /\ Return(t, "route")
        /\ GoTo(t, "key_owner")
        /\ UNCHANGED <<users, tokens, clock, accepted, poolSize>>

\* The owner of the key, read after the commit; then the ingestion itself.
key_owner(t) ==
    LET owner == keys[session[t].request.target].owner
    IN  /\ pc[t] = "key_owner"
        /\ Take(t, "route")
        /\ GoTo(t, IF users[owner].active THEN "ingesting" ELSE "respond")
        /\ UNCHANGED <<users, keys, tokens, clock, accepted, poolSize>>

\* The pipeline commits its messages (module Ingestion).
ingesting(t) ==
    /\ pc[t] = "ingesting"
    /\ GoTo(t, "respond")
    /\ UNCHANGED <<users, keys, tokens, clock, accepted, poolSize, conns>>

-----------------------------------------------------------------------------
(* /auth                                                                   *)

EmailTaken(email) == \E u \in Registered : users[u].email = email

register_check(t) ==
    /\ pc[t] = "register"
    /\ Take(t, "route")
    /\ GoTo(t, IF EmailTaken(session[t].request.email)
               THEN "respond" ELSE "register_insert")
    /\ UNCHANGED <<users, keys, tokens, clock, accepted, poolSize>>

\* Mutant: the index is not unique.
NoIndex(email) == FALSE

\* idx_users_email refuses the flush: UserAlreadyExistsError, rollback.
IndexRefuses(email) == EmailTaken(email)

\* The user and its settings, in one commit.
register_insert(t) ==
    LET email == session[t].request.email
    IN  /\ pc[t] = "register_insert"
        /\ IF IndexRefuses(email) \/ Registered = UserIds  \* bound: no identity left
           THEN UNCHANGED users
           ELSE LET u == CHOOSE id \in UserIds \ Registered : TRUE
                IN  users' = [users EXCEPT ![u] = [email |-> email,
                                 role |-> DEFAULT_USER_ROLE, active |-> TRUE]]
        /\ Return(t, "route")
        /\ GoTo(t, "respond")
        /\ UNCHANGED <<keys, tokens, clock, accepted, poolSize>>

\* No role is passed on: every pair says DEFAULT_USER_ROLE.
login_user(t) ==
    LET u == session[t].request.target
    IN  /\ pc[t] = "login"
        /\ Take(t, "route")
        /\ tokens' = IF u \in Registered /\ users[u].active
                     THEN tokens \cup create_token_pair(u, DEFAULT_USER_ROLE, clock)
                     ELSE tokens
        /\ GoTo(t, "respond")
        /\ UNCHANGED <<users, keys, clock, accepted, poolSize>>

refresh_access_token(t) ==
    LET token == session[t].token
    IN  /\ pc[t] = "refresh"
        /\ Take(t, "route")
        /\ tokens' = IF users[token.user].active THEN tokens \cup Refreshed(token)
                     ELSE tokens
        /\ GoTo(t, "respond")
        /\ UNCHANGED <<users, keys, clock, accepted, poolSize>>

-----------------------------------------------------------------------------
HandlerStep(t) ==
    \/ authenticate(t) \/ pool_timeout(t)
    \/ load_user(t) \/ user_write(t) \/ reload(t)
    \/ issue(t) \/ revoke(t) \/ revoke_write(t)
    \/ key_lookup(t) \/ key_touch(t) \/ key_owner(t) \/ ingesting(t)
    \/ register_check(t) \/ register_insert(t)
    \/ login_user(t) \/ refresh_access_token(t)

AccessStep(t) == dispatch(t) \/ dispatch_public(t) \/ HandlerStep(t) \/ respond(t)

AccessNext == tick \/ \E t \in Threads : AccessStep(t)

AccessSpec == AccessInit /\ [][AccessNext]_accessVars

\* Threads are preemptive and the event loop serves its callbacks in turn, so a
\* response that can go out again and again does.
FairAccessSpec ==
    /\ AccessSpec
    /\ \A t \in Threads : WF_accessVars(HandlerStep(t)) /\ SF_accessVars(respond(t))

-----------------------------------------------------------------------------
(* Properties.                                                             *)

AccessSteps == Waiting \cup {"idle", "respond", "user_write", "revoke_write",
                             "key_touch", "ingesting", "register_insert"}

Session == [token : Token \cup {NULL}, request : Requests \cup {NULL},
            seen : User \cup UserApiKey \cup {NULL}]

\* Tables, tokens and requests are well formed (users/models.py,
\* access/models.py, the claims of core/jwt.py).
AccessTypeOK ==
    /\ users \in [UserIds -> User \cup {NULL}]
    /\ keys \in [KeyIds -> UserApiKey \cup {NULL}]
    /\ tokens \subseteq Token
    /\ clock \in 0 .. MaxTime
    /\ accepted \in 0 .. MaxRequests
    /\ poolSize \in PoolSizes
    /\ conns \subseteq Threads \X {"middleware", "route"}
    /\ pc \in [Threads -> AccessSteps]
    /\ session \in [Threads -> Session]

\* Two registrations of one address never both succeed, although both may have
\* found it free (register_user's pre-check, idx_users_email behind it).
OneUserPerEmail ==
    \A u, v \in Registered : users[u].email = users[v].email => u = v

\* A login ends: however often its tokens are refreshed, no request made with
\* one of them is let in after the lifetimes of a refresh and of an access token
\* have passed (refresh tokens are not rotated and decode_token asks for the
\* type it expects).
LoginEnds ==
    \A t \in Threads :
        session[t].token # NULL =>
            clock < session[t].token.since + RefreshLifetime + AccessLifetime

\* A revoked key stays revoked, whatever requests that still hold an older copy
\* of its row write (authenticate updates last_used_at after its lookup).
RevocationIsFinal ==
    [][\A k \in Issued : keys[k].revoked =>
          keys'[k].revoked /\ ~keys'[k].active]_accessVars

Administrators == {u \in Registered : users[u].role = "ADMIN" /\ users[u].active}

\* The platform loses its last administrator only by a change of role, or when
\* two administrators disable one another at the same time: disabling alone,
\* one request after the other, always leaves the one who asked
\* (set_user_active refuses the caller's own account).
OnlyRoleOrRaceLocksOut ==
    [][Administrators # {} /\ Administrators' = {} =>
          \E t \in Threads :
              /\ pc[t] = "user_write"
              /\ \/ session[t].request.kind = "role"
                 \/ /\ session[t].token.user # session[t].request.target
                    /\ session[t].token.user \notin Administrators]_accessVars

\* Every request is answered although requests hold one connection while they
\* wait for another, and a waiting middleware stops the event loop that would
\* return them: only the pool's timeout lets go (db/session.py sets none, so the
\* engine's default of 30 s applies).
RequestsAnswered == \A t \in Threads : pc[t] # "idle" ~> pc[t] = "idle"
=============================================================================
