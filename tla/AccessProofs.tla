---------------------------- MODULE AccessProofs ----------------------------
(***************************************************************************)
(* Theorems of Access, for every set of users, keys and requests, every     *)
(* size of the pool and all lifetimes.                                     *)
(***************************************************************************)
EXTENDS Access, TLAPS

-----------------------------------------------------------------------------
(* The inductive invariant.                                                *)

\* A token names a registered user and, from its login on, lives at most a
\* refresh lifetime, an access token one of its own longer.
Bounded(token, registered, now) ==
    /\ token \in Token
    /\ token.user \in registered
    /\ now < token.exp
    /\ token.exp <= token.since + RefreshLifetime
                    + (IF token.type = "access" THEN AccessLifetime ELSE 0)

\* What a request with session s holds at a step.
HeldAt(step, s, registered, issued, now) ==
    /\ s.token # NULL => Bounded(s.token, registered, now)
    /\ step = "idle" => s = NoSession
    /\ step \in {"authenticate", "route"} =>
          s.request \in Requests /\ s.request.kind \notin PUBLIC
    /\ step \in {"authenticate", "route", "user_write", "refresh"} => s.token # NULL
    /\ step = "refresh" => s.token.type = "refresh"
    /\ step = "user_write" =>
          /\ s.request \in Requests /\ s.request.kind \in {"role", "status"}
          /\ s.request.target \in registered
    /\ step \in {"route", "user_write"} /\ s.request.kind = "status" /\ ~s.request.value =>
          s.request.target # s.token.user
    /\ step \in {"revoke_write", "key_touch", "key_owner"} => s.request.target \in issued
    /\ step \in {"register", "register_insert"} => s.request.email \in Emails

AccessInd ==
    /\ AccessTypeOK
    /\ OneUserPerEmail
    /\ \A token \in tokens : Bounded(token, Registered, clock)
    /\ \A t \in Threads : HeldAt(pc[t], session[t], Registered, Issued, clock)

LEMMA RequestShape ==
    ASSUME NEW r \in Requests
    PROVE  /\ r.kind \in {"role", "status"} => r.target \in UserIds
           /\ r.kind = "role" => r.value \in UserRole
           /\ r.kind = "status" => r.value \in BOOLEAN
           /\ r.kind = "register" => r.email \in Emails
           /\ r.kind \in {"role", "status", "issue", "revoke"} \cup PUBLIC
BY AccessAssumption DEF Request, AdminRequest, KeyRequest, PublicRequest, PUBLIC

\* A pair made now is typed and bounded.
LEMMA PairBounded ==
    ASSUME NEW u \in Registered, clock \in 0 .. MaxTime,
           NEW token \in create_token_pair(u, DEFAULT_USER_ROLE, clock)
    PROVE  Bounded(token, Registered, clock)
<1> USE AccessAssumption
<1>1. u \in UserIds /\ DEFAULT_USER_ROLE \in UserRole
  BY DEF Registered, DEFAULT_USER_ROLE, UserRole
<1>2. clock + AccessLifetime \in Moments /\ clock + RefreshLifetime \in Moments
  BY DEF Moments
<1> QED
  BY <1>1, <1>2 DEF create_token_pair, create_access_token, create_refresh_token,
     Bounded, Token

LEMMA RefreshedBounded ==
    ASSUME clock \in 0 .. MaxTime, NEW old, Bounded(old, Registered, clock), old.type = "refresh",
           NEW token \in Refreshed(old)
    PROVE  Bounded(token, Registered, clock)
<1> USE AccessAssumption
<1>1. old.user \in UserIds /\ old.role \in UserRole /\ old.since \in 0 .. MaxTime
      /\ old.exp \in Int
  BY DEF Bounded, Token, Moments
<1>2. clock + AccessLifetime \in Moments
  BY DEF Moments
<1>3. token = [type |-> "access", user |-> old.user, role |-> old.role,
               exp |-> clock + AccessLifetime, since |-> old.since]
  BY DEF Refreshed, create_access_token
<1>4. token \in Token
  BY <1>1, <1>2, <1>3 DEF Token
<1>5. clock < old.since + RefreshLifetime
  BY <1>1 DEF Bounded
<1> QED BY <1>1, <1>3, <1>4, <1>5 DEF Bounded

LEMMA AccessInitInd == AccessInit => AccessInd
<1> SUFFICES ASSUME AccessInit PROVE AccessInd
  OBVIOUS
<1> USE AccessAssumption DEF AccessInit
<1>1. clock \in 0 .. MaxTime /\ InitialLogins \subseteq Registered
  BY DEF Registered
<1>2. \A token \in tokens : Bounded(token, Registered, clock)
  BY <1>1, PairBounded
<1>3. AccessTypeOK
  <2>1. session \in [Threads -> Session]
    BY DEF Session, NoSession
  <2>2. pc \in [Threads -> AccessSteps]
    BY DEF AccessSteps
  <2> QED BY <1>1, <1>2, <2>1, <2>2 DEF AccessTypeOK, Bounded
<1>4. OneUserPerEmail
  BY DEF OneUserPerEmail, Registered
<1>5. \A t \in Threads : HeldAt(pc[t], session[t], Registered, Issued, clock)
  BY DEF HeldAt, NoSession
<1> QED BY <1>2, <1>3, <1>4, <1>5 DEF AccessInd

-----------------------------------------------------------------------------
(* Steps.                                                                  *)

\* What a step of request t may do to the tables, and to its own session.
Moves(t) ==
    /\ users' \in [UserIds -> User \cup {NULL}] /\ Registered \subseteq Registered'
    /\ keys' \in [KeyIds -> UserApiKey \cup {NULL}] /\ Issued \subseteq Issued'
    /\ OneUserPerEmail'
    /\ \A token \in tokens' : Bounded(token, Registered', clock')
    /\ clock' = clock /\ poolSize' = poolSize /\ accepted' \in 0 .. MaxRequests
    /\ conns' \subseteq Threads \X {"middleware", "route"}
    /\ \E next, s :
          /\ next \in AccessSteps
          /\ pc' = [pc EXCEPT ![t] = next] /\ session' = [session EXCEPT ![t] = s]
          /\ s \in Session /\ HeldAt(next, s, Registered', Issued', clock')

LEMMA BoundedStays ==
    ASSUME NEW token, Bounded(token, Registered, clock), Registered \subseteq Registered', clock' = clock
    PROVE  Bounded(token, Registered', clock')
BY DEF Bounded

LEMMA HeldStays ==
    ASSUME NEW step, NEW s, HeldAt(step, s, Registered, Issued, clock),
           Registered \subseteq Registered', Issued \subseteq Issued', clock' = clock
    PROVE  HeldAt(step, s, Registered', Issued', clock')
BY BoundedStays DEF HeldAt

LEMMA MovesKeep ==
    ASSUME AccessInd, NEW t \in Threads, Moves(t)
    PROVE  AccessInd'
<1>1. PICK next, s :
          /\ next \in AccessSteps
          /\ pc' = [pc EXCEPT ![t] = next] /\ session' = [session EXCEPT ![t] = s]
          /\ s \in Session /\ HeldAt(next, s, Registered', Issued', clock')
  BY DEF Moves
<1>2. /\ pc' \in [Threads -> AccessSteps]
      /\ session' \in [Threads -> Session]
  BY <1>1 DEF AccessInd, AccessTypeOK
<1>3. \A u \in Threads : HeldAt(pc'[u], session'[u], Registered', Issued', clock')
  <2> SUFFICES ASSUME NEW u \in Threads PROVE HeldAt(pc'[u], session'[u], Registered', Issued', clock')
    OBVIOUS
  <2>1. CASE u = t
    BY <1>1, <2>1 DEF AccessInd, AccessTypeOK
  <2>2. CASE u # t
    <3>1. pc'[u] = pc[u] /\ session'[u] = session[u]
      BY <1>1, <2>2 DEF AccessInd, AccessTypeOK
    <3>2. HeldAt(pc[u], session[u], Registered, Issued, clock)
      BY DEF AccessInd
    <3>3. HeldAt(pc[u], session[u], Registered', Issued', clock')
      BY <3>2, HeldStays DEF Moves
    <3> QED BY <3>1, <3>3
  <2> QED BY <2>1, <2>2
<1>4. tokens' \subseteq Token
  BY DEF Moves, Bounded
<1> QED BY <1>2, <1>3, <1>4 DEF AccessInd, AccessTypeOK, Moves

\* A step that leaves tables and tokens alone.
LEMMA QuietMoves ==
    ASSUME AccessInd, NEW t \in Threads, UNCHANGED <<users, keys, tokens, clock, poolSize>>,
           accepted' \in 0 .. MaxRequests,
           conns' \subseteq Threads \X {"middleware", "route"},
           NEW next \in AccessSteps, NEW s, s \in Session, HeldAt(next, s, Registered, Issued, clock),
           pc' = [pc EXCEPT ![t] = next], session' = [session EXCEPT ![t] = s]
    PROVE  Moves(t)
<1>1. Registered' = Registered /\ Issued' = Issued
  BY DEF Registered, Issued
<1>2. HeldAt(next, s, Registered', Issued', clock') /\ \A token \in tokens' : Bounded(token, Registered', clock')
  BY <1>1, HeldStays, BoundedStays DEF AccessInd
<1>3. OneUserPerEmail'
  BY <1>1 DEF AccessInd, OneUserPerEmail
<1> QED BY <1>1, <1>2, <1>3 DEF Moves, AccessInd, AccessTypeOK

\* The session a request has once it is answered, and while it goes on.
LEMMA GoToHeld ==
    ASSUME AccessInd, NEW t \in Threads, NEW next, GoTo(t, next),
           next \notin {"respond", "idle"} => HeldAt(next, session[t], Registered, Issued, clock)
    PROVE  \E s : /\ session' = [session EXCEPT ![t] = s]
                  /\ s \in Session /\ HeldAt(next, s, Registered, Issued, clock)
                  /\ next \in {"respond", "idle"} => s = NoSession
                  /\ next \notin {"respond", "idle"} => s = session[t]
<1>1. session[t] \in Session /\ session = [session EXCEPT ![t] = session[t]]
  BY DEF AccessInd, AccessTypeOK
<1>2. NoSession \in Session /\ \A step \in {"respond", "idle"} : HeldAt(step, NoSession, Registered, Issued, clock)
  BY DEF Session, HeldAt, NoSession
<1> QED BY <1>1, <1>2 DEF GoTo

\* A quiet step whose request goes on with the session it has, or is answered.
LEMMA QuietGoTo ==
    ASSUME AccessInd, NEW t \in Threads, UNCHANGED <<users, keys, tokens, clock, poolSize>>,
           UNCHANGED accepted, NEW next \in AccessSteps, GoTo(t, next),
           conns' \subseteq Threads \X {"middleware", "route"},
           next \notin {"respond", "idle"} => HeldAt(next, session[t], Registered, Issued, clock)
    PROVE  Moves(t)
<1>1. PICK s : /\ session' = [session EXCEPT ![t] = s]
               /\ s \in Session /\ HeldAt(next, s, Registered, Issued, clock)
  BY GoToHeld
<1>2. accepted' \in 0 .. MaxRequests
  BY DEF AccessInd, AccessTypeOK
<1>3. pc' = [pc EXCEPT ![t] = next]
  BY DEF GoTo
<1> QED BY <1>1, <1>2, <1>3, QuietMoves

\* The same for a step that keeps a copy of a row.
LEMMA QuietHold ==
    ASSUME AccessInd, NEW t \in Threads, UNCHANGED <<users, keys, tokens, clock, poolSize>>,
           UNCHANGED accepted, NEW next \in {"user_write", "revoke_write", "key_touch"},
           NEW row \in User \cup UserApiKey, Hold(t, next, row),
           conns' \subseteq Threads \X {"middleware", "route"},
           HeldAt(next, session[t], Registered, Issued, clock)
    PROVE  Moves(t)
<1> DEFINE s == [session[t] EXCEPT !.seen = row]
<1>1. session[t] \in Session /\ session' = [session EXCEPT ![t] = s]
  BY DEF AccessInd, AccessTypeOK, Hold
<1>2. s \in Session /\ s.token = session[t].token /\ s.request = session[t].request
  BY <1>1 DEF Session
<1>3. HeldAt(next, s, Registered, Issued, clock)
  BY <1>2 DEF HeldAt
<1>4. accepted' \in 0 .. MaxRequests /\ next \in AccessSteps
  BY DEF AccessInd, AccessTypeOK, AccessSteps, Waiting
<1>5. pc' = [pc EXCEPT ![t] = next]
  BY DEF Hold
<1> HIDE DEF s
<1> QED BY <1>1, <1>2, <1>3, <1>4, <1>5, QuietMoves

\* What is known of the request that takes a step.
LEMMA AtStep ==
    ASSUME AccessInd, NEW t \in Threads
    PROVE  /\ pc[t] \in AccessSteps /\ session[t] \in Session
           /\ HeldAt(pc[t], session[t], Registered, Issued, clock)
           /\ \A holder \in {"middleware", "route"} :
                 /\ Take(t, holder) => conns' \subseteq Threads \X {"middleware", "route"}
                 /\ Return(t, holder) => conns' \subseteq Threads \X {"middleware", "route"}
           /\ UNCHANGED conns => conns' \subseteq Threads \X {"middleware", "route"}
BY DEF AccessInd, AccessTypeOK, Take, Return

LEMMA RequestSteps ==
    ASSUME AccessInd, NEW t \in Threads,
           authenticate(t) \/ pool_timeout(t) \/ reload(t) \/ key_owner(t)
           \/ ingesting(t) \/ register_check(t) \/ respond(t)
    PROVE  Moves(t)
<1> USE AtStep DEF AccessSteps, Waiting
<1>1. CASE authenticate(t)
  <2> DEFINE next == IF /\ users[session[t].token.user].active
                        /\ Admitted(session[t].token.user, users[session[t].token.user],
                                    session[t].request)
                     THEN "route" ELSE "respond"
  <2>1. GoTo(t, next) /\ next \in AccessSteps /\ pc[t] = "authenticate"
    BY <1>1 DEF authenticate
  <2>2. next = "route" => HeldAt(next, session[t], Registered, Issued, clock)
    BY <1>1, RequestShape DEF authenticate, HeldAt, Admitted
  <2>3. conns' \subseteq Threads \X {"middleware", "route"}
    BY <1>1 DEF authenticate
  <2>4. next \notin {"respond", "idle"} => next = "route"
    OBVIOUS
  <2>5. UNCHANGED <<users, keys, tokens, clock, accepted, poolSize>>
    BY <1>1 DEF authenticate
  <2> HIDE DEF next
  <2> QED BY <2>1, <2>2, <2>3, <2>4, <2>5, QuietGoTo
<1>2. CASE pool_timeout(t)
  BY <1>2, QuietGoTo DEF pool_timeout
<1>3. CASE reload(t)
  BY <1>3, QuietGoTo DEF reload
<1>4. CASE key_owner(t)
  <2> DEFINE next == IF users[keys[session[t].request.target].owner].active
                     THEN "ingesting" ELSE "respond"
  <2>1. next \notin {"respond", "idle"} => HeldAt(next, session[t], Registered, Issued, clock)
    BY <1>4 DEF key_owner, HeldAt
  <2> QED BY <1>4, <2>1, QuietGoTo DEF key_owner
<1>5. CASE ingesting(t)
  BY <1>5, QuietGoTo DEF ingesting
<1>6. CASE register_check(t)
  <2> DEFINE next == IF EmailTaken(session[t].request.email)
                     THEN "respond" ELSE "register_insert"
  <2>1. next \notin {"respond", "idle"} => HeldAt(next, session[t], Registered, Issued, clock)
    BY <1>6 DEF register_check, HeldAt
  <2> QED BY <1>6, <2>1, QuietGoTo DEF register_check
<1>7. CASE respond(t)
  <2>1. conns' \subseteq Threads \X {"middleware", "route"}
    BY <1>7 DEF respond, AccessInd, AccessTypeOK
  <2> QED BY <1>7, <2>1, QuietGoTo DEF respond
<1> QED BY <1>1, <1>2, <1>3, <1>4, <1>5, <1>6, <1>7

LEMMA HoldSteps ==
    ASSUME AccessInd, NEW t \in Threads, load_user(t) \/ revoke(t) \/ key_lookup(t)
    PROVE  Moves(t)
<1> USE AtStep DEF AccessSteps, Waiting
<1>1. CASE load_user(t)
  <2>1. CASE session[t].request.target \in Registered
    <3>1. /\ Hold(t, "user_write", users[session[t].request.target])
          /\ users[session[t].request.target] \in User
      BY <1>1, <2>1 DEF load_user, Registered, AccessInd, AccessTypeOK
    <3>2. HeldAt("user_write", session[t], Registered, Issued, clock)
      BY <1>1, <2>1 DEF load_user, HeldAt
    <3> QED BY <1>1, <3>1, <3>2, QuietHold DEF load_user
  <2>2. CASE session[t].request.target \notin Registered
    BY <1>1, <2>2, QuietGoTo DEF load_user
  <2> QED BY <2>1, <2>2
<1>2. CASE revoke(t)
  <2>1. CASE OwnedKey(session[t].request.target, session[t].token.user)
    <3>1. /\ Hold(t, "revoke_write", keys[session[t].request.target])
          /\ session[t].request.target \in Issued
          /\ keys[session[t].request.target] \in UserApiKey
      BY <1>2, <2>1 DEF revoke, OwnedKey, Issued, AccessInd, AccessTypeOK
    <3>2. HeldAt("revoke_write", session[t], Registered, Issued, clock)
      BY <1>2, <3>1 DEF revoke, HeldAt
    <3> QED BY <1>2, <3>1, <3>2, QuietHold DEF revoke
  <2>2. CASE ~OwnedKey(session[t].request.target, session[t].token.user)
    BY <1>2, <2>2, QuietGoTo DEF revoke
  <2> QED BY <2>1, <2>2
<1>3. CASE key_lookup(t)
  <2> DEFINE k == session[t].request.target
  <2>1. CASE k \in Issued /\ ~keys[k].revoked /\ keys[k].active
    <3>1. Hold(t, "key_touch", keys[k]) /\ keys[k] \in UserApiKey
      BY <1>3, <2>1 DEF key_lookup, Issued, AccessInd, AccessTypeOK
    <3>2. HeldAt("key_touch", session[t], Registered, Issued, clock)
      BY <1>3, <2>1 DEF key_lookup, HeldAt
    <3> QED BY <1>3, <3>1, <3>2, QuietHold DEF key_lookup
  <2>2. CASE ~(k \in Issued /\ ~keys[k].revoked /\ keys[k].active)
    BY <1>3, <2>2, QuietGoTo DEF key_lookup
  <2> QED BY <2>1, <2>2
<1> QED BY <1>1, <1>2, <1>3

LEMMA DispatchSteps ==
    ASSUME AccessInd, NEW t \in Threads, dispatch(t) \/ dispatch_public(t)
    PROVE  Moves(t)
<1> USE AtStep, AccessAssumption DEF AccessSteps, Waiting, PUBLIC
<1>1. accepted' \in 0 .. MaxRequests /\ UNCHANGED <<users, keys, tokens, clock, poolSize, conns>>
  BY DEF dispatch, dispatch_public, Accept, AccessInd, AccessTypeOK
<1>2. PICK r \in Requests, token \in tokens \cup {NULL}, next \in AccessSteps :
          /\ Begin(t, next, r, token)
          /\ \/ next = "authenticate" /\ r.kind \notin PUBLIC /\ token \in tokens
             \/ next = "refresh" /\ token \in tokens /\ token.type = "refresh"
             \/ next \in PUBLIC \ {"refresh"} /\ next = r.kind /\ token = NULL
  BY DEF dispatch, dispatch_public, Decodes
<1> DEFINE s == [token |-> token, request |-> r, seen |-> NULL]
<1>3. s \in Session
  BY DEF Session, AccessInd, Bounded
<1>4. token \in tokens => Bounded(token, Registered, clock) /\ token # NULL
  BY DEF AccessInd, Bounded
<1>5. HeldAt(next, s, Registered, Issued, clock)
  BY <1>2, <1>4, RequestShape DEF HeldAt
<1>6. pc' = [pc EXCEPT ![t] = next] /\ session' = [session EXCEPT ![t] = s]
  BY <1>2 DEF Begin
<1>7. conns' \subseteq Threads \X {"middleware", "route"}
  BY <1>1
<1> HIDE DEF s
<1> QED BY <1>1, <1>3, <1>5, <1>6, <1>7, QuietMoves

\* A step that writes one table or adds tokens, and goes on.
LEMMA WriteMoves ==
    ASSUME AccessInd, NEW t \in Threads, UNCHANGED <<clock, accepted, poolSize>>,
           conns' \subseteq Threads \X {"middleware", "route"},
           users' \in [UserIds -> User \cup {NULL}], Registered \subseteq Registered',
           keys' \in [KeyIds -> UserApiKey \cup {NULL}], Issued \subseteq Issued',
           OneUserPerEmail',
           \A token \in tokens' : token \in tokens \/ Bounded(token, Registered', clock'),
           NEW next \in AccessSteps, GoTo(t, next),
           next \notin {"respond", "idle"} => HeldAt(next, session[t], Registered, Issued, clock)
    PROVE  Moves(t)
<1>1. PICK s : /\ session' = [session EXCEPT ![t] = s]
               /\ s \in Session /\ HeldAt(next, s, Registered, Issued, clock)
  BY GoToHeld
<1>2. HeldAt(next, s, Registered', Issued', clock')
  BY <1>1, HeldStays
<1>3. \A token \in tokens' : Bounded(token, Registered', clock')
  BY BoundedStays DEF AccessInd
<1>4. pc' = [pc EXCEPT ![t] = next] /\ accepted' \in 0 .. MaxRequests
  BY DEF GoTo, AccessInd, AccessTypeOK
<1> QED BY <1>1, <1>2, <1>3, <1>4 DEF Moves

LEMMA SameUsers ==
    ASSUME AccessInd, UNCHANGED users
    PROVE  /\ users' \in [UserIds -> User \cup {NULL}] /\ Registered' = Registered
           /\ OneUserPerEmail'
BY DEF AccessInd, AccessTypeOK, Registered, OneUserPerEmail

LEMMA SameKeys ==
    ASSUME AccessInd, UNCHANGED keys
    PROVE  keys' \in [KeyIds -> UserApiKey \cup {NULL}] /\ Issued' = Issued
BY DEF AccessInd, AccessTypeOK, Issued

LEMMA UserWriteMoves ==
    ASSUME AccessInd, NEW t \in Threads, user_write(t)
    PROVE  Moves(t)
<1> DEFINE r == session[t].request
           u == r.target
<1>1. /\ r \in Requests /\ r.kind \in {"role", "status"} /\ u \in Registered
      /\ GoTo(t, "reload")
  BY AtStep DEF user_write, HeldAt
<1>2. u \in UserIds /\ users[u] \in User
  BY <1>1 DEF Registered, AccessInd, AccessTypeOK
<1>3. \/ users' = users
      \/ users' = [users EXCEPT ![u].role = r.value] /\ r.value \in UserRole
      \/ users' = [users EXCEPT ![u].active = r.value] /\ r.value \in BOOLEAN
  BY <1>1, RequestShape DEF user_write
<1>4. \E row \in User : row.email = users[u].email /\ users' = [users EXCEPT ![u] = row]
  <2>1. CASE users' = users
    BY <1>2, <2>1 DEF AccessInd, AccessTypeOK
  <2>2. CASE users' = [users EXCEPT ![u].role = r.value] /\ r.value \in UserRole
    <3>1. [users[u] EXCEPT !.role = r.value] \in User
      BY <1>2, <2>2 DEF User
    <3> QED BY <1>2, <2>2, <3>1 DEF User
  <2>3. CASE users' = [users EXCEPT ![u].active = r.value] /\ r.value \in BOOLEAN
    <3>1. [users[u] EXCEPT !.active = r.value] \in User
      BY <1>2, <2>3 DEF User
    <3> QED BY <1>2, <2>3, <3>1 DEF User
  <2> QED BY <1>3, <2>1, <2>2, <2>3
<1>5. PICK row \in User : row.email = users[u].email /\ users' = [users EXCEPT ![u] = row]
  BY <1>4
<1>6. users' \in [UserIds -> User \cup {NULL}] /\ Registered' = Registered
  BY <1>1, <1>2, <1>5, AccessAssumption DEF Registered, AccessInd, AccessTypeOK
<1>7. \A v \in Registered : users'[v].email = users[v].email
  BY <1>2, <1>5 DEF Registered, AccessInd, AccessTypeOK
<1>8. OneUserPerEmail'
  BY <1>6, <1>7 DEF OneUserPerEmail, AccessInd
<1> HIDE DEF r, u
<1> QED
  BY <1>1, <1>6, <1>8, AtStep, SameKeys, WriteMoves
     DEF user_write, AccessInd, HeldAt, AccessSteps, Waiting

LEMMA KeyMoves ==
    ASSUME AccessInd, NEW t \in Threads, issue(t) \/ revoke_write(t) \/ key_touch(t)
    PROVE  Moves(t)
<1> DEFINE next == IF pc[t] = "key_touch" THEN "key_owner" ELSE "reload"
<1>1. /\ UNCHANGED <<users, tokens, clock, accepted, poolSize>>
      /\ GoTo(t, next) /\ next \in AccessSteps
      /\ conns' \subseteq Threads \X {"middleware", "route"}
  BY AtStep DEF issue, revoke_write, key_touch, AccessSteps, Waiting
<1>2. HeldAt(next, session[t], Registered, Issued, clock)
  BY AtStep DEF issue, revoke_write, key_touch, HeldAt
<1>3. keys' \in [KeyIds -> UserApiKey \cup {NULL}] /\ Issued \subseteq Issued'
  <2>1. CASE issue(t)
    <3>1. session[t].token.user \in UserIds
      BY <2>1, AtStep DEF issue, HeldAt, Bounded, Token
    <3> DEFINE row == [owner |-> session[t].token.user, active |-> TRUE,
                       revoked |-> FALSE, used |-> FALSE]
    <3>2. row \in UserApiKey
      BY <3>1 DEF UserApiKey
    <3>3. (\E k \in KeyIds \ Issued : keys' = [keys EXCEPT ![k] = row]) \/ UNCHANGED keys
      BY <2>1 DEF issue
    <3> HIDE DEF row
    <3>4. CASE UNCHANGED keys
      BY <3>4, SameKeys
    <3>5. ASSUME NEW k \in KeyIds \ Issued, keys' = [keys EXCEPT ![k] = row]
          PROVE  keys' \in [KeyIds -> UserApiKey \cup {NULL}] /\ Issued \subseteq Issued'
      BY <3>2, <3>5, AccessAssumption DEF AccessInd, AccessTypeOK, Issued
    <3> QED BY <3>3, <3>4, <3>5
  <2>2. ASSUME NEW k \in Issued, NEW row \in UserApiKey, keys' = [keys EXCEPT ![k] = row]
        PROVE  keys' \in [KeyIds -> UserApiKey \cup {NULL}] /\ Issued \subseteq Issued'
    BY <2>2, AccessAssumption DEF AccessInd, AccessTypeOK, Issued
  <2> DEFINE k == session[t].request.target
  <2>3. CASE revoke_write(t)
    <3>1. k \in Issued /\ keys[k] \in UserApiKey /\ k \in KeyIds
      BY <2>3, AtStep DEF revoke_write, HeldAt, Issued, AccessInd, AccessTypeOK
    <3> DEFINE row == [keys[k] EXCEPT !.revoked = TRUE,
                         !.active = IF session[t].seen.active THEN FALSE ELSE @]
    <3>2. row \in UserApiKey
      BY <3>1 DEF UserApiKey
    <3>3. keys' = [keys EXCEPT ![k] = row]
      BY <2>3, <3>1 DEF revoke_write, AccessInd, AccessTypeOK
    <3> HIDE DEF row, k
    <3> QED BY <2>2, <3>1, <3>2, <3>3
  <2>4. CASE key_touch(t)
    <3>1. k \in Issued /\ keys[k] \in UserApiKey /\ k \in KeyIds
      BY <2>4, AtStep DEF key_touch, HeldAt, Issued, AccessInd, AccessTypeOK
    <3> DEFINE row == [keys[k] EXCEPT !.used = TRUE]
    <3>2. row \in UserApiKey
      BY <3>1 DEF UserApiKey
    <3>3. keys' = [keys EXCEPT ![k] = row]
      BY <2>4, <3>1 DEF key_touch, Touched, AccessInd, AccessTypeOK
    <3> HIDE DEF row, k
    <3> QED BY <2>2, <3>1, <3>2, <3>3
  <2> QED BY <2>1, <2>3, <2>4
<1> HIDE DEF next
<1> QED BY <1>1, <1>2, <1>3, SameUsers, WriteMoves

LEMMA RegisterMoves ==
    ASSUME AccessInd, NEW t \in Threads, register_insert(t)
    PROVE  Moves(t)
<1> DEFINE email == session[t].request.email
           u == CHOOSE id \in UserIds \ Registered : TRUE
           row == [email |-> email, role |-> DEFAULT_USER_ROLE, active |-> TRUE]
<1>1. /\ users' \in [UserIds -> User \cup {NULL}] /\ Registered \subseteq Registered'
      /\ OneUserPerEmail'
  <2>1. CASE IndexRefuses(email) \/ Registered = UserIds
    <3>1. UNCHANGED users
      BY <2>1 DEF register_insert
    <3> QED BY <3>1, SameUsers
  <2>2. CASE ~(IndexRefuses(email) \/ Registered = UserIds)
    <3>1. users' = [users EXCEPT ![u] = row] /\ u \in UserIds \ Registered
      BY <2>2 DEF register_insert, Registered
    <3>2. email \in Emails
      BY AtStep DEF register_insert, HeldAt
    <3>3. row \in User /\ row.email = email
      BY <3>2 DEF User, UserRole, DEFAULT_USER_ROLE
    <3>4. \A v \in Registered : users[v].email # email
      BY <2>2 DEF IndexRefuses, EmailTaken
    <3> HIDE DEF row, u
    <3>5. /\ users' \in [UserIds -> User \cup {NULL}]
          /\ Registered' = Registered \cup {u}
      BY <3>1, <3>3, AccessAssumption DEF Registered, AccessInd, AccessTypeOK
    <3>6. users'[u] = row /\ \A v \in Registered : users'[v] = users[v]
      BY <3>1 DEF Registered, AccessInd, AccessTypeOK
    <3>7. OneUserPerEmail'
      BY <3>3, <3>4, <3>5, <3>6 DEF OneUserPerEmail, AccessInd
    <3> QED BY <3>5, <3>7
  <2> QED BY <2>1, <2>2
<1> HIDE DEF email, u, row
<1> QED
  BY <1>1, AtStep, SameKeys, WriteMoves
     DEF register_insert, AccessInd, AccessSteps, Waiting

LEMMA TokenMoves ==
    ASSUME AccessInd, NEW t \in Threads, login_user(t) \/ refresh_access_token(t)
    PROVE  Moves(t)
<1>1. /\ UNCHANGED <<users, keys, clock, accepted, poolSize>> /\ GoTo(t, "respond")
      /\ conns' \subseteq Threads \X {"middleware", "route"}
  BY AtStep DEF login_user, refresh_access_token
<1>2. clock \in 0 .. MaxTime /\ Registered' = Registered /\ "respond" \in AccessSteps
  BY <1>1 DEF AccessInd, AccessTypeOK, Registered, AccessSteps
<1>3. \A token \in tokens' : token \in tokens \/ Bounded(token, Registered, clock)
  <2>1. CASE login_user(t)
    BY <1>2, <2>1, PairBounded DEF login_user
  <2>2. CASE refresh_access_token(t)
    <3>1. Bounded(session[t].token, Registered, clock) /\ session[t].token.type = "refresh"
      BY <2>2, AtStep DEF refresh_access_token, HeldAt
    <3> QED BY <1>2, <2>2, <3>1, RefreshedBounded DEF refresh_access_token
  <2> QED BY <2>1, <2>2
<1> QED BY <1>1, <1>2, <1>3, SameUsers, SameKeys, WriteMoves

-----------------------------------------------------------------------------
(* The theorems.                                                           *)

LEMMA TickKeeps ==
    ASSUME AccessInd, tick
    PROVE  AccessInd'
<1>1. /\ clock' = clock + 1 /\ clock' \in 0 .. MaxTime
      /\ UNCHANGED <<users, keys, accepted, poolSize, conns, pc, session>>
  BY AccessAssumption DEF tick, AccessInd, AccessTypeOK
<1>2. Registered' = Registered /\ Issued' = Issued
  BY <1>1 DEF Registered, Issued
<1>3. \A token \in tokens' : Bounded(token, Registered', clock')
  BY <1>2 DEF tick, AccessInd, Bounded
<1>4. \A t \in Threads : HeldAt(pc'[t], session'[t], Registered', Issued', clock')
  <2> SUFFICES ASSUME NEW t \in Threads
               PROVE  HeldAt(pc[t], session[t], Registered', Issued', clock')
    BY <1>1
  <2>1. pc[t] = "idle" /\ session[t] = NoSession
    BY DEF tick, AccessInd, HeldAt
  <2> QED BY <2>1 DEF HeldAt, NoSession
<1>5. OneUserPerEmail'
  BY <1>1, <1>2 DEF AccessInd, OneUserPerEmail
<1>6. tokens' \subseteq Token
  BY <1>3 DEF Bounded
<1> QED BY <1>1, <1>3, <1>4, <1>5, <1>6 DEF AccessInd, AccessTypeOK

LEMMA AccessNextInd == AccessInd /\ [AccessNext]_accessVars => AccessInd'
<1> SUFFICES ASSUME AccessInd, [AccessNext]_accessVars PROVE AccessInd'
  OBVIOUS
<1>1. CASE tick
  BY <1>1, TickKeeps
<1>2. ASSUME NEW t \in Threads, AccessStep(t)
      PROVE  Moves(t)
  BY <1>2, RequestSteps, HoldSteps, DispatchSteps, UserWriteMoves, KeyMoves,
     RegisterMoves, TokenMoves DEF AccessStep, HandlerStep
<1>3. CASE UNCHANGED accessVars
  BY <1>3 DEF accessVars, AccessInd, AccessTypeOK, OneUserPerEmail, Registered, Issued
<1> QED BY <1>1, <1>2, <1>3, MovesKeep DEF AccessNext

THEOREM AccessInvariant == AccessSpec => []AccessInd
BY AccessInitInd, AccessNextInd, PTL DEF AccessSpec

\* Tables, tokens and requests are always well formed.
THEOREM AccessTypeCorrect == AccessSpec => []AccessTypeOK
<1>1. AccessInd => AccessTypeOK
  BY DEF AccessInd
<1> QED BY <1>1, AccessInvariant, PTL

\* No two users share an email address.
THEOREM AccessOneUserPerEmail == AccessSpec => []OneUserPerEmail
<1>1. AccessInd => OneUserPerEmail
  BY DEF AccessInd
<1> QED BY <1>1, AccessInvariant, PTL

\* A request is let in only within two lifetimes of the login behind its token.
THEOREM AccessLoginEnds == AccessSpec => []LoginEnds
<1>1. ASSUME AccessInd PROVE LoginEnds
  <2> SUFFICES ASSUME NEW t \in Threads, session[t].token # NULL
               PROVE  clock < session[t].token.since + RefreshLifetime + AccessLifetime
    BY DEF LoginEnds
  <2>1. Bounded(session[t].token, Registered, clock)
    BY <1>1 DEF AccessInd, HeldAt
  <2> QED BY <1>1, <2>1, AccessAssumption DEF Bounded, Token, Moments, AccessInd, AccessTypeOK
<1> QED BY <1>1, AccessInvariant, PTL

\* What makes revocation final: a revoked key is inactive, and a copy that
\* shows it inactive is right, for nothing makes a key active again.
KeysInd ==
    /\ \A k \in Issued : keys[k].revoked => ~keys[k].active
    /\ \A t \in Threads : pc[t] = "revoke_write" =>
          session[t].seen.active \/ ~keys[session[t].request.target].active

\* What a step may do to the keys that exist.
KeysKeep == \A k \in Issued :
                /\ keys[k].revoked => keys'[k].revoked
                /\ keys'[k].active => keys[k].active
                /\ keys'[k].revoked => keys[k].revoked \/ ~keys'[k].active

LEMMA KeysStep ==
    ASSUME AccessInd, KeysInd, NEW t \in Threads, AccessStep(t)
    PROVE  KeysKeep /\ \A k \in Issued' : k \in Issued \/ ~keys'[k].revoked
<1> USE AtStep
<1>1. CASE UNCHANGED keys
  BY <1>1 DEF KeysKeep, Issued
<1>2. CASE issue(t)
  <2>1. CASE UNCHANGED keys
    BY <2>1, <1>1
  <2>2. CASE ~UNCHANGED keys
    <3>1. PICK k \in KeyIds \ Issued :
             keys' = [keys EXCEPT ![k] = [owner |-> session[t].token.user,
                         active |-> TRUE, revoked |-> FALSE, used |-> FALSE]]
      BY <1>2, <2>2 DEF issue
    <3>2. keys'[k].revoked = FALSE /\ \A l \in KeyIds \ {k} : keys'[l] = keys[l]
      BY <3>1 DEF AccessInd, AccessTypeOK
    <3> QED BY <3>1, <3>2 DEF KeysKeep, Issued
  <2> QED BY <2>1, <2>2
<1> DEFINE k == session[t].request.target
<1>3. CASE revoke_write(t)
  <2>1. k \in Issued /\ k \in KeyIds /\ keys[k] \in UserApiKey
    BY <1>3 DEF revoke_write, HeldAt, Issued, AccessInd, AccessTypeOK
  <2>2. \A l \in KeyIds \ {k} : keys'[l] = keys[l]
    BY <1>3 DEF revoke_write, AccessInd, AccessTypeOK
  <2>3. keys'[k].revoked /\ ~keys'[k].active
    BY <1>3, <2>1 DEF revoke_write, KeysInd, AccessInd, AccessTypeOK, UserApiKey
  <2> HIDE DEF k
  <2>4. Issued' \subseteq Issued
    BY <2>1, <2>2 DEF Issued
  <2> QED BY <2>1, <2>2, <2>3, <2>4 DEF KeysKeep, Issued
<1>4. CASE key_touch(t)
  <2>1. k \in Issued /\ k \in KeyIds /\ keys[k] \in UserApiKey
    BY <1>4 DEF key_touch, HeldAt, Issued, AccessInd, AccessTypeOK
  <2>2. \A l \in KeyIds \ {k} : keys'[l] = keys[l]
    BY <1>4 DEF key_touch, AccessInd, AccessTypeOK
  <2>3. keys'[k].revoked = keys[k].revoked /\ keys'[k].active = keys[k].active
    BY <1>4, <2>1 DEF key_touch, Touched, AccessInd, AccessTypeOK, UserApiKey
  <2> HIDE DEF k
  <2>4. Issued' \subseteq Issued
    BY <2>1, <2>2 DEF Issued
  <2> QED BY <2>1, <2>2, <2>3, <2>4 DEF KeysKeep, Issued
<1> QED
  BY <1>1, <1>2, <1>3, <1>4
     DEF AccessStep, HandlerStep, dispatch, dispatch_public, authenticate, pool_timeout,
         load_user, user_write, reload, revoke, key_lookup, key_owner, ingesting,
         register_check, register_insert, login_user, refresh_access_token, respond

LEMMA KeysNextInd == AccessInd /\ KeysInd /\ [AccessNext]_accessVars => KeysInd'
<1> SUFFICES ASSUME AccessInd, KeysInd, [AccessNext]_accessVars PROVE KeysInd'
  OBVIOUS
<1>1. ASSUME NEW t \in Threads, AccessStep(t) PROVE KeysInd'
  <2>1. \A k \in Issued' : keys'[k].revoked => ~keys'[k].active
    BY <1>1, KeysStep DEF KeysInd, KeysKeep
  <2>2. ASSUME NEW u \in Threads, pc'[u] = "revoke_write"
        PROVE  session'[u].seen.active \/ ~keys'[session'[u].request.target].active
    <3>1. CASE pc[u] = "revoke_write" /\ session'[u] = session[u]
      <4>1. session[u].request.target \in Issued
        BY <3>1 DEF AccessInd, HeldAt
      <4> QED BY <1>1, <3>1, <4>1, KeysStep DEF KeysInd, KeysKeep
    <3>2. CASE ~(pc[u] = "revoke_write" /\ session'[u] = session[u])
      <4>1. u = t /\ revoke(t) /\ OwnedKey(session[t].request.target, session[t].token.user)
        BY <1>1, <2>2, <3>2, AtStep
           DEF AccessStep, HandlerStep, dispatch, dispatch_public, authenticate,
               pool_timeout, load_user, user_write, reload, issue, revoke, revoke_write,
               key_lookup, key_touch, key_owner, ingesting, register_check,
               register_insert, login_user, refresh_access_token, respond,
               GoTo, Hold, Begin, PUBLIC, AccessInd, AccessTypeOK
      <4>2. /\ session'[t].seen = keys[session[t].request.target]
            /\ session'[t].request = session[t].request /\ keys' = keys
        BY <4>1, AtStep DEF revoke, Hold, AccessInd, AccessTypeOK, Session
      <4> QED BY <4>1, <4>2
    <3> QED BY <3>1, <3>2
  <2> QED BY <2>1, <2>2 DEF KeysInd
<1>2. CASE tick
  BY <1>2 DEF tick, KeysInd, Issued
<1>3. CASE UNCHANGED accessVars
  BY <1>3 DEF accessVars, KeysInd, Issued
<1> QED BY <1>1, <1>2, <1>3 DEF AccessNext

\* A revoked key stays revoked and inactive.
THEOREM AccessRevocationIsFinal == AccessSpec => RevocationIsFinal
<1>1. AccessInit => KeysInd
  BY DEF AccessInit, KeysInd, Issued
<1>2. ASSUME AccessInd, KeysInd, [AccessNext]_accessVars
      PROVE  [\A k \in Issued : keys[k].revoked =>
                 keys'[k].revoked /\ ~keys'[k].active]_accessVars
  <2> SUFFICES ASSUME NEW k \in Issued, keys[k].revoked
               PROVE  keys'[k].revoked /\ ~keys'[k].active
    OBVIOUS
  <2>1. ASSUME NEW t \in Threads, AccessStep(t)
        PROVE  keys'[k].revoked /\ ~keys'[k].active
    BY <1>2, <2>1, KeysStep DEF KeysInd, KeysKeep
  <2>2. CASE tick \/ UNCHANGED accessVars
    BY <1>2, <2>2 DEF tick, accessVars, KeysInd
  <2> QED BY <1>2, <2>1, <2>2 DEF AccessNext
<1> QED
  BY <1>1, <1>2, AccessInvariant, KeysNextInd, PTL DEF AccessSpec, RevocationIsFinal

\* The last administrator goes only by a change of role, or when the caller who
\* disables has meanwhile stopped being one.
THEOREM AccessOnlyRoleOrRaceLocksOut == AccessSpec => OnlyRoleOrRaceLocksOut
<1>1. ASSUME AccessInd, [AccessNext]_accessVars, Administrators # {}, Administrators' = {}
      PROVE  \E t \in Threads :
                /\ pc[t] = "user_write"
                /\ \/ session[t].request.kind = "role"
                   \/ /\ session[t].token.user # session[t].request.target
                      /\ session[t].token.user \notin Administrators
  <2>1. ASSUME \A u \in Registered : users'[u] = users[u]
        PROVE  FALSE
    BY <1>1, <2>1, AccessAssumption DEF Administrators, Registered, AccessInd, AccessTypeOK
  <2>2. PICK t \in Threads : user_write(t) \/ register_insert(t)
    <3>1. CASE UNCHANGED users
      BY <2>1, <3>1
    <3> QED
      BY <1>1, <3>1
         DEF AccessNext, accessVars, tick, AccessStep, HandlerStep, dispatch,
             dispatch_public, authenticate, pool_timeout, load_user, reload, issue, revoke,
             revoke_write, key_lookup, key_touch, key_owner, ingesting, register_check,
             login_user, refresh_access_token, respond
  <2>3. CASE register_insert(t)
    <3>1. UNCHANGED users \/ \E id \in UserIds \ Registered, row \in User :
                                users' = [users EXCEPT ![id] = row]
      <4>1. session[t].request.email \in Emails
        BY <1>1, <2>3, AtStep DEF register_insert, HeldAt
      <4> QED BY <2>3, <4>1 DEF register_insert, Registered, User, UserRole, DEFAULT_USER_ROLE
    <3>2. \A u \in Registered : users'[u] = users[u]
      BY <1>1, <3>1 DEF Registered, AccessInd, AccessTypeOK
    <3> QED BY <2>1, <3>2
  <2>4. CASE user_write(t)
    <3> DEFINE r == session[t].request
                u == r.target
    <3>1. /\ session[t].request \in Requests /\ session[t].request.kind \in {"role", "status"}
          /\ u \in Registered
      BY <1>1, <2>4, AtStep DEF user_write, HeldAt
    <3>2. CASE session[t].request.kind = "role"
      BY <2>4, <3>2 DEF user_write
    <3>3. CASE session[t].request.kind = "status"
      <4>1. \A v \in UserIds \ {u} : users'[v] = users[v]
        <5>1. \/ users' = users
              \/ users' = [users EXCEPT ![u].active = session[t].request.value]
          BY <2>4, <3>3 DEF user_write
        <5> QED BY <1>1, <5>1 DEF AccessInd, AccessTypeOK
      <4>2. CASE session[t].request.value
        <5>1. u \in UserIds /\ users[u] \in User /\ session[t].request.value = TRUE
          BY <1>1, <3>1, <3>3, <4>2, RequestShape DEF Registered, AccessInd, AccessTypeOK
        <5>2. \/ users'[u] = users[u]
              \/ users'[u] = [users[u] EXCEPT !.active = TRUE]
          BY <1>1, <2>4, <3>3, <5>1 DEF user_write, AccessInd, AccessTypeOK
        <5>3. u \in Administrators => u \in Administrators'
          <6>1. [users[u] EXCEPT !.active = TRUE] \in User
            BY <5>1 DEF User
          <6>2. users'[u] \in User
            BY <5>1, <5>2, <6>1
          <6>3. users'[u].role = users[u].role /\ (users[u].active => users'[u].active)
            BY <5>1, <5>2 DEF User
          <6> QED BY <5>1, <6>2, <6>3, AccessAssumption DEF Administrators, Registered
        <5>4. \A v \in UserIds \ {u} : v \in Administrators => v \in Administrators'
          BY <4>1 DEF Administrators, Registered
        <5> QED BY <1>1, <5>3, <5>4 DEF Administrators, Registered
      <4>3. CASE ~session[t].request.value
        <5>1. session[t].token.user # u
          BY <1>1, <2>4, <3>3, <4>3, AtStep DEF user_write, HeldAt
        <5>2. session[t].token.user \notin Administrators
          BY <1>1, <4>1, <5>1 DEF Administrators, Registered
        <5> QED BY <2>4, <5>1, <5>2 DEF user_write
      <4> QED BY <4>2, <4>3
    <3> QED BY <3>1, <3>2, <3>3
  <2> QED BY <2>2, <2>3, <2>4
<1> QED BY <1>1, AccessInvariant, PTL DEF AccessSpec, OnlyRoleOrRaceLocksOut
=============================================================================
