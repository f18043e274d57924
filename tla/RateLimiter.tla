---------------------------- MODULE RateLimiter ----------------------------
(***************************************************************************)
(* The fixed-window request counter (core/rate_limit.py) behind             *)
(* RateLimitMiddleware (api/middleware/rate_limit.py).                      *)
(*                                                                         *)
(* dispatch runs on the event loop and does not await before the decision,  *)
(* so a request is counted in one step.  Exempt paths are not counted and   *)
(* are no steps here; the counters are in memory, so a restart is Init.     *)
(* Time is counted in ticks, several to the second, since the clock is finer *)
(* than the whole seconds of Retry-After.                                   *)
(***************************************************************************)
EXTENDS Integers, Sequences, FiniteSets

CONSTANTS
    Users, ApiKeys, Hosts,  \* what can be known of a caller
    NULL,
    Callers,          \* requests: [user, apiKey, host]
    Limit,            \* rate_limit_per_minute
    WindowSeconds,
    TicksPerSecond,
    MAX_TRACKED_KEYS,
    MaxTime,          \* bound on the clock
    MaxRequests       \* bound on the number of requests

Window == WindowSeconds * TicksPerSecond

Caller == [user : Users \cup {NULL}, apiKey : ApiKeys \cup {NULL}, host : Hosts]

RateKey == {"user"} \X Users \cup {"apikey"} \X ApiKeys \cup {"ip"} \X Hosts

ASSUME RateAssumption ==
    /\ NULL \notin Users \cup ApiKeys \cup Hosts
    /\ Callers \subseteq Caller
    /\ Limit \in Nat \ {0}
    /\ WindowSeconds \in Nat \ {0}
    /\ TicksPerSecond \in Nat \ {0}
    /\ MAX_TRACKED_KEYS \in Nat
    /\ MaxTime \in Nat /\ MaxRequests \in Nat

VARIABLES
    clock,     \* time.monotonic
    windows,   \* _windows: a function from the tracked keys
    decisions  \* every request so far and what was answered

rateVars == <<clock, windows, decisions>>

RateInit ==
    /\ clock = 0
    /\ windows = <<>>
    /\ decisions = <<>>

-----------------------------------------------------------------------------
(* Whose allowance a request uses.                                         *)

\* The layers a request meets, in that order: add_middleware puts each new one
\* around those before it.
Layers == <<"RequestContext", "RateLimit", "Authentication">>

Place(layer) == CHOOSE i \in DOMAIN Layers : Layers[i] = layer

\* request.state.current_user_id, as the limiter finds it.
KnownUser(c) == IF Place("Authentication") < Place("RateLimit") THEN c.user ELSE NULL

\* _rate_limit_key.
KeyOf(c) ==
    IF KnownUser(c) # NULL THEN <<"user", KnownUser(c)>>
    ELSE IF c.apiKey # NULL THEN <<"apikey", c.apiKey>>
    ELSE <<"ip", c.host>>

-----------------------------------------------------------------------------
(* check                                                                   *)

\* Mutant: a window lasts one tick longer.
ElapsedLate(w) == clock - w.start > Window

Elapsed(w) == clock - w.start >= Window

\* The window of key with this request counted in it.
Counted(key) ==
    IF key \in DOMAIN windows /\ ~Elapsed(windows[key])
    THEN [windows[key] EXCEPT !.count = @ + 1]
    ELSE [start |-> clock, count |-> 1]

\* Mutant: every window is dropped.
EvictAll(ws) == {}

\* _evict_expired: the keys that stay.
Kept(ws) == {k \in DOMAIN ws : ~Elapsed(ws[k])}

\* The counters with w stored for key; too many, and the elapsed ones go.
Stored(key, w) ==
    LET ws == [k \in DOMAIN windows \cup {key} |-> IF k = key THEN w ELSE windows[k]]
    IN  IF Cardinality(DOMAIN ws) > MAX_TRACKED_KEYS
        THEN [k \in Kept(ws) |-> ws[k]] ELSE ws

\* Mutants: the last second rounds to nothing; the time since the window began is
\* taken for the time that is left.
RetryRounded(w) == (Window - (clock - w.start)) \div TicksPerSecond

RetryElapsed(w) ==
    IF (clock - w.start) \div TicksPerSecond > 1
    THEN (clock - w.start) \div TicksPerSecond ELSE 1

\* max(1, int(window - elapsed)): seconds, rounded down.
RetryAfter(w) ==
    LET left == (Window - (clock - w.start)) \div TicksPerSecond
    IN  IF left > 1 THEN left ELSE 1

Decision(c, key, w) ==
    [caller |-> c, key |-> key, at |-> clock,
     allowed |-> w.count <= Limit, retry |-> RetryAfter(w)]

dispatch(c) ==
    LET key == KeyOf(c)
        w   == Counted(key)
    IN  /\ Len(decisions) < MaxRequests
        /\ windows' = Stored(key, w)
        /\ decisions' = Append(decisions, Decision(c, key, w))
        /\ UNCHANGED clock

-----------------------------------------------------------------------------

tick ==
    /\ clock < MaxTime
    /\ clock' = clock + 1
    /\ UNCHANGED <<windows, decisions>>

RateNext == (\E c \in Callers : dispatch(c)) \/ tick

RateSpec == RateInit /\ [][RateNext]_rateVars

-----------------------------------------------------------------------------
(* Properties.                                                             *)

\* The clock, the counters and the answers are well formed, and Retry-After is
\* never zero (check).
RateTypeOK ==
    /\ clock \in 0 .. MaxTime
    /\ DOMAIN windows \subseteq RateKey
    /\ \A k \in DOMAIN windows : /\ windows[k].start \in 0 .. clock
                                 /\ windows[k].count \in 1 .. MaxRequests
    /\ \A i \in DOMAIN decisions : /\ decisions[i].key \in RateKey
                                   /\ decisions[i].retry \in Nat \ {0}

\* The requests among `among` that were let through under the key of d.
ServedWith(d, among) ==
    {k \in among : decisions[k].allowed /\ decisions[k].key = d.key}

\* No stretch of time as long as a window, wherever it begins, sees more than
\* two windows' worth of requests under one key, however the keys come and go
\* (check, _evict_expired): the windows of a key never overlap.
TwiceTheLimitAtMost ==
    \A i \in DOMAIN decisions :
        Cardinality({k \in ServedWith(decisions[i], i .. Len(decisions)) :
                        decisions[k].at - decisions[i].at < Window}) <= 2 * Limit

\* Nobody is refused who has not used up the allowance: behind a refusal are
\* `Limit` requests served under the same key less than a window ago.
RefusedHasSpent ==
    \A i \in DOMAIN decisions :
        LET d == decisions[i]
        IN  ~d.allowed =>
                Cardinality({j \in ServedWith(d, 1 .. i - 1) :
                                d.at - decisions[j].at < Window}) >= Limit

\* Whoever waits for Retry-After, and the second it may be rounded down by, is
\* refused again only if `Limit` others were served under the key meanwhile.
RetryAfterSuffices ==
    \A i, j \in DOMAIN decisions :
        LET d == decisions[i]
            e == decisions[j]
        IN  /\ ~d.allowed /\ ~e.allowed /\ d.key = e.key
            /\ e.at - d.at >= (d.retry + 1) * TicksPerSecond
            => Cardinality(ServedWith(d, i + 1 .. j - 1)) >= Limit

\* "Keyed by authenticated user where known, otherwise by API key digest or
\* client address, so one user's burst cannot exhaust another's allowance."
\* (docs/sprint-14-15-hardening-saas.md:92): a user who is refused has had
\* `Limit` requests.
BurstsAreSeparate ==
    \A i \in DOMAIN decisions :
        LET d == decisions[i]
        IN  ~d.allowed /\ d.caller.user # NULL =>
                Cardinality({j \in 1 .. i : decisions[j].caller.user = d.caller.user}) > Limit
=============================================================================
