------------------------- MODULE RateLimiterProofs -------------------------
(***************************************************************************)
(* Theorems about RateLimiter, for every limit, window, set of callers and  *)
(* length of a run.                                                         *)
(*                                                                         *)
(* The counters and the history are tied together by Backed: a window that  *)
(* has counted n requests has let min(n, Limit) of them through since it     *)
(* began.  A refusal can then be traced to the requests that spent the       *)
(* allowance.                                                               *)
(***************************************************************************)
EXTENDS RateLimiter, FiniteSetTheorems, TLAPS

DecisionType == [caller : Caller, key : RateKey, at : Nat, allowed : BOOLEAN,
                 retry : Nat \ {0}]

\* The requests served under key k since time s.
Since(k, s) == {j \in 1 .. Len(decisions) :
                   decisions[j].allowed /\ decisions[j].key = k /\ decisions[j].at >= s}

CountersOK ==
    /\ DOMAIN windows \subseteq RateKey
    /\ windows = [k \in DOMAIN windows |-> windows[k]]
    /\ \A k \in DOMAIN windows :
          /\ windows[k] = [start |-> windows[k].start, count |-> windows[k].count]
          /\ windows[k].start \in Nat /\ windows[k].start <= clock
          /\ windows[k].count \in Nat /\ 1 <= windows[k].count
          /\ windows[k].count <= Len(decisions)

Backed ==
    \A k \in DOMAIN windows :
        LET spent == Cardinality(Since(k, windows[k].start))
        IN  /\ windows[k].count <= Limit => spent >= windows[k].count
            /\ windows[k].count > Limit => spent >= Limit

RateInd ==
    /\ clock \in Nat /\ clock <= MaxTime
    /\ decisions \in Seq(DecisionType) /\ Len(decisions) <= MaxRequests
    /\ CountersOK
    /\ Backed
    /\ RefusedHasSpent

-----------------------------------------------------------------------------

\* A request always has a key (_rate_limit_key falls back on the address).
LEMMA KeyOfType ==
    ASSUME RateAssumption, NEW c \in Callers
    PROVE  KeyOf(c) \in RateKey
<1>1. c \in Caller
  BY DEF RateAssumption
<1>2. KnownUser(c) \in Users \cup {NULL}
  BY <1>1 DEF KnownUser, Caller
<1>3. c.apiKey \in ApiKeys \cup {NULL} /\ c.host \in Hosts
  BY <1>1 DEF Caller
<1>4. CASE KnownUser(c) # NULL
  BY <1>2, <1>4 DEF KeyOf, RateKey
<1>5. CASE KnownUser(c) = NULL /\ c.apiKey # NULL
  BY <1>3, <1>5 DEF KeyOf, RateKey
<1>6. CASE KnownUser(c) = NULL /\ c.apiKey = NULL
  BY <1>3, <1>6 DEF KeyOf, RateKey
<1>7. QED
  BY <1>4, <1>5, <1>6

\* The requests served since some time are finitely many.
LEMMA SinceFinite ==
    ASSUME decisions \in Seq(DecisionType), NEW k, NEW s
    PROVE  IsFiniteSet(Since(k, s)) /\ Cardinality(Since(k, s)) \in Nat
<1>1. Len(decisions) \in Nat
  OBVIOUS
<1>2. IsFiniteSet(1 .. Len(decisions))
  BY <1>1, FS_Interval
<1>3. Since(k, s) \in SUBSET (1 .. Len(decisions))
  BY DEF Since
<1>4. IsFiniteSet(Since(k, s))
  BY <1>2, <1>3, FS_Subset
<1>5. QED
  BY <1>4, FS_CardinalityType

\* The window a request is counted in has begun and has not elapsed, and it
\* holds one request more than before or is new (check).
LEMMA CountedFacts ==
    ASSUME RateAssumption, RateInd, NEW key
    PROVE  LET w == Counted(key)
           IN  /\ w = [start |-> w.start, count |-> w.count]
               /\ w.start \in Nat /\ w.start <= clock /\ clock - w.start < Window
               /\ w.count \in Nat /\ 1 <= w.count /\ w.count <= Len(decisions) + 1
               /\ \/ w.count = 1
                  \/ /\ key \in DOMAIN windows
                     /\ w.start = windows[key].start
                     /\ w.count = windows[key].count + 1
<1> DEFINE w == Counted(key)
<1>0. Window \in Nat /\ Window > 0 /\ clock \in Nat /\ Len(decisions) \in Nat
  BY DEF RateAssumption, Window, RateInd
<1>1. CASE key \in DOMAIN windows /\ ~Elapsed(windows[key])
  <2>1. /\ windows[key] = [start |-> windows[key].start, count |-> windows[key].count]
        /\ windows[key].start \in Nat /\ windows[key].start <= clock
        /\ windows[key].count \in Nat /\ 1 <= windows[key].count
        /\ windows[key].count <= Len(decisions)
    BY <1>1 DEF RateInd, CountersOK
  <2>2. w = [start |-> windows[key].start, count |-> windows[key].count + 1]
    BY <1>1, <2>1 DEF Counted
  <2>3. clock - windows[key].start < Window
    BY <1>0, <1>1, <2>1 DEF Elapsed
  <2>4. QED
    BY <1>0, <1>1, <2>1, <2>2, <2>3
<1>2. CASE ~(key \in DOMAIN windows /\ ~Elapsed(windows[key]))
  <2>1. w = [start |-> clock, count |-> 1]
    BY <1>2 DEF Counted
  <2>2. QED
    BY <1>0, <2>1
<1>3. QED
  BY <1>1, <1>2

\* What storing the window of a request does to the counters: it changes no
\* other counter, and if too many are left, none of them has elapsed.
LEMMA StoredFacts ==
    ASSUME NEW key, NEW w, NEW ws, ws = Stored(key, w)
    PROVE  /\ DOMAIN ws \subseteq DOMAIN windows \cup {key}
           /\ ws = [k \in DOMAIN ws |-> ws[k]]
           /\ \A k \in DOMAIN ws : ws[k] = IF k = key THEN w ELSE windows[k]
<1> DEFINE all == [k \in DOMAIN windows \cup {key} |-> IF k = key THEN w ELSE windows[k]]
<1>1. CASE Cardinality(DOMAIN all) > MAX_TRACKED_KEYS
  <2>1. ws = [k \in Kept(all) |-> all[k]]
    BY <1>1 DEF Stored
  <2>2. Kept(all) = {k \in DOMAIN all : ~Elapsed(all[k])}
    BY DEF Kept
  <2>3. QED
    BY <2>1, <2>2
<1>2. CASE ~(Cardinality(DOMAIN all) > MAX_TRACKED_KEYS)
  <2>1. ws = all
    BY <1>2 DEF Stored
  <2>2. QED
    BY <1>2, <2>1
<1>3. QED
  BY <1>1, <1>2

\* A decision joins the requests served since s if it serves key k then.
LEMMA SinceGrows ==
    ASSUME decisions \in Seq(DecisionType), NEW d \in DecisionType,
           decisions' = Append(decisions, d), NEW k, NEW s
    PROVE  /\ Since(k, s)' = Since(k, s) \cup
                  (IF d.allowed /\ d.key = k /\ d.at >= s
                   THEN {Len(decisions) + 1} ELSE {})
           /\ Len(decisions) + 1 \notin Since(k, s)
<1>1. /\ Len(decisions) \in Nat
      /\ Len(decisions') = Len(decisions) + 1
      /\ decisions'[Len(decisions) + 1] = d
      /\ \A j \in 1 .. Len(decisions) : decisions'[j] = decisions[j]
  OBVIOUS
<1>2. QED
  BY <1>1 DEF Since

\* The size of that set: it never shrinks, and one request served adds one.
LEMMA SinceCounts ==
    ASSUME decisions \in Seq(DecisionType), NEW d \in DecisionType,
           decisions' = Append(decisions, d), NEW k, NEW s
    PROVE  /\ Cardinality(Since(k, s)) \in Nat
           /\ Cardinality(Since(k, s)') =
                 IF d.allowed /\ d.key = k /\ d.at >= s
                 THEN Cardinality(Since(k, s)) + 1 ELSE Cardinality(Since(k, s))
<1>1. IsFiniteSet(Since(k, s)) /\ Cardinality(Since(k, s)) \in Nat
  BY SinceFinite
<1>2. CASE d.allowed /\ d.key = k /\ d.at >= s
  <2>1. Since(k, s)' = Since(k, s) \cup {Len(decisions) + 1}
    BY <1>2, SinceGrows
  <2>2. Len(decisions) + 1 \notin Since(k, s)
    BY SinceGrows
  <2>3. QED
    BY <1>1, <1>2, <2>1, <2>2, FS_AddElement
<1>3. CASE ~(d.allowed /\ d.key = k /\ d.at >= s)
  <2>1. Since(k, s)' = Since(k, s) \cup {}
    BY <1>3, SinceGrows
  <2>2. Since(k, s)' = Since(k, s)
    BY <2>1
  <2>3. QED
    BY <1>1, <1>3, <2>2
<1>4. QED
  BY <1>2, <1>3

-----------------------------------------------------------------------------

LEMMA RateInitInd == RateAssumption /\ RateInit => RateInd
<1> SUFFICES ASSUME RateAssumption, RateInit PROVE RateInd
  OBVIOUS
<1>1. /\ clock = 0 /\ decisions = <<>> /\ windows = <<>> /\ DOMAIN windows = {}
      /\ Len(decisions) = 0 /\ DOMAIN decisions = {}
  BY DEF RateInit
<1>2. CountersOK /\ Backed
  BY <1>1 DEF CountersOK, Backed
<1>3. RefusedHasSpent
  BY <1>1 DEF RefusedHasSpent
<1>4. QED
  BY <1>1, <1>2, <1>3 DEF RateInd, RateAssumption

\* One request keeps the invariant.
LEMMA DispatchInd ==
    ASSUME RateAssumption, RateInd, NEW c \in Callers, dispatch(c)
    PROVE  RateInd'
<1>1. PICK key : key = KeyOf(c)
  OBVIOUS
<1>2. PICK w : w = Counted(key)
  OBVIOUS
<1>3. PICK d : d = Decision(c, key, w)
  OBVIOUS
<1>4. /\ Len(decisions) < MaxRequests
      /\ windows' = Stored(key, w)
      /\ decisions' = Append(decisions, d)
      /\ clock' = clock
  BY <1>1, <1>2, <1>3 DEF dispatch
<1>5. key \in RateKey /\ c \in Caller
  BY <1>1, KeyOfType DEF RateAssumption
<1>6. /\ clock \in Nat /\ clock <= MaxTime
      /\ decisions \in Seq(DecisionType) /\ Len(decisions) \in Nat
      /\ Limit \in Nat /\ 1 <= Limit
      /\ TicksPerSecond \in Nat \ {0} /\ Window \in Nat
      /\ MaxRequests \in Nat /\ MaxTime \in Nat
  BY DEF RateInd, RateAssumption, Window
<1>7. /\ w = [start |-> w.start, count |-> w.count]
      /\ w.start \in Nat /\ w.start <= clock /\ clock - w.start < Window
      /\ w.count \in Nat /\ 1 <= w.count /\ w.count <= Len(decisions) + 1
      /\ \/ w.count = 1
         \/ /\ key \in DOMAIN windows
            /\ w.start = windows[key].start
            /\ w.count = windows[key].count + 1
  BY <1>2, CountedFacts
<1>8. /\ d.caller = c /\ d.key = key /\ d.at = clock
      /\ d.allowed = (w.count <= Limit) /\ d \in DecisionType
  <2>1. RetryAfter(w) \in Nat \ {0}
    <3>1. Window - (clock - w.start) \in Int
      BY <1>6, <1>7
    <3>2. (Window - (clock - w.start)) \div TicksPerSecond \in Int
      BY <1>6, <3>1
    <3>3. QED
      BY <3>2 DEF RetryAfter
  <2>2. QED
    BY <1>3, <1>5, <1>6, <1>7, <2>1 DEF Decision, DecisionType
<1>9. /\ decisions' \in Seq(DecisionType) /\ Len(decisions') = Len(decisions) + 1
      /\ decisions'[Len(decisions) + 1] = d
      /\ \A i \in 1 .. Len(decisions) : decisions'[i] = decisions[i]
  BY <1>4, <1>6, <1>8
<1>10. /\ DOMAIN windows' \subseteq DOMAIN windows \cup {key}
       /\ windows' = [k \in DOMAIN windows' |-> windows'[k]]
       /\ \A k \in DOMAIN windows' : windows'[k] = IF k = key THEN w ELSE windows[k]
  BY <1>4, StoredFacts
<1>11. CountersOK'
  BY <1>4, <1>5, <1>6, <1>7, <1>9, <1>10 DEF RateInd, CountersOK
<1>12. Backed'
  <2> SUFFICES ASSUME NEW k \in DOMAIN windows'
               PROVE  LET spent == Cardinality(Since(k, windows[k].start)')
                      IN  /\ windows[k]'.count <= Limit => spent >= windows[k]'.count
                          /\ windows[k]'.count > Limit => spent >= Limit
    BY DEF Backed
  <2>1. PICK s : s = windows[k]'.start
    OBVIOUS
  <2> DEFINE old == Cardinality(Since(k, s))
             new == Cardinality(Since(k, s)')
  <2>2. /\ old \in Nat
        /\ new = IF d.allowed /\ d.key = k /\ d.at >= s THEN old + 1 ELSE old
    BY <1>4, <1>6, <1>8, SinceCounts
  <2>3. Cardinality(Since(k, windows[k].start)') = new
    BY <2>1
  <2>4. CASE k # key
    <3>1. k \in DOMAIN windows /\ windows'[k] = windows[k] /\ s = windows[k].start
      BY <1>10, <2>1, <2>4
    <3>2. /\ windows[k].count <= Limit => old >= windows[k].count
          /\ windows[k].count > Limit => old >= Limit
      BY <3>1 DEF RateInd, Backed
    <3>3. new = old
      BY <1>8, <2>2, <2>4
    <3>4. QED
      BY <2>3, <3>1, <3>2, <3>3
  <2>5. CASE k = key
    <3>1. windows'[k] = w /\ s = w.start /\ d.at >= s /\ d.key = k
      BY <1>6, <1>7, <1>8, <1>10, <2>1, <2>5
    <3>2. new = IF w.count <= Limit THEN old + 1 ELSE old
      BY <1>8, <2>2, <3>1
    <3>3. CASE w.count = 1
      BY <1>6, <2>2, <2>3, <3>1, <3>2, <3>3
    <3>4. CASE /\ key \in DOMAIN windows
               /\ w.start = windows[key].start
               /\ w.count = windows[key].count + 1
      <4>1. /\ windows[key].count \in Nat
            /\ windows[key].count <= Limit => old >= windows[key].count
            /\ windows[key].count > Limit => old >= Limit
        BY <2>5, <3>1, <3>4 DEF RateInd, Backed, CountersOK
      <4>2. QED
        BY <1>6, <2>2, <2>3, <3>1, <3>2, <3>4, <4>1
    <3>5. QED
      BY <1>7, <3>3, <3>4
  <2>6. QED
    BY <2>4, <2>5
<1>13. RefusedHasSpent'
  <2> SUFFICES ASSUME NEW i \in 1 .. Len(decisions) + 1, ~decisions'[i].allowed
               PROVE  Cardinality({j \in ServedWith(decisions[i], 1 .. i - 1)' :
                          decisions'[i].at - decisions'[j].at < Window}) >= Limit
    BY <1>9 DEF RefusedHasSpent
  <2>1. ServedWith(decisions[i], 1 .. i - 1)' =
            {j \in 1 .. i - 1 : decisions'[j].allowed /\ decisions'[j].key = decisions'[i].key}
    BY DEF ServedWith
  <2>2. CASE i \in 1 .. Len(decisions)
    <3>1. decisions'[i] = decisions[i]
      BY <1>9, <2>2
    <3>2. \A j \in 1 .. i - 1 : decisions'[j] = decisions[j]
      BY <1>6, <1>9, <2>2
    <3>3. {j \in ServedWith(decisions[i], 1 .. i - 1)' :
              decisions'[i].at - decisions'[j].at < Window}
          = {j \in ServedWith(decisions[i], 1 .. i - 1) :
              decisions[i].at - decisions[j].at < Window}
      BY <2>1, <3>1, <3>2 DEF ServedWith
    <3>4. i \in DOMAIN decisions
      BY <1>6, <2>2
    <3>5. QED
      BY <3>1, <3>3, <3>4 DEF RateInd, RefusedHasSpent
  <2>3. CASE i = Len(decisions) + 1
    <3>0. decisions'[i] = d
      BY <1>9, <2>3
    <3>1. w.count > Limit
      <4>1. ~(w.count <= Limit)
        BY <1>8, <3>0
      <4>2. QED
        BY <1>6, <1>7, <4>1
    <3>2. /\ key \in DOMAIN windows
          /\ w.start = windows[key].start
          /\ w.count = windows[key].count + 1
      BY <1>6, <1>7, <3>1
    <3>3. windows[key].count \in Nat /\ windows[key].count >= Limit
      BY <1>6, <3>1, <3>2 DEF RateInd, CountersOK
    <3>4. PICK s : s = w.start
      OBVIOUS
    <3>5. Cardinality(Since(key, s)) >= Limit
      BY <1>6, <3>2, <3>3, <3>4, SinceFinite DEF RateInd, Backed
    <3> DEFINE Recent == {j \in ServedWith(decisions[i], 1 .. i - 1)' :
                             decisions'[i].at - decisions'[j].at < Window}
    <3>6. Since(key, s) \subseteq Recent
      <4> SUFFICES ASSUME NEW j \in Since(key, s) PROVE j \in Recent
        OBVIOUS
      <4>1. /\ j \in 1 .. Len(decisions) /\ decisions[j].allowed
            /\ decisions[j].key = key /\ decisions[j].at >= s
        BY DEF Since
      <4>2. decisions[j] \in DecisionType
        BY <1>6, <4>1
      <4>3. decisions'[j] = decisions[j] /\ decisions[j].at \in Nat
        BY <1>9, <4>1, <4>2 DEF DecisionType
      <4>4. j \in 1 .. i - 1
        BY <1>6, <2>3, <4>1
      <4>5. decisions[j].at >= w.start /\ decisions'[i].at = clock
        BY <1>8, <3>0, <3>4, <4>1
      <4>6. clock - decisions[j].at < Window
        <5>1. clock \in Nat /\ Window \in Nat
          BY <1>6
        <5>2. w.start \in Nat /\ clock - w.start < Window
          BY <1>7
        <5>3. decisions[j].at \in Nat /\ decisions[j].at >= w.start
          BY <4>3, <4>5
        <5>4. QED
          BY <5>1, <5>2, <5>3
      <4>7. QED
        BY <1>8, <2>1, <3>0, <4>1, <4>3, <4>4, <4>5, <4>6
    <3>7. IsFiniteSet(Recent)
      <4>1. IsFiniteSet(1 .. i - 1)
        BY FS_Interval
      <4>2. Recent \in SUBSET (1 .. i - 1)
        BY <2>1
      <4>3. QED
        BY <4>1, <4>2, FS_Subset
    <3>8. Cardinality(Since(key, s)) <= Cardinality(Recent)
      BY <3>6, <3>7, FS_Subset
    <3>9. Cardinality(Recent) \in Nat /\ Cardinality(Since(key, s)) \in Nat
      BY <1>6, <3>7, FS_CardinalityType, SinceFinite
    <3>10. QED
      BY <1>6, <3>5, <3>8, <3>9
  <2>4. QED
    BY <1>6, <2>2, <2>3
<1>14. QED
  BY <1>4, <1>6, <1>9, <1>11, <1>12, <1>13 DEF RateInd

\* Every step keeps the invariant; time only passes.
LEMMA RateNextInd ==
    ASSUME RateAssumption, RateInd, [RateNext]_rateVars
    PROVE  RateInd'
<1>1. CASE \E c \in Callers : dispatch(c)
  BY <1>1, DispatchInd
<1>2. CASE tick
  <2>1. /\ clock' \in Nat /\ clock' <= MaxTime /\ clock <= clock'
        /\ windows' = windows /\ decisions' = decisions
    BY <1>2 DEF tick, RateInd, RateAssumption
  <2>2. CountersOK'
    BY <2>1 DEF RateInd, CountersOK
  <2>3. Backed'
    BY <2>1 DEF RateInd, Backed, Since
  <2>4. RefusedHasSpent'
    BY <2>1 DEF RateInd, RefusedHasSpent, ServedWith
  <2>5. QED
    BY <2>1, <2>2, <2>3, <2>4 DEF RateInd
<1>3. CASE UNCHANGED rateVars
  <2>1. clock' = clock /\ windows' = windows /\ decisions' = decisions
    BY <1>3 DEF rateVars
  <2>2. CountersOK' /\ Backed'
    BY <2>1 DEF RateInd, CountersOK, Backed, Since
  <2>3. RefusedHasSpent'
    BY <2>1 DEF RateInd, RefusedHasSpent, ServedWith
  <2>4. QED
    BY <2>1, <2>2, <2>3 DEF RateInd
<1>4. QED
  BY <1>1, <1>2, <1>3 DEF RateNext

\* The invariant holds in every reachable state.
THEOREM RateInvariant == RateSpec => []RateInd
<1>1. RateInit => RateInd
  BY RateInitInd, RateAssumption
<1>2. RateInd /\ [RateNext]_rateVars => RateInd'
  BY RateNextInd, RateAssumption
<1>3. QED
  BY <1>1, <1>2, PTL DEF RateSpec

-----------------------------------------------------------------------------

\* The counters, the clock and the answers are well formed; Retry-After is never
\* zero (check).
THEOREM RateTypeCorrect == RateSpec => []RateTypeOK
<1>1. RateInd => RateTypeOK
  <2> SUFFICES ASSUME RateInd PROVE RateTypeOK
    OBVIOUS
  <2>1. /\ clock \in Nat /\ clock <= MaxTime /\ MaxTime \in Nat /\ MaxRequests \in Nat
        /\ decisions \in Seq(DecisionType) /\ Len(decisions) <= MaxRequests
    BY RateAssumption DEF RateInd, RateAssumption
  <2>2. \A i \in DOMAIN decisions : decisions[i] \in DecisionType
    BY <2>1
  <2>3. \A i \in DOMAIN decisions : decisions[i].key \in RateKey /\ decisions[i].retry \in Nat \ {0}
    BY <2>2 DEF DecisionType
  <2>4. Len(decisions) \in Nat
    BY <2>1
  <2>5. QED
    BY <2>1, <2>3, <2>4 DEF RateInd, CountersOK, RateTypeOK
<1>2. QED
  BY <1>1, RateInvariant, PTL

\* Behind every refusal are as many served requests as the limit allows, less
\* than a window old, under the same key (check never refuses early).
THEOREM RateRefusedHasSpent == RateSpec => []RefusedHasSpent
<1>1. RateInd => RefusedHasSpent
  BY DEF RateInd
<1>2. QED
  BY <1>1, RateInvariant, PTL

-----------------------------------------------------------------------------
(* The windows of a key follow one another.                                *)

\* The requests served from the i-th on under its key; those of them less than a
\* window later, and those before time s.
After(i) == ServedWith(decisions[i], i .. Len(decisions))
Within(i) == {j \in After(i) : decisions[j].at - decisions[i].at < Window}
Early(i, s) == {j \in After(i) : decisions[j].at < s}

InOrder ==
    /\ \A i \in DOMAIN decisions : decisions[i].at <= clock
    /\ \A i, j \in DOMAIN decisions : i <= j => decisions[i].at <= decisions[j].at

\* A window serves no more than it has counted, and no more than the limit.
Capped ==
    \A k \in DOMAIN windows :
        LET spent == Cardinality(Since(k, windows[k].start))
        IN  /\ spent <= Limit
            /\ windows[k].count <= Limit => spent <= windows[k].count

\* No request is later than the window of its key, and one whose key is no
\* longer tracked is of the past.
Inside ==
    \A i \in DOMAIN decisions :
        LET d == decisions[i]
        IN  IF d.key \in DOMAIN windows
            THEN d.at < windows[d.key].start + Window ELSE d.at < clock

\* A refusal in the window its key still has: the window ends within the second
\* after Retry-After.
RetryCovers ==
    \A i \in DOMAIN decisions :
        LET d == decisions[i]
        IN  /\ ~d.allowed /\ d.key \in DOMAIN windows /\ windows[d.key].start <= d.at
            => windows[d.key].start + Window < d.at + (d.retry + 1) * TicksPerSecond

\* Where the i-th request stands: in the window its key still has; before it,
\* with one earlier window's worth of requests; under a key that is not tracked
\* now, with one window's worth; or a whole window ago.
Placed(i) ==
    LET k == decisions[i].key
    IN  \/ k \in DOMAIN windows /\ windows[k].start <= decisions[i].at
        \/ /\ k \in DOMAIN windows /\ decisions[i].at < windows[k].start
           /\ Cardinality(Early(i, windows[k].start)) <= Limit
        \/ k \notin DOMAIN windows /\ Cardinality(After(i)) <= Limit
        \/ /\ decisions[i].at + Window <= clock
           /\ Cardinality(Within(i)) <= 2 * Limit

PaceInd == /\ InOrder /\ Capped /\ Inside /\ RetryCovers
           /\ \A i \in DOMAIN decisions : Placed(i)

\* Sets of requests are finite: a part is no larger, and a union is no larger
\* than its parts together.
LEMMA Parts ==
    ASSUME NEW n \in Nat, NEW A \in SUBSET (1 .. n), NEW B \in SUBSET (1 .. n)
    PROVE  /\ IsFiniteSet(A) /\ Cardinality(A) \in Nat
           /\ A \subseteq B => Cardinality(A) <= Cardinality(B)
           /\ Cardinality(A \cup B) <= Cardinality(A) + Cardinality(B)
<1>1. IsFiniteSet(1 .. n)
  BY FS_Interval
<1>2. IsFiniteSet(A) /\ IsFiniteSet(B)
  BY <1>1, FS_Subset
<1>3. Cardinality(A) \in Nat /\ Cardinality(B) \in Nat
  BY <1>2, FS_CardinalityType
<1>4. A \subseteq B => Cardinality(A) <= Cardinality(B)
  BY <1>2, FS_Subset
<1>5. /\ IsFiniteSet(A \cap B)
      /\ Cardinality(A \cup B) = Cardinality(A) + Cardinality(B) - Cardinality(A \cap B)
  BY <1>2, FS_Union, FS_Intersection
<1>6. Cardinality(A \cap B) \in Nat
  BY <1>5, FS_CardinalityType
<1>7. QED
  BY <1>2, <1>3, <1>4, <1>5, <1>6

LEMMA Sizes ==
    ASSUME RateInd, NEW i \in DOMAIN decisions, NEW k, NEW s
    PROVE  /\ Len(decisions) \in Nat /\ i \in 1 .. Len(decisions)
           /\ After(i) \in SUBSET (1 .. Len(decisions))
           /\ Within(i) \in SUBSET (1 .. Len(decisions))
           /\ Early(i, s) \in SUBSET (1 .. Len(decisions))
           /\ Since(k, s) \in SUBSET (1 .. Len(decisions))
           /\ decisions[i] \in DecisionType
           /\ \A j \in 1 .. Len(decisions) : decisions[j] \in DecisionType
<1>1. decisions \in Seq(DecisionType) /\ Len(decisions) \in Nat
  BY DEF RateInd
<1>2. QED
  BY <1>1 DEF After, Within, Early, Since, ServedWith

\* When the window of its key has elapsed, a request has one window's worth of
\* requests behind it, or two and is a whole window old.
LEMMA Elapses ==
    ASSUME RateAssumption, RateInd, PaceInd, NEW i \in DOMAIN decisions,
           decisions[i].key \in DOMAIN windows, Elapsed(windows[decisions[i].key])
    PROVE  \/ Cardinality(After(i)) <= Limit
           \/ /\ decisions[i].at + Window <= clock
              /\ Cardinality(Within(i)) <= 2 * Limit
<1> DEFINE k == decisions[i].key
           s == windows[k].start
<1>1. /\ Len(decisions) \in Nat /\ i \in 1 .. Len(decisions) /\ decisions[i].at \in Nat
      /\ \A j \in 1 .. Len(decisions) : decisions[j].at \in Nat
  BY Sizes DEF DecisionType
<1>2. /\ s \in Nat /\ clock \in Nat /\ Window \in Nat /\ Limit \in Nat /\ clock - s >= Window
  BY DEF RateInd, CountersOK, Elapsed, RateAssumption, Window
<1>3. Cardinality(Since(k, s)) <= Limit
  BY DEF PaceInd, Capped
<1>4. CASE s <= decisions[i].at
  <2>1. After(i) \subseteq Since(k, s)
    BY <1>1, <1>2, <1>4 DEF After, ServedWith, Since, PaceInd, InOrder
  <2>2. Cardinality(After(i)) <= Cardinality(Since(k, s))
    BY <2>1, Sizes, Parts
  <2>3. Cardinality(After(i)) \in Nat /\ Cardinality(Since(k, s)) \in Nat
    BY Sizes, Parts
  <2>4. QED
    BY <1>2, <1>3, <2>2, <2>3
<1>5. CASE decisions[i].at < s /\ Cardinality(Early(i, s)) <= Limit
  <2>1. decisions[i].at + Window <= clock
    BY <1>1, <1>2, <1>5
  <2>2. Within(i) \subseteq Early(i, s) \cup Since(k, s)
    BY <1>1, <1>2 DEF Within, Early, After, ServedWith, Since
  <2>3. Cardinality(Within(i)) <= Cardinality(Early(i, s) \cup Since(k, s))
    BY <2>2, Sizes, Parts
  <2>4. Cardinality(Early(i, s) \cup Since(k, s)) <=
            Cardinality(Early(i, s)) + Cardinality(Since(k, s))
    BY Sizes, Parts
  <2>5. /\ Cardinality(Within(i)) \in Nat /\ Cardinality(Early(i, s)) \in Nat
        /\ Cardinality(Since(k, s)) \in Nat
    BY Sizes, Parts
  <2>6. Cardinality(Early(i, s) \cup Since(k, s)) \in Nat
    <3>1. Early(i, s) \cup Since(k, s) \in SUBSET (1 .. Len(decisions))
      BY Sizes
    <3>2. QED
      BY <1>1, <3>1, Parts
  <2>7. QED
    BY <1>2, <1>3, <1>5, <2>1, <2>3, <2>4, <2>5, <2>6
<1>6. QED
  BY <1>1, <1>2, <1>4, <1>5 DEF PaceInd, Placed

\* A request under key is counted in window w and answered d (dispatch).
Counts(key, w, d) ==
    /\ key \in RateKey /\ d \in DecisionType
    /\ windows' = Stored(key, w) /\ decisions' = Append(decisions, d) /\ clock' = clock
    /\ d.key = key /\ d.at = clock /\ d.allowed = (w.count <= Limit)
    /\ d.retry = RetryAfter(w)
    /\ w.start \in Nat /\ w.start <= clock /\ clock - w.start < Window /\ w.count \in Nat
    /\ \/ /\ key \in DOMAIN windows /\ ~Elapsed(windows[key])
          /\ w.start = windows[key].start /\ w.count = windows[key].count + 1
       \/ /\ key \in DOMAIN windows => Elapsed(windows[key])
          /\ w.start = clock /\ w.count = 1

LEMMA DispatchCounts ==
    ASSUME RateAssumption, RateInd, NEW c \in Callers, dispatch(c)
    PROVE  \E key, w, d : Counts(key, w, d)
<1>1. PICK key : key = KeyOf(c)
  OBVIOUS
<1>2. PICK w : w = Counted(key)
  OBVIOUS
<1>3. PICK d : d = Decision(c, key, w)
  OBVIOUS
<1>4. /\ windows' = Stored(key, w) /\ decisions' = Append(decisions, d) /\ clock' = clock
  BY <1>1, <1>2, <1>3 DEF dispatch
<1>5. key \in RateKey /\ c \in Caller
  BY <1>1, KeyOfType DEF RateAssumption
<1>6. /\ w.start \in Nat /\ w.start <= clock /\ clock - w.start < Window /\ w.count \in Nat
  BY <1>2, CountedFacts
<1>7. \/ /\ key \in DOMAIN windows /\ ~Elapsed(windows[key])
         /\ w.start = windows[key].start /\ w.count = windows[key].count + 1
      \/ /\ key \in DOMAIN windows => Elapsed(windows[key])
         /\ w.start = clock /\ w.count = 1
  <2>1. key \in DOMAIN windows => windows[key] = [start |-> windows[key].start,
                                                 count |-> windows[key].count]
    BY DEF RateInd, CountersOK
  <2>2. QED
    BY <1>2, <2>1 DEF Counted
<1>8. d.key = key /\ d.at = clock /\ d.allowed = (w.count <= Limit) /\ d.retry = RetryAfter(w)
  BY <1>3 DEF Decision
<1>9. RetryAfter(w) \in Nat \ {0}
  <2>1. Window - (clock - w.start) \in Int /\ TicksPerSecond \in Nat \ {0}
    BY <1>6 DEF RateInd, RateAssumption, Window
  <2>2. (Window - (clock - w.start)) \div TicksPerSecond \in Int
    BY <2>1
  <2>3. QED
    BY <2>2 DEF RetryAfter
<1>10. d \in DecisionType
  BY <1>3, <1>5, <1>8, <1>9 DEF Decision, DecisionType, RateInd
<1>11. QED
  BY <1>4, <1>5, <1>6, <1>7, <1>8, <1>10 DEF Counts

\* What a counted request changes: its key is tracked, with its window; another
\* key keeps its window or, when that has elapsed, loses it.
LEMMA CountsMove ==
    ASSUME RateAssumption, RateInd, NEW key, NEW w, NEW d, Counts(key, w, d)
    PROVE  /\ Len(decisions) \in Nat /\ DOMAIN decisions = 1 .. Len(decisions)
           /\ DOMAIN decisions' = 1 .. Len(decisions) + 1
           /\ Len(decisions') = Len(decisions) + 1
           /\ decisions'[Len(decisions) + 1] = d
           /\ \A j \in 1 .. Len(decisions) :
                 /\ decisions'[j] = decisions[j] /\ decisions[j] \in DecisionType
                 /\ decisions[j].at \in Nat
           /\ clock \in Nat /\ clock' = clock /\ Window \in Nat /\ Window > 0
           /\ Limit \in Nat /\ Limit > 0 /\ TicksPerSecond \in Nat /\ TicksPerSecond > 0
           /\ key \in DOMAIN windows' /\ windows'[key] = w
           /\ \A k \in DOMAIN windows' \ {key} :
                 k \in DOMAIN windows /\ windows'[k] = windows[k]
           /\ \A k \in DOMAIN windows \ DOMAIN windows' : k # key /\ Elapsed(windows[k])
           /\ \A k \in DOMAIN windows : windows[k].start \in Nat /\ windows[k].count \in Nat
<1>1. /\ decisions \in Seq(DecisionType) /\ Len(decisions) \in Nat /\ clock \in Nat
      /\ decisions' = Append(decisions, d) /\ d \in DecisionType /\ clock' = clock
  BY DEF RateInd, Counts
<1>2. /\ DOMAIN decisions = 1 .. Len(decisions)
      /\ DOMAIN decisions' = 1 .. Len(decisions) + 1
      /\ Len(decisions') = Len(decisions) + 1
      /\ decisions'[Len(decisions) + 1] = d
      /\ \A j \in 1 .. Len(decisions) : decisions'[j] = decisions[j] /\ decisions[j] \in DecisionType
  BY <1>1
<1>3. /\ Window \in Nat /\ Window > 0 /\ Limit \in Nat /\ Limit > 0
      /\ TicksPerSecond \in Nat /\ TicksPerSecond > 0
  BY DEF RateAssumption, Window
<1>4. \A k \in DOMAIN windows : windows[k].start \in Nat /\ windows[k].count \in Nat
  BY DEF RateInd, CountersOK
<1> DEFINE all == [k \in DOMAIN windows \cup {key} |-> IF k = key THEN w ELSE windows[k]]
<1>5. ~Elapsed(w)
  BY <1>1, <1>3 DEF Counts, Elapsed
<1>6. windows' = all \/ windows' = [k \in Kept(all) |-> all[k]]
  BY DEF Counts, Stored
<1>7. Kept(all) = {k \in DOMAIN all : ~Elapsed(all[k])}
  BY DEF Kept
<1>8. key \in DOMAIN windows' /\ windows'[key] = w
  BY <1>5, <1>6, <1>7
<1>9. \A k \in DOMAIN windows' \ {key} : k \in DOMAIN windows /\ windows'[k] = windows[k]
  BY <1>6, <1>7
<1>10. \A k \in DOMAIN windows \ DOMAIN windows' : k # key /\ Elapsed(windows[k])
  BY <1>6, <1>7, <1>8
<1>11. \A j \in 1 .. Len(decisions) : decisions[j].at \in Nat
  BY <1>2 DEF DecisionType
<1>12. QED
  BY <1>1, <1>2, <1>3, <1>4, <1>8, <1>9, <1>10, <1>11

\* A counted request joins those served after each earlier one of its key.
LEMMA AfterGrows ==
    ASSUME RateAssumption, RateInd, NEW key, NEW w, NEW d, Counts(key, w, d),
           NEW i \in 1 .. Len(decisions)
    PROVE  /\ After(i)' = After(i) \cup
                 (IF d.allowed /\ key = decisions[i].key
                  THEN {Len(decisions) + 1} ELSE {})
           /\ decisions[i].at + Window <= clock => Within(i)' = Within(i)
           /\ \A s : s <= clock /\ s \in Nat => Early(i, s)' = Early(i, s)
<1>0. PICK n : n = Len(decisions)
  OBVIOUS
<1>1. /\ n \in Nat /\ Len(decisions') = n + 1 /\ i \in 1 .. n /\ decisions'[n + 1] = d
      /\ \A j \in 1 .. n : decisions'[j] = decisions[j] /\ decisions[j].at \in Nat
      /\ clock \in Nat /\ Window \in Nat
  BY <1>0, CountsMove
<1>2. d.key = key /\ d.at = clock
  BY DEF Counts
<1>3. /\ After(i) = {j \in i .. n : decisions[j].allowed /\ decisions[j].key = decisions[i].key}
      /\ After(i)' = {j \in i .. n + 1 : decisions'[j].allowed /\ decisions'[j].key = decisions'[i].key}
  BY <1>0, <1>1 DEF After, ServedWith
<1>4. i .. n + 1 = (i .. n) \cup {n + 1} /\ \A j \in i .. n : j \in 1 .. n
  BY <1>1
<1>5. After(i)' = After(i) \cup (IF d.allowed /\ key = decisions[i].key THEN {n + 1} ELSE {})
  BY <1>1, <1>2, <1>3, <1>4
<1>6. /\ Within(i) = {j \in After(i) : decisions[j].at - decisions[i].at < Window}
      /\ Within(i)' = {j \in After(i)' : decisions'[j].at - decisions'[i].at < Window}
  BY DEF Within
<1>7. ASSUME decisions[i].at + Window <= clock PROVE Within(i)' = Within(i)
  <2>1. ~(decisions'[n + 1].at - decisions'[i].at < Window)
    BY <1>1, <1>2, <1>7
  <2>2. \A j \in After(i) : j \in 1 .. n
    BY <1>3, <1>4
  <2>3. QED
    BY <1>1, <1>5, <1>6, <2>1, <2>2
<1>8. ASSUME NEW s \in Nat, s <= clock PROVE Early(i, s)' = Early(i, s)
  <2>1. ~(decisions'[n + 1].at < s)
    BY <1>1, <1>2, <1>8
  <2>2. \A j \in After(i) : j \in 1 .. n
    BY <1>3, <1>4
  <2>3. /\ Early(i, s) = {j \in After(i) : decisions[j].at < s}
        /\ Early(i, s)' = {j \in After(i)' : decisions'[j].at < s}
    BY DEF Early
  <2>4. QED
    BY <1>1, <1>5, <2>1, <2>2, <2>3
<1>9. QED
  BY <1>0, <1>5, <1>7, <1>8

\* Less than one unit is lost by rounding down.
LEMMA RoundingDown ==
    ASSUME NEW a \in Int, NEW b \in Nat, b > 0
    PROVE  /\ a \div b \in Int
           /\ a < ((a \div b) + 1) * b
  BY SMTT(30)

LEMMA InOrderKept ==
    ASSUME RateAssumption, RateInd, PaceInd, NEW key, NEW w, NEW d, Counts(key, w, d)
    PROVE  InOrder'
<1>1. PICK n : n = Len(decisions)
  OBVIOUS
<1>2. /\ n \in Nat /\ DOMAIN decisions' = 1 .. n + 1 /\ DOMAIN decisions = 1 .. n
      /\ decisions'[n + 1] = d /\ clock' = clock /\ clock \in Nat
      /\ \A j \in 1 .. n : decisions'[j] = decisions[j] /\ decisions[j].at \in Nat
  BY <1>1, CountsMove
<1>3. d.at = clock
  BY DEF Counts
<1>4. \A i \in 1 .. n : decisions[i].at <= clock
  BY <1>2 DEF PaceInd, InOrder
<1>5. \A i, j \in 1 .. n : i <= j => decisions[i].at <= decisions[j].at
  BY <1>2 DEF PaceInd, InOrder
<1>6. ASSUME NEW i \in 1 .. n + 1 PROVE decisions'[i].at <= clock
  BY <1>2, <1>3, <1>4, <1>6
<1>7. ASSUME NEW i \in 1 .. n + 1, NEW j \in 1 .. n + 1, i <= j
      PROVE  decisions'[i].at <= decisions'[j].at
  <2>1. CASE j = n + 1
    BY <1>2, <1>3, <1>6, <2>1
  <2>2. CASE j # n + 1
    <3>1. i \in 1 .. n /\ j \in 1 .. n
      BY <1>2, <1>7, <2>2
    <3>2. QED
      BY <1>2, <1>5, <1>7, <3>1
  <2>3. QED
    BY <2>1, <2>2
<1>8. QED
  BY <1>2, <1>6, <1>7 DEF InOrder

\* Every earlier request under a key that gets a new window is of the past.
LEMMA FreshIsLater ==
    ASSUME RateAssumption, RateInd, PaceInd, NEW key, NEW w, NEW d, Counts(key, w, d),
           key \in DOMAIN windows => Elapsed(windows[key]),
           NEW i \in 1 .. Len(decisions), decisions[i].key = key
    PROVE  decisions[i].at < clock
<1>1. /\ decisions[i].at \in Nat /\ clock \in Nat /\ Window \in Nat /\ i \in DOMAIN decisions
      /\ \A k \in DOMAIN windows : windows[k].start \in Nat
  BY CountsMove
<1>2. CASE key \in DOMAIN windows
  <2>1. clock - windows[key].start >= Window
    BY <1>2 DEF Elapsed
  <2>2. decisions[i].at < windows[key].start + Window
    BY <1>1, <1>2 DEF PaceInd, Inside
  <2>3. QED
    BY <1>1, <1>2, <2>1, <2>2
<1>3. CASE key \notin DOMAIN windows
  BY <1>1, <1>3 DEF PaceInd, Inside
<1>4. QED
  BY <1>2, <1>3

LEMMA CappedKept ==
    ASSUME RateAssumption, RateInd, PaceInd, NEW key, NEW w, NEW d, Counts(key, w, d)
    PROVE  Capped'
<1> SUFFICES ASSUME NEW k \in DOMAIN windows'
             PROVE  LET spent == Cardinality(Since(k, windows[k].start)')
                    IN  /\ spent <= Limit
                        /\ windows'[k].count <= Limit => spent <= windows'[k].count
  BY DEF Capped
<1>1. PICK s : s = windows'[k].start
  OBVIOUS
<1> DEFINE old == Cardinality(Since(k, s))
           new == Cardinality(Since(k, s)')
<1>2. /\ decisions \in Seq(DecisionType) /\ d \in DecisionType
      /\ decisions' = Append(decisions, d)
  BY DEF RateInd, Counts
<1>3. /\ old \in Nat
      /\ new = IF d.allowed /\ d.key = k /\ d.at >= s THEN old + 1 ELSE old
  BY <1>2, SinceCounts
<1>4. Cardinality(Since(k, windows[k].start)') = new
  BY <1>1
<1>5. d.key = key /\ d.at = clock /\ d.allowed = (w.count <= Limit) /\ w.count \in Nat
  BY DEF Counts
<1>6. CASE k # key
  <2>1. k \in DOMAIN windows /\ windows'[k] = windows[k]
    BY <1>6, CountsMove
  <2>2. new = old
    BY <1>3, <1>5, <1>6
  <2>3. /\ old <= Limit
        /\ windows[k].count <= Limit => old <= windows[k].count
    BY <1>1, <2>1 DEF PaceInd, Capped
  <2>4. QED
    BY <1>4, <2>1, <2>2, <2>3
<1>7. CASE k = key
  <2>1. /\ windows'[k] = w /\ s = w.start /\ w.start <= clock /\ w.start \in Nat
        /\ clock \in Nat /\ Limit \in Nat /\ Limit > 0 /\ d.at >= s
    BY <1>1, <1>5, <1>7, CountsMove DEF Counts
  <2>2. new = IF w.count <= Limit THEN old + 1 ELSE old
    BY <1>3, <1>5, <1>7, <2>1
  <2>3. CASE key \in DOMAIN windows /\ w.start = windows[key].start
             /\ w.count = windows[key].count + 1
    <3>1. /\ old <= Limit /\ windows[key].count \in Nat
          /\ windows[key].count <= Limit => old <= windows[key].count
      BY <1>7, <2>1, <2>3, CountsMove DEF PaceInd, Capped
    <3>2. QED
      BY <1>3, <1>4, <1>5, <2>1, <2>2, <2>3, <3>1
  <2>4. CASE (key \in DOMAIN windows => Elapsed(windows[key])) /\ w.start = clock /\ w.count = 1
    <3>1. \A i \in 1 .. Len(decisions) : decisions[i].key = key =>
              decisions[i].at < clock /\ decisions[i].at \in Nat
      BY <2>4, FreshIsLater, CountsMove
    <3>2. Since(k, s) = {}
      BY <1>7, <2>1, <2>4, <3>1 DEF Since
    <3>3. old = 0
      BY <3>2, FS_EmptySet
    <3>4. QED
      BY <1>4, <2>1, <2>2, <2>4, <3>3
  <2>5. QED
    BY <2>3, <2>4 DEF Counts
<1>8. QED
  BY <1>6, <1>7

LEMMA InsideKept ==
    ASSUME RateAssumption, RateInd, PaceInd, NEW key, NEW w, NEW d, Counts(key, w, d)
    PROVE  Inside'
<1>1. PICK n : n = Len(decisions)
  OBVIOUS
<1>2. /\ n \in Nat /\ DOMAIN decisions' = 1 .. n + 1 /\ DOMAIN decisions = 1 .. n
      /\ decisions'[n + 1] = d /\ clock' = clock /\ clock \in Nat
      /\ Window \in Nat /\ Window > 0
      /\ \A j \in 1 .. n : decisions'[j] = decisions[j] /\ decisions[j].at \in Nat
      /\ key \in DOMAIN windows' /\ windows'[key] = w
      /\ \A k \in DOMAIN windows' \ {key} : k \in DOMAIN windows /\ windows'[k] = windows[k]
      /\ \A k \in DOMAIN windows \ DOMAIN windows' : k # key /\ Elapsed(windows[k])
      /\ \A k \in DOMAIN windows : windows[k].start \in Nat
  BY <1>1, CountsMove
<1>3. /\ d.key = key /\ d.at = clock
      /\ w.start \in Nat /\ w.start <= clock /\ clock - w.start < Window
  BY DEF Counts
<1> SUFFICES ASSUME NEW i \in 1 .. n + 1
             PROVE  IF decisions'[i].key \in DOMAIN windows'
                    THEN decisions'[i].at < windows'[decisions'[i].key].start + Window
                    ELSE decisions'[i].at < clock
  BY <1>2 DEF Inside
<1>4. CASE i = n + 1
  BY <1>2, <1>3, <1>4
<1>5. CASE i # n + 1
  <2>1. i \in 1 .. n /\ i \in DOMAIN decisions
    BY <1>2, <1>5
  <2>2. PICK k : k = decisions[i].key
    OBVIOUS
  <2>3. decisions'[i] = decisions[i] /\ decisions[i].at \in Nat
    BY <1>2, <2>1
  <2>4. IF k \in DOMAIN windows THEN decisions[i].at < windows[k].start + Window
                                ELSE decisions[i].at < clock
    BY <2>1, <2>2 DEF PaceInd, Inside
  <2>5. CASE k = key
    <3>1. CASE key \in DOMAIN windows /\ w.start = windows[key].start
      BY <1>2, <2>2, <2>3, <2>4, <2>5, <3>1
    <3>2. CASE (key \in DOMAIN windows => Elapsed(windows[key])) /\ w.start = clock
      <4>1. decisions[i].at < clock
        BY <1>1, <2>1, <2>2, <2>5, <3>2, FreshIsLater
      <4>2. QED
        BY <1>2, <2>2, <2>3, <2>5, <3>2, <4>1
    <3>3. QED
      BY <3>1, <3>2 DEF Counts
  <2>6. CASE k # key /\ k \in DOMAIN windows'
    BY <1>2, <2>2, <2>3, <2>4, <2>6
  <2>7. CASE k # key /\ k \notin DOMAIN windows'
    <3>1. CASE k \in DOMAIN windows
      <4>1. clock - windows[k].start >= Window
        BY <1>2, <2>7, <3>1 DEF Elapsed
      <4>2. QED
        BY <1>2, <2>2, <2>3, <2>4, <2>7, <3>1, <4>1
    <3>2. QED
      BY <2>2, <2>3, <2>4, <2>7, <3>1
  <2>8. QED
    BY <2>5, <2>6, <2>7
<1>6. QED
  BY <1>4, <1>5

LEMMA RetryCoversKept ==
    ASSUME RateAssumption, RateInd, PaceInd, NEW key, NEW w, NEW d, Counts(key, w, d)
    PROVE  RetryCovers'
<1>1. PICK n : n = Len(decisions)
  OBVIOUS
<1>2. /\ n \in Nat /\ DOMAIN decisions' = 1 .. n + 1 /\ DOMAIN decisions = 1 .. n
      /\ decisions'[n + 1] = d /\ clock \in Nat
      /\ Window \in Nat /\ TicksPerSecond \in Nat /\ TicksPerSecond > 0
      /\ \A j \in 1 .. n : decisions'[j] = decisions[j] /\ decisions[j].at \in Nat
      /\ key \in DOMAIN windows' /\ windows'[key] = w
      /\ \A k \in DOMAIN windows' \ {key} : k \in DOMAIN windows /\ windows'[k] = windows[k]
  BY <1>1, CountsMove
<1>3. /\ d.key = key /\ d.at = clock /\ d.retry = RetryAfter(w)
      /\ w.start \in Nat /\ w.start <= clock
  BY DEF Counts
<1> SUFFICES ASSUME NEW i \in 1 .. n + 1, ~decisions'[i].allowed,
                    decisions'[i].key \in DOMAIN windows',
                    windows'[decisions'[i].key].start <= decisions'[i].at
             PROVE  windows'[decisions'[i].key].start + Window <
                        decisions'[i].at + (decisions'[i].retry + 1) * TicksPerSecond
  BY <1>2 DEF RetryCovers
<1>4. CASE i = n + 1
  <2> DEFINE left == Window - (clock - w.start)
             q    == left \div TicksPerSecond
  <2>1. left \in Int
    BY <1>2, <1>3
  <2>2. q \in Int /\ left < (q + 1) * TicksPerSecond
    BY <1>2, <2>1, RoundingDown
  <2>3. d.retry \in Int /\ d.retry >= q
    BY <1>3, <2>2 DEF RetryAfter
  <2>4. (q + 1) * TicksPerSecond <= (d.retry + 1) * TicksPerSecond
    <3> HIDE DEF q, left
    <3>1. \A a, b \in Int : a >= b => (b + 1) * TicksPerSecond <= (a + 1) * TicksPerSecond
      BY <1>2, SMTT(30)
    <3>2. QED
      BY <2>2, <2>3, <3>1
  <2>5. left < (d.retry + 1) * TicksPerSecond
    <3> HIDE DEF q, left
    <3>1. (q + 1) * TicksPerSecond \in Int /\ (d.retry + 1) * TicksPerSecond \in Int
      BY <1>2, <2>2, <2>3
    <3>2. QED
      BY <2>1, <2>2, <2>4, <3>1
  <2>6. (d.retry + 1) * TicksPerSecond \in Int
    BY <1>2, <2>3
  <2>7. w.start + Window < clock + (d.retry + 1) * TicksPerSecond
    BY <1>2, <1>3, <2>5, <2>6
  <2>8. QED
    BY <1>2, <1>3, <1>4, <2>7
<1>5. CASE i # n + 1
  <2>1. i \in 1 .. n /\ i \in DOMAIN decisions
    BY <1>2, <1>5
  <2>2. PICK k : k = decisions[i].key
    OBVIOUS
  <2>3. decisions'[i] = decisions[i] /\ decisions[i].at \in Nat
    BY <1>2, <2>1
  <2>4. CASE k \in DOMAIN windows /\ windows'[k].start = windows[k].start
    BY <2>1, <2>2, <2>3, <2>4 DEF PaceInd, RetryCovers
  <2>5. CASE k = key /\ (key \in DOMAIN windows => Elapsed(windows[key])) /\ w.start = clock
    <3>1. decisions[i].at < clock
      BY <1>1, <2>1, <2>2, <2>5, FreshIsLater
    <3>2. QED
      BY <1>2, <2>2, <2>3, <2>5, <3>1
  <2>6. QED
    BY <1>2, <2>2, <2>3, <2>4, <2>5 DEF Counts
<1>6. QED
  BY <1>4, <1>5

\* A counted request leaves every request placed, and is itself in the window
\* of its key.
LEMMA PlacedKept ==
    ASSUME RateAssumption, RateInd, PaceInd, NEW key, NEW w, NEW d, Counts(key, w, d),
           NEW i \in DOMAIN decisions'
    PROVE  Placed(i)'
<1>1. PICK n : n = Len(decisions)
  OBVIOUS
<1>2. /\ n \in Nat /\ DOMAIN decisions' = 1 .. n + 1 /\ DOMAIN decisions = 1 .. n
      /\ decisions'[n + 1] = d /\ clock' = clock /\ clock \in Nat
      /\ Window \in Nat /\ Window > 0 /\ Limit \in Nat
      /\ \A j \in 1 .. n : decisions'[j] = decisions[j] /\ decisions[j].at \in Nat
      /\ key \in DOMAIN windows' /\ windows'[key] = w
      /\ \A k \in DOMAIN windows' \ {key} : k \in DOMAIN windows /\ windows'[k] = windows[k]
      /\ \A k \in DOMAIN windows \ DOMAIN windows' : k # key /\ Elapsed(windows[k])
      /\ \A k \in DOMAIN windows : windows[k].start \in Nat
  BY <1>1, CountsMove
<1>3. /\ d.key = key /\ d.at = clock
      /\ w.start \in Nat /\ w.start <= clock /\ clock - w.start < Window
  BY DEF Counts
<1>4. \A k \in DOMAIN windows : windows[k].start <= clock
  BY DEF RateInd, CountersOK
<1>5. CASE i = n + 1
  BY <1>2, <1>3, <1>5 DEF Placed
<1>6. CASE i # n + 1
  <2>1. i \in 1 .. n /\ i \in DOMAIN decisions
    BY <1>2, <1>6
  <2>2. PICK k : k = decisions[i].key
    OBVIOUS
  <2>3. decisions'[i] = decisions[i] /\ decisions[i].at \in Nat
    BY <1>2, <2>1
  <2>4. /\ After(i)' = After(i) \cup (IF d.allowed /\ key = k THEN {n + 1} ELSE {})
        /\ decisions[i].at + Window <= clock => Within(i)' = Within(i)
        /\ \A s : s <= clock /\ s \in Nat => Early(i, s)' = Early(i, s)
    BY <1>1, <2>1, <2>2, AfterGrows
  <2>5. ASSUME NEW s \in Nat, s <= clock, k \in DOMAIN windows', windows'[k].start = s,
               Cardinality(Early(i, s)) <= Limit, decisions[i].at < s
        PROVE  Placed(i)'
    <3>1. Cardinality(Early(i, s)') <= Limit
      BY <2>4, <2>5
    <3>2. Cardinality(Early(i, windows[k].start)') <= Limit
      BY <2>5, <3>1
    <3>3. QED
      BY <2>2, <2>3, <2>5, <3>2 DEF Placed
  <2>6. ASSUME decisions[i].at + Window <= clock, Cardinality(Within(i)) <= 2 * Limit
        PROVE  Placed(i)'
    BY <1>2, <2>3, <2>4, <2>6 DEF Placed
  <2>7. ASSUME k \in DOMAIN windows', windows'[k].start <= decisions[i].at
        PROVE  Placed(i)'
    BY <2>2, <2>3, <2>7 DEF Placed
  <2>8. ASSUME Cardinality(After(i)) <= Limit, k # key, k \notin DOMAIN windows'
        PROVE  Placed(i)'
    <3>1. After(i)' = After(i)
      BY <2>4, <2>8
    <3>2. QED
      BY <2>2, <2>3, <2>8, <3>1 DEF Placed
  <2>9. Placed(i)
    BY <2>1 DEF PaceInd
  <2>10. CASE k \in DOMAIN windows /\ k \in DOMAIN windows' /\ windows'[k].start = windows[k].start
    <3>1. windows[k].start \in Nat /\ windows[k].start <= clock
      BY <1>2, <1>4, <2>10
    <3>2. QED
      BY <2>2, <2>5, <2>6, <2>7, <2>9, <2>10, <3>1 DEF Placed
  <2>11. CASE k = key /\ (key \in DOMAIN windows => Elapsed(windows[key])) /\ w.start = clock
    <3>1. decisions[i].at < clock
      BY <1>1, <2>1, <2>2, <2>11, FreshIsLater
    <3>2. ASSUME Cardinality(After(i)) <= Limit PROVE Placed(i)'
      <4>1. Early(i, clock) \subseteq After(i)
        BY DEF Early
      <4>2. Cardinality(Early(i, clock)) <= Cardinality(After(i))
        BY <2>1, <4>1, Sizes, Parts
      <4>3. Cardinality(Early(i, clock)) \in Nat /\ Cardinality(After(i)) \in Nat
        BY <2>1, Sizes, Parts
      <4>4. Cardinality(Early(i, clock)) <= Limit
        BY <1>2, <3>2, <4>2, <4>3
      <4>5. QED
        BY <1>2, <2>5, <2>11, <3>1, <4>4
    <3>3. CASE key \in DOMAIN windows
      <4>1. \/ Cardinality(After(i)) <= Limit
            \/ /\ decisions[i].at + Window <= clock
               /\ Cardinality(Within(i)) <= 2 * Limit
        BY <2>1, <2>2, <2>11, <3>3, Elapses
      <4>2. QED
        BY <2>6, <3>2, <4>1
    <3>4. CASE key \notin DOMAIN windows
      BY <2>2, <2>6, <2>9, <2>11, <3>2, <3>4 DEF Placed
    <3>5. QED
      BY <3>3, <3>4
  <2>12. CASE k # key /\ k \notin DOMAIN windows'
    <3>1. CASE k \in DOMAIN windows
      <4>1. Elapsed(windows[k])
        BY <1>2, <2>12, <3>1
      <4>2. \/ Cardinality(After(i)) <= Limit
            \/ /\ decisions[i].at + Window <= clock
               /\ Cardinality(Within(i)) <= 2 * Limit
        BY <2>1, <2>2, <3>1, <4>1, Elapses
      <4>3. QED
        BY <2>6, <2>8, <2>12, <4>2
    <3>2. CASE k \notin DOMAIN windows
      BY <2>2, <2>6, <2>8, <2>9, <2>12, <3>2 DEF Placed
    <3>3. QED
      BY <3>1, <3>2
  <2>13. CASE k # key /\ k \in DOMAIN windows'
    BY <1>2, <2>10, <2>13
  <2>14. CASE k = key
    BY <1>2, <2>10, <2>11, <2>14 DEF Counts
  <2>15. QED
    BY <2>12, <2>13, <2>14
<1>7. QED
  BY <1>5, <1>6

LEMMA PaceInitInd == RateAssumption /\ RateInit => PaceInd
<1> SUFFICES ASSUME RateAssumption, RateInit PROVE PaceInd
  OBVIOUS
<1>1. DOMAIN windows = {} /\ DOMAIN decisions = {}
  BY DEF RateInit
<1>2. QED
  BY <1>1 DEF PaceInd, InOrder, Capped, Inside, RetryCovers

\* Every step keeps the windows of a key one behind the other.
LEMMA PaceNextInd ==
    ASSUME RateAssumption, RateInd, PaceInd, [RateNext]_rateVars
    PROVE  PaceInd'
<1>1. CASE \E c \in Callers : dispatch(c)
  <2>1. PICK c \in Callers : dispatch(c)
    BY <1>1
  <2>2. PICK key, w, d : Counts(key, w, d)
    BY <2>1, DispatchCounts
  <2>3. InOrder' /\ Capped' /\ Inside' /\ RetryCovers'
    BY <2>2, InOrderKept, CappedKept, InsideKept, RetryCoversKept
  <2>4. \A i \in DOMAIN decisions' : Placed(i)'
    BY <2>2, PlacedKept
  <2>5. QED
    BY <2>3, <2>4 DEF PaceInd
<1>2. CASE tick \/ UNCHANGED rateVars
  <2>1. /\ clock \in Nat /\ clock' \in Nat /\ clock <= clock'
        /\ windows' = windows /\ decisions' = decisions
    BY <1>2 DEF tick, rateVars, RateInd
  <2>2. decisions \in Seq(DecisionType)
    BY DEF RateInd
  <2>3. \A i \in DOMAIN decisions : decisions[i].at \in Nat
    <3>1. \A i \in DOMAIN decisions : decisions[i] \in DecisionType
      BY <2>2
    <3>2. QED
      BY <3>1 DEF DecisionType
  <2>4. Window \in Nat
    BY DEF RateAssumption, Window
  <2>5. InOrder'
    BY <2>1, <2>3 DEF PaceInd, InOrder
  <2>6. Capped' /\ RetryCovers'
    BY <2>1 DEF PaceInd, Capped, Since, RetryCovers
  <2>7. Inside'
    BY <2>1, <2>3 DEF PaceInd, Inside
  <2>8. ASSUME NEW i \in DOMAIN decisions PROVE Placed(i)'
    <3>1. /\ After(i)' = After(i) /\ Within(i)' = Within(i)
          /\ \A s : Early(i, s)' = Early(i, s)
      BY <2>1 DEF After, ServedWith, Within, Early
    <3>2. Placed(i)
      BY DEF PaceInd
    <3>3. CASE decisions[i].at + Window <= clock
      <4>1. decisions[i].at + Window <= clock'
        BY <2>1, <2>3, <2>4, <3>3
      <4>2. QED
        BY <2>1, <3>1, <3>2, <4>1 DEF Placed
    <3>4. CASE ~(decisions[i].at + Window <= clock)
      BY <2>1, <3>1, <3>2, <3>4 DEF Placed
    <3>5. QED
      BY <3>3, <3>4
  <2>9. QED
    BY <2>1, <2>5, <2>6, <2>7, <2>8 DEF PaceInd
<1>3. QED
  BY <1>1, <1>2 DEF RateNext

THEOREM PaceInvariant == RateSpec => [](RateInd /\ PaceInd)
<1>1. RateInit => RateInd /\ PaceInd
  BY RateInitInd, PaceInitInd, RateAssumption
<1>2. RateInd /\ PaceInd /\ [RateNext]_rateVars => RateInd' /\ PaceInd'
  BY RateNextInd, PaceNextInd, RateAssumption
<1>3. QED
  BY <1>1, <1>2, PTL DEF RateSpec

\* However the keys come and go, any stretch of time as long as a window sees at
\* most two windows' worth of requests under one key (check, _evict_expired).
THEOREM RateTwiceTheLimitAtMost == RateSpec => []TwiceTheLimitAtMost
<1>1. ASSUME RateInd, PaceInd, NEW i \in DOMAIN decisions
      PROVE  Cardinality(Within(i)) <= 2 * Limit
  <2> DEFINE k == decisions[i].key
             s == windows[k].start
  <2>1. /\ Len(decisions) \in Nat /\ i \in 1 .. Len(decisions) /\ decisions[i].at \in Nat
        /\ \A j \in 1 .. Len(decisions) : decisions[j].at \in Nat
    BY <1>1, Sizes DEF DecisionType
  <2>2. Limit \in Nat
    BY RateAssumption DEF RateAssumption
  <2>3. Cardinality(Within(i)) \in Nat /\ Cardinality(After(i)) \in Nat
    BY <1>1, Sizes, Parts
  <2>4. Cardinality(Within(i)) <= Cardinality(After(i))
    <3>1. Within(i) \subseteq After(i)
      BY DEF Within
    <3>2. QED
      BY <1>1, <3>1, Sizes, Parts
  <2>5. CASE k \in DOMAIN windows
    <3>1. s \in Nat /\ Cardinality(Since(k, s)) <= Limit
      BY <1>1, <2>5 DEF RateInd, CountersOK, PaceInd, Capped
    <3>2. Cardinality(Since(k, s)) \in Nat /\ Cardinality(Early(i, s)) \in Nat
      BY <1>1, Sizes, Parts
    <3>3. CASE s <= decisions[i].at
      <4>1. After(i) \subseteq Since(k, s)
        BY <1>1, <2>1, <3>1, <3>3 DEF After, ServedWith, Since, PaceInd, InOrder
      <4>2. Cardinality(After(i)) <= Cardinality(Since(k, s))
        BY <1>1, <4>1, Sizes, Parts
      <4>3. QED
        BY <2>2, <2>3, <2>4, <3>1, <3>2, <4>2
    <3>4. CASE Cardinality(Early(i, s)) <= Limit
      <4>1. Within(i) \subseteq Early(i, s) \cup Since(k, s)
        BY <2>1, <3>1 DEF Within, Early, After, ServedWith, Since
      <4>2. Early(i, s) \cup Since(k, s) \in SUBSET (1 .. Len(decisions))
        BY <1>1, Sizes
      <4>3. /\ Cardinality(Within(i)) <= Cardinality(Early(i, s) \cup Since(k, s))
            /\ Cardinality(Early(i, s) \cup Since(k, s)) \in Nat
        BY <1>1, <2>1, <4>1, <4>2, Sizes, Parts
      <4>4. Cardinality(Early(i, s) \cup Since(k, s)) <=
                Cardinality(Early(i, s)) + Cardinality(Since(k, s))
        BY <1>1, Sizes, Parts
      <4>5. QED
        BY <2>2, <2>3, <3>1, <3>2, <3>4, <4>3, <4>4
    <3>5. CASE Cardinality(Within(i)) <= 2 * Limit
      BY <3>5
    <3>6. QED
      BY <1>1, <2>5, <3>3, <3>4, <3>5 DEF PaceInd, Placed
  <2>6. CASE k \notin DOMAIN windows
    BY <1>1, <2>2, <2>3, <2>4, <2>6 DEF PaceInd, Placed
  <2>7. QED
    BY <2>5, <2>6
<1>2. RateInd /\ PaceInd => TwiceTheLimitAtMost
  BY <1>1 DEF TwiceTheLimitAtMost, Within, After
<1>3. QED
  BY <1>2, PaceInvariant, PTL

\* A request refused now, after a refusal under its key that it waited out: the
\* requests that spent the window came in between.
LEMMA RefusedAgain ==
    ASSUME RateAssumption, RateInd, PaceInd, NEW key, NEW w, NEW d, Counts(key, w, d),
           ~d.allowed, NEW i \in 1 .. Len(decisions),
           ~decisions[i].allowed, decisions[i].key = key,
           clock - decisions[i].at >= (decisions[i].retry + 1) * TicksPerSecond
    PROVE  Cardinality(ServedWith(decisions[i], i + 1 .. Len(decisions))) >= Limit
<1>1. PICK n : n = Len(decisions)
  OBVIOUS
<1>2. /\ n \in Nat /\ DOMAIN decisions = 1 .. n /\ clock \in Nat
      /\ Window \in Nat /\ Limit \in Nat /\ TicksPerSecond \in Nat
      /\ \A j \in 1 .. n : decisions[j] \in DecisionType /\ decisions[j].at \in Nat
      /\ \A k \in DOMAIN windows : windows[k].start \in Nat /\ windows[k].count \in Nat
      /\ Limit > 0
  BY <1>1, CountsMove
<1>3. w.count \in Nat /\ w.count > Limit
  <2>1. w.count \in Nat /\ ~(w.count <= Limit)
    BY DEF Counts
  <2>2. QED
    BY <1>2, <2>1
<1>4. /\ key \in DOMAIN windows /\ ~Elapsed(windows[key])
      /\ w.count = windows[key].count + 1
  BY <1>2, <1>3 DEF Counts
<1>5. PICK s : s = windows[key].start
  OBVIOUS
<1>6. s \in Nat /\ clock - s < Window /\ windows[key].count >= Limit
  BY <1>2, <1>3, <1>4, <1>5 DEF Elapsed
<1>7. Cardinality(Since(key, s)) >= Limit
  <2>1. Cardinality(Since(key, s)) \in Nat
    BY SinceFinite DEF RateInd
  <2>2. QED
    BY <1>2, <1>4, <1>5, <1>6, <2>1 DEF RateInd, Backed
<1>8. decisions[i].at < s
  <2>1. SUFFICES ASSUME ~(decisions[i].at < s) PROVE FALSE
    OBVIOUS
  <2>2. i \in DOMAIN decisions /\ s <= decisions[i].at
    BY <1>1, <1>2, <1>6, <2>1
  <2>3. s + Window < decisions[i].at + (decisions[i].retry + 1) * TicksPerSecond
    BY <1>4, <1>5, <2>2 DEF PaceInd, RetryCovers
  <2>4. (decisions[i].retry + 1) * TicksPerSecond \in Int
    BY <1>1, <1>2 DEF DecisionType
  <2>5. QED
    BY <1>1, <1>2, <1>6, <2>3, <2>4
<1> DEFINE Served == ServedWith(decisions[i], i + 1 .. n)
<1>9. Since(key, s) \subseteq Served
  <2> SUFFICES ASSUME NEW j \in Since(key, s) PROVE j \in Served
    OBVIOUS
  <2>1. j \in 1 .. n /\ decisions[j].allowed /\ decisions[j].key = key /\ decisions[j].at >= s
    BY <1>1 DEF Since
  <2>2. ~(j <= i)
    <3>1. SUFFICES ASSUME j <= i PROVE FALSE
      OBVIOUS
    <3>2. decisions[j].at <= decisions[i].at
      BY <1>1, <1>2, <2>1, <3>1 DEF PaceInd, InOrder
    <3>3. QED
      BY <1>1, <1>2, <1>6, <1>8, <2>1, <3>2
  <2>3. QED
    BY <1>1, <1>2, <2>1, <2>2 DEF ServedWith
<1>10. Served \in SUBSET (1 .. n) /\ Since(key, s) \in SUBSET (1 .. n)
  BY <1>1, <1>2 DEF ServedWith, Since
<1>11. /\ Cardinality(Since(key, s)) <= Cardinality(Served)
       /\ Cardinality(Since(key, s)) \in Nat /\ Cardinality(Served) \in Nat
  BY <1>2, <1>9, <1>10, Parts
<1>12. QED
  BY <1>1, <1>2, <1>7, <1>11

LEMMA RetryKept ==
    ASSUME RateAssumption, RateInd, PaceInd, RetryAfterSuffices,
           NEW key, NEW w, NEW d, Counts(key, w, d)
    PROVE  RetryAfterSuffices'
<1>1. PICK n : n = Len(decisions)
  OBVIOUS
<1>2. /\ n \in Nat /\ DOMAIN decisions' = 1 .. n + 1 /\ DOMAIN decisions = 1 .. n
      /\ decisions'[n + 1] = d /\ clock \in Nat /\ Limit \in Nat
      /\ TicksPerSecond \in Nat /\ TicksPerSecond > 0
      /\ \A j \in 1 .. n : /\ decisions'[j] = decisions[j] /\ decisions[j].at \in Nat
                           /\ decisions[j] \in DecisionType
  BY <1>1, CountsMove
<1>3. d.key = key /\ d.at = clock /\ d.retry \in Nat /\ d.retry > 0
  BY DEF Counts, DecisionType
<1> SUFFICES ASSUME NEW i \in 1 .. n + 1, NEW j \in 1 .. n + 1,
                    ~decisions'[i].allowed, ~decisions'[j].allowed,
                    decisions'[i].key = decisions'[j].key,
                    decisions'[j].at - decisions'[i].at >=
                        (decisions'[i].retry + 1) * TicksPerSecond
             PROVE  Cardinality(ServedWith(decisions[i], i + 1 .. j - 1)') >= Limit
  BY <1>2 DEF RetryAfterSuffices
<1>4. CASE i = n + 1
  <2>1. decisions'[j].at <= clock
    BY <1>2, <1>3 DEF PaceInd, InOrder
  <2>2. decisions'[j].at \in Nat
    BY <1>2, <1>3
  <2>3. (d.retry + 1) * TicksPerSecond > 0
    BY <1>2, <1>3, SMTT(30)
  <2>4. (d.retry + 1) * TicksPerSecond \in Int
    BY <1>2, <1>3
  <2>5. decisions'[j].at - clock >= (d.retry + 1) * TicksPerSecond
    BY <1>2, <1>3, <1>4
  <2>6. QED
    BY <1>2, <2>1, <2>2, <2>3, <2>4, <2>5
<1>5. CASE i # n + 1
  <2>1. i \in 1 .. n /\ decisions'[i] = decisions[i]
    BY <1>2, <1>5
  <2>2. ServedWith(decisions[i], i + 1 .. j - 1)' = ServedWith(decisions[i], i + 1 .. j - 1)
    <3>1. \A k \in i + 1 .. j - 1 : decisions'[k] = decisions[k]
      BY <1>2, <2>1
    <3>2. QED
      BY <2>1, <3>1 DEF ServedWith
  <2>3. CASE j \in 1 .. n
    <3>1. decisions'[j] = decisions[j]
      BY <1>2, <2>3
    <3>2. QED
      BY <1>2, <2>1, <2>2, <2>3, <3>1 DEF RetryAfterSuffices
  <2>4. CASE j = n + 1
    <3>1. Cardinality(ServedWith(decisions[i], i + 1 .. n)) >= Limit
      BY <1>1, <1>2, <1>3, <2>1, <2>4, RefusedAgain
    <3>2. j - 1 = n
      BY <1>2, <2>4
    <3>3. QED
      BY <2>2, <3>1, <3>2
  <2>5. QED
    BY <1>2, <2>3, <2>4
<1>6. QED
  BY <1>4, <1>5

\* Waiting for Retry-After, and the second it may be rounded down by, is enough:
\* a second refusal means that others spent the new window (check).
THEOREM RateRetryAfterSuffices == RateSpec => []RetryAfterSuffices
<1>1. RateInit => RetryAfterSuffices
  BY DEF RateInit, RetryAfterSuffices
<1>2. ASSUME RateInd, PaceInd, RetryAfterSuffices, [RateNext]_rateVars
      PROVE  RetryAfterSuffices'
  <2>1. CASE \E c \in Callers : dispatch(c)
    <3>1. PICK c \in Callers : dispatch(c)
      BY <2>1
    <3>2. PICK key, w, d : Counts(key, w, d)
      BY <1>2, <3>1, RateAssumption, DispatchCounts
    <3>3. QED
      BY <1>2, <3>2, RateAssumption, RetryKept
  <2>2. CASE tick \/ UNCHANGED rateVars
    <3>1. decisions' = decisions
      BY <2>2 DEF tick, rateVars
    <3>2. QED
      BY <1>2, <3>1 DEF RetryAfterSuffices, ServedWith
  <2>3. QED
    BY <1>2, <2>1, <2>2 DEF RateNext
<1>3. QED
  BY <1>1, <1>2, PaceInvariant, PTL DEF RateSpec
=============================================================================
