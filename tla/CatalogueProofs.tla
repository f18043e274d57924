-------------------------- MODULE CatalogueProofs --------------------------
(***************************************************************************)
(* Theorems of Catalogue, for any number of requests, users, names, texts,  *)
(* categories, merchants, patterns and suggestions.                        *)
(***************************************************************************)
EXTENDS Catalogue, TLAPS, FiniteSetTheorems

-----------------------------------------------------------------------------
(* The inductive invariant.                                                *)

\* The kinds of the requests that may be at a step.
KindsAt == [create_category |-> {"create_category"}, category_insert |-> {"create_category"},
            update_category |-> {"update_category"}, category_name |-> {"update_category"},
            category_parent |-> {"create_category", "update_category"},
            category_write |-> {"update_category"},
            create_merchant |-> {"create_merchant", "correct"},
            merchant_insert |-> {"create_merchant", "correct"},
            create_pattern |-> {"create_pattern"},
            pattern_insert |-> {"create_pattern", "correct"},
            correct |-> {"correct"}, learned_pattern |-> {"correct"},
            message |-> {"message"}, suggest_merchant |-> {"suggest_merchant"},
            suggest_category |-> {"suggest_category"},
            review |-> {"review"}, mark_reviewed |-> {"review"}]

\* A reference of a user's to a category, in a table of categories.
Refers(c, user, cats) == c # NULL => /\ c \in CategoryIds /\ cats[c] # NULL
                                     /\ cats[c].user \in {user, NULL}

\* What a request with session s holds at a step, over the tables.
HeldAt(step, s, cats, mers, sugs) ==
    /\ s \in Session
    /\ step # "idle" => s.request \in Requests /\ s.request.kind \in KindsAt[step]
    /\ step = "category_insert" => Refers(s.request.parent, s.request.user, cats)
    /\ /\ step \in {"category_name", "category_parent", "category_write"}
       /\ s.request.kind = "update_category"
       => /\ cats[s.request.id] # NULL /\ cats[s.request.id].user = s.request.user
          /\ s.seen \in Category
    /\ step = "category_write" => /\ Refers(s.request.parent, s.request.user, cats)
                                  /\ s.request.parent # s.request.id
    /\ step \in {"create_merchant", "merchant_insert", "learned_pattern"} =>
          (s.request.kind = "correct" => build_learned_pattern(s.request.raw) # NULL)
    /\ step = "learned_pattern" => s.merchant \in MerchantIds /\ mers[s.merchant] # NULL
    /\ step = "pattern_insert" =>
          /\ s.seen \in MerchantPattern /\ mers[s.seen.merchant] # NULL
          /\ s.seen.user = s.request.user
    /\ step = "mark_reviewed" => sugs[s.request.id] # NULL /\ s.seen \in AISuggestion

CategoriesOK(cats) ==
    /\ cats \in [CategoryIds -> Category \cup {NULL}]
    /\ \A c \in CategoryIds : cats[c] # NULL =>
          /\ cats[c].user = NULL => cats[c] = SystemCategories[c]
          /\ Refers(cats[c].parent, cats[c].user, cats)
          /\ cats[c].parent # c

PatternsOK(pats, mers) ==
    /\ pats \in [PatternIds -> MerchantPattern \cup {NULL}]
    /\ \A p \in PatternIds : pats[p] # NULL => mers[pats[p].merchant] # NULL

FilingsOK(filings, cats) ==
    /\ filings \subseteq Filing
    /\ \A f \in filings : Refers(f.category, f.user, cats)

TablesOK(cats, mers, pats, comments, sugs, filings, n) ==
    /\ CategoriesOK(cats)
    /\ mers \in [MerchantIds -> Merchant \cup {NULL}]
    /\ PatternsOK(pats, mers)
    /\ comments \subseteq UserFeedback
    /\ sugs \in [SuggestionIds -> AISuggestion \cup {NULL}]
    /\ FilingsOK(filings, cats)
    /\ n \in 0 .. MaxRequests

Tables == TablesOK(categories, merchants, patterns, feedback, suggestions, filed, accepted)

CatalogueInd ==
    /\ Tables
    /\ pc \in [Threads -> CatalogueSteps]
    /\ session \in [Threads -> Session]
    /\ \A t \in Threads : HeldAt(pc[t], session[t], categories, merchants, suggestions)

LEMMA RequestShape ==
    ASSUME NEW r \in Requests
    PROVE  /\ r.user \in Users
           /\ r.kind = "create_category" =>
                 r.name \in Names /\ r.parent \in CategoryIds \cup {NULL}
           /\ r.kind = "update_category" =>
                 /\ r.id \in CategoryIds /\ r.name \in Names \cup {NULL}
                 /\ r.parent \in CategoryIds \cup {NULL}
           /\ r.kind = "create_merchant" =>
                 r.name \in Names /\ r.category \in CategoryIds \cup {NULL}
           /\ r.kind = "create_pattern" =>
                 r.merchant \in MerchantIds /\ r.type \in PatternType /\ r.text \in Text
           /\ r.kind = "correct" => r.raw \in MerchantRaw /\ r.name \in Names
           /\ r.kind = "message" => r.raw \in MerchantRaw
           /\ r.kind = "review" => r.id \in SuggestionIds /\ r.accepted \in BOOLEAN
           /\ r.kind \in {"create_category", "update_category", "create_merchant",
                 "create_pattern", "correct", "message", "suggest_merchant",
                 "suggest_category", "review"}
           /\ r.kind \in KindsAt[r.kind]
<1>1. r \in Request
  BY CatalogueAssumption
<1>2. CASE r \in CategoryRequest
  BY <1>2 DEF CategoryRequest, KindsAt
<1>3. CASE r \in MerchantRequest
  BY <1>3 DEF MerchantRequest, KindsAt
<1>4. CASE r \in SuggestionRequest
  BY <1>4 DEF SuggestionRequest, KindsAt
<1> QED BY <1>1, <1>2, <1>3, <1>4 DEF Request

LEMMA NoSessionHolds ==
    ASSUME NEW cats, NEW mers, NEW sugs
    PROVE  HeldAt("idle", NoSession, cats, mers, sugs)
BY DEF HeldAt, NoSession, Session

LEMMA CatalogueInitInd == CatalogueInit => CatalogueInd
<1> SUFFICES ASSUME CatalogueInit PROVE CatalogueInd
  OBVIOUS
<1> USE CatalogueAssumption DEF CatalogueInit
<1>1. CategoriesOK(categories)
  BY DEF CategoriesOK, Refers
<1>2. PatternsOK(patterns, merchants)
  BY DEF PatternsOK
<1>3. FilingsOK(filed, categories)
  BY DEF FilingsOK
<1>4. Tables
  BY <1>1, <1>2, <1>3 DEF Tables, TablesOK
<1>5. NoSession \in Session
  BY DEF NoSession, Session
<1>6. \A t \in Threads : HeldAt(pc[t], session[t], categories, merchants, suggestions)
  BY NoSessionHolds
<1> QED BY <1>4, <1>5, <1>6 DEF CatalogueInd, CatalogueSteps

-----------------------------------------------------------------------------
(* Steps.                                                                  *)

\* Nothing is deleted, and a category stays its user's.
Owned(cats, new) ==
    \A c \in CategoryIds : cats[c] # NULL => new[c] # NULL /\ new[c].user = cats[c].user
Kept(ids, rows, new) == \A i \in ids : rows[i] # NULL => new[i] # NULL

\* What a step of request t may do to the tables, and to its own session.
Moves(t) ==
    /\ TablesOK(categories', merchants', patterns', feedback', suggestions', filed', accepted')
    /\ Owned(categories, categories') /\ Kept(MerchantIds, merchants, merchants')
    /\ Kept(SuggestionIds, suggestions, suggestions')
    /\ \E next \in CatalogueSteps : \E s :
          /\ pc' = [pc EXCEPT ![t] = next] /\ session' = [session EXCEPT ![t] = s]
          /\ HeldAt(next, s, categories', merchants', suggestions')

LEMMA HeldStays ==
    ASSUME NEW step \in CatalogueSteps, NEW s, NEW cats, NEW newCats, NEW mers, NEW newMers,
           NEW sugs, NEW newSugs, HeldAt(step, s, cats, mers, sugs),
           Owned(cats, newCats), Kept(MerchantIds, mers, newMers),
           Kept(SuggestionIds, sugs, newSugs)
    PROVE  HeldAt(step, s, newCats, newMers, newSugs)
<1>1. ASSUME NEW c, NEW user, Refers(c, user, cats) PROVE Refers(c, user, newCats)
  BY <1>1 DEF Refers, Owned
<1>2. /\ step \in {"category_name", "category_parent", "category_write"}
      /\ s.request.kind = "update_category"
      =>
          newCats[s.request.id] # NULL /\ newCats[s.request.id].user = s.request.user
  BY RequestShape DEF HeldAt, Owned, KindsAt
<1>3. step = "learned_pattern" => newMers[s.merchant] # NULL
  BY DEF HeldAt, Kept
<1>4. step = "pattern_insert" => newMers[s.seen.merchant] # NULL
  BY DEF HeldAt, Kept, MerchantPattern
<1>5. step = "mark_reviewed" => newSugs[s.request.id] # NULL
  BY RequestShape DEF HeldAt, Kept, KindsAt
<1> QED BY <1>1, <1>2, <1>3, <1>4, <1>5 DEF HeldAt

LEMMA MovesKeep ==
    ASSUME CatalogueInd, NEW t \in Threads, Moves(t)
    PROVE  CatalogueInd'
<1>1. PICK next, s :
          /\ next \in CatalogueSteps
          /\ pc' = [pc EXCEPT ![t] = next] /\ session' = [session EXCEPT ![t] = s]
          /\ HeldAt(next, s, categories', merchants', suggestions')
  BY DEF Moves
<1>2. pc' \in [Threads -> CatalogueSteps] /\ session' \in [Threads -> Session]
  BY <1>1 DEF CatalogueInd, HeldAt
<1>3. \A u \in Threads : HeldAt(pc'[u], session'[u], categories', merchants', suggestions')
  <2> SUFFICES ASSUME NEW u \in Threads
               PROVE  HeldAt(pc'[u], session'[u], categories', merchants', suggestions')
    OBVIOUS
  <2>1. CASE u = t
    BY <1>1, <2>1 DEF CatalogueInd
  <2>2. CASE u # t
    <3>1. pc'[u] = pc[u] /\ session'[u] = session[u] /\ pc[u] \in CatalogueSteps
      BY <1>1, <2>2 DEF CatalogueInd
    <3>2. HeldAt(pc[u], session[u], categories', merchants', suggestions')
      BY <3>1, HeldStays DEF CatalogueInd, Moves
    <3> QED BY <3>1, <3>2
  <2> QED BY <2>1, <2>2
<1>4. Tables'
  BY DEF Moves, Tables
<1> QED BY <1>2, <1>3, <1>4 DEF CatalogueInd

\* What leaves every table as it was.
LEMMA TablesStay ==
    ASSUME CatalogueInd, UNCHANGED <<tables, accepted>>
    PROVE  /\ TablesOK(categories', merchants', patterns', feedback', suggestions', filed',
                       accepted')
           /\ Owned(categories, categories') /\ Kept(MerchantIds, merchants, merchants')
           /\ Kept(SuggestionIds, suggestions, suggestions')
BY DEF CatalogueInd, Tables, tables, Owned, Kept

LEMMA AnsweredMoves ==
    ASSUME CatalogueInd, NEW t \in Threads, Answered(t),
           TablesOK(categories', merchants', patterns', feedback', suggestions', filed',
                    accepted'),
           Owned(categories, categories'), Kept(MerchantIds, merchants, merchants'),
           Kept(SuggestionIds, suggestions, suggestions')
    PROVE  Moves(t)
BY NoSessionHolds DEF Moves, Answered, CatalogueSteps

\* A step that changes no table and answers the request.
LEMMA SilentMoves ==
    ASSUME CatalogueInd, NEW t \in Threads, Answered(t), UNCHANGED <<tables, accepted>>
    PROVE  Moves(t)
BY TablesStay, AnsweredMoves

LEMMA HoldMoves ==
    ASSUME CatalogueInd, NEW t \in Threads, NEW next \in CatalogueSteps, NEW column, NEW value,
           Hold(t, next, column, value), UNCHANGED <<tables, accepted>>,
           HeldAt(next, [session[t] EXCEPT ![column] = value], categories, merchants, suggestions)
    PROVE  Moves(t)
<1>1. session' = [session EXCEPT ![t] = [session[t] EXCEPT ![column] = value]]
  BY DEF Hold
<1>2. categories' = categories /\ merchants' = merchants /\ suggestions' = suggestions
  BY DEF tables
<1> QED BY <1>1, <1>2, TablesStay DEF Moves, Hold

LEMMA GoToMoves ==
    ASSUME CatalogueInd, NEW t \in Threads, NEW next \in CatalogueSteps,
           GoTo(t, next), UNCHANGED <<tables, accepted>>,
           HeldAt(next, session[t], categories, merchants, suggestions)
    PROVE  Moves(t)
<1>1. session' = [session EXCEPT ![t] = session[t]]
  BY DEF GoTo, CatalogueInd
<1>2. categories' = categories /\ merchants' = merchants /\ suggestions' = suggestions
  BY DEF tables
<1> QED BY <1>1, <1>2, TablesStay DEF Moves, GoTo

\* The request of a thread at a step of a handler.
LEMMA Handling ==
    ASSUME CatalogueInd, NEW t \in Threads, pc[t] # "idle"
    PROVE  /\ HeldAt(pc[t], session[t], categories, merchants, suggestions)
           /\ session[t] \in Session
           /\ session[t].request \in Requests
           /\ pc[t] \in CatalogueSteps /\ session[t].request.kind \in KindsAt[pc[t]]
BY DEF CatalogueInd, HeldAt

LEMMA FreshIn == ASSUME NEW ids, NEW some, some \subseteq ids, some # ids
                 PROVE  Fresh(ids \ some) \in ids \ some
BY DEF Fresh

LEMMA FreshMerchant ==
    ASSUME Merchants # MerchantIds
    PROVE  /\ Fresh(MerchantIds \ Merchants) \in MerchantIds \ Merchants
           /\ merchants[Fresh(MerchantIds \ Merchants)] = NULL
<1>1. Merchants \subseteq MerchantIds
  BY DEF Merchants
<1>2. Fresh(MerchantIds \ Merchants) \in MerchantIds \ Merchants
  BY <1>1, FreshIn
<1> QED BY <1>2 DEF Merchants

LEMMA FreshPattern ==
    ASSUME Patterns # PatternIds
    PROVE  /\ Fresh(PatternIds \ Patterns) \in PatternIds \ Patterns
           /\ patterns[Fresh(PatternIds \ Patterns)] = NULL
<1>1. Patterns \subseteq PatternIds
  BY DEF Patterns
<1>2. Fresh(PatternIds \ Patterns) \in PatternIds \ Patterns
  BY <1>1, FreshIn
<1> QED BY <1>2 DEF Patterns

LEMMA FreshCategory ==
    ASSUME Categories # CategoryIds
    PROVE  /\ Fresh(CategoryIds \ Categories) \in CategoryIds \ Categories
           /\ categories[Fresh(CategoryIds \ Categories)] = NULL
<1>1. Categories \subseteq CategoryIds
  BY DEF Categories
<1>2. Fresh(CategoryIds \ Categories) \in CategoryIds \ Categories
  BY <1>1, FreshIn
<1> QED BY <1>2 DEF Categories

LEMMA BeginMoves ==
    ASSUME CatalogueInd, NEW t \in Threads, begin(t)
    PROVE  Moves(t)
<1>1. PICK r \in Requests :
          /\ pc' = [pc EXCEPT ![t] = r.kind]
          /\ session' = [session EXCEPT ![t] = [NoSession EXCEPT !.request = r]]
  BY DEF begin
<1> DEFINE s == [NoSession EXCEPT !.request = r]
<1>2. r.kind \in CatalogueSteps \ {"idle", "category_insert", "category_name",
          "category_parent", "category_write", "merchant_insert", "learned_pattern", "pattern_insert", "mark_reviewed"}
  BY RequestShape DEF CatalogueSteps
<1>3. r.kind = "create_merchant" => r.kind # "correct"
  OBVIOUS
<1>4. s \in Session /\ s.request = r /\ r.kind \in KindsAt[r.kind]
  BY RequestShape DEF NoSession, Session
<1> HIDE DEF s
<1>5. HeldAt(r.kind, s, categories, merchants, suggestions)
  BY <1>2, <1>3, <1>4 DEF HeldAt
<1>6. /\ categories' = categories /\ merchants' = merchants /\ patterns' = patterns
      /\ feedback' = feedback /\ suggestions' = suggestions /\ filed' = filed
      /\ accepted' = accepted + 1 /\ accepted < MaxRequests
  BY DEF begin, tables
<1>7. /\ TablesOK(categories', merchants', patterns', feedback', suggestions', filed', accepted')
      /\ Owned(categories, categories') /\ Kept(MerchantIds, merchants, merchants')
      /\ Kept(SuggestionIds, suggestions, suggestions')
  BY <1>6, CatalogueAssumption DEF CatalogueInd, Tables, TablesOK, Owned, Kept
<1> QED BY <1>1, <1>2, <1>5, <1>6, <1>7 DEF Moves, s

-----------------------------------------------------------------------------
(* Categories.                                                             *)

LEMMA VisibleRefers ==
    ASSUME CatalogueInd, NEW c, NEW user
    PROVE  Visible(c, user) <=> /\ c \in CategoryIds /\ categories[c] # NULL
                                /\ categories[c].user \in {user, NULL}
BY DEF Visible, Categories

LEMMA ParentRefers ==
    ASSUME CatalogueInd, NEW c, NEW user, ParentAllowed(c, user)
    PROVE  Refers(c, user, categories)
BY VisibleRefers DEF ParentAllowed, Refers

LEMMA AfterNameIs ==
    ASSUME NEW r, r.kind \in {"create_category", "update_category"}
    PROVE  /\ AfterName(r) \in {"category_parent", "category_insert", "category_write"}
           /\ AfterName(r) = "category_parent" <=> r.parent # NULL
           /\ AfterName(r) = "category_insert" => r.kind = "create_category"
           /\ AfterName(r) = "category_write" => r.kind = "update_category"
BY DEF AfterName

\* A request whose name is free, or is not looked up, goes on.
LEMMA AfterNameHolds ==
    ASSUME NEW s \in Session, NEW cats, NEW mers, NEW sugs,
           s.request \in Requests, s.request.kind \in {"create_category", "update_category"},
           s.request.kind = "update_category" =>
               /\ cats[s.request.id] # NULL /\ cats[s.request.id].user = s.request.user
               /\ s.seen \in Category
    PROVE  /\ AfterName(s.request) \in CatalogueSteps
           /\ HeldAt(AfterName(s.request), s, cats, mers, sugs)
<1> DEFINE r == s.request
           next == AfterName(r)
<1>1. /\ next \in {"category_parent", "category_insert", "category_write"}
      /\ next = "category_parent" <=> r.parent # NULL
      /\ next = "category_insert" => r.kind = "create_category"
      /\ next = "category_write" => r.kind = "update_category"
  BY AfterNameIs
<1>2. r.kind = "update_category" => r.id \in CategoryIds
  BY RequestShape
<1>3. r.parent = NULL /\ r.kind = "update_category" => r.parent # r.id
  BY <1>2, CatalogueAssumption
<1> HIDE DEF next
<1>4. HeldAt(next, s, cats, mers, sugs)
  BY <1>1, <1>3 DEF HeldAt, KindsAt, Refers
<1> QED BY <1>1, <1>4 DEF CatalogueSteps, next

LEMMA CheckMoves ==
    ASSUME CatalogueInd, NEW t \in Threads,
           create_category(t) \/ update_category(t) \/ category_name(t) \/ category_parent(t)
    PROVE  Moves(t)
<1> DEFINE r == session[t].request
           held(step) == HeldAt(step, session[t], categories, merchants, suggestions)
<1>1. CASE create_category(t) \/ category_name(t)
  <2>1. /\ held(pc[t]) /\ session[t] \in Session /\ r \in Requests
        /\ r.kind \in {"create_category", "update_category"}
        /\ r.kind = "update_category" => pc[t] = "category_name"
        /\ UNCHANGED <<tables, accepted>>
    BY <1>1, Handling DEF create_category, category_name, KindsAt
  <2>2. CASE Answered(t)
    BY <2>1, <2>2, SilentMoves
  <2>3. CASE GoTo(t, AfterName(r))
    <3>1. r.kind = "update_category" =>
              /\ categories[r.id] # NULL /\ categories[r.id].user = r.user
              /\ session[t].seen \in Category
      BY <2>1 DEF HeldAt
    <3>2. AfterName(r) \in CatalogueSteps /\ held(AfterName(r))
      BY <2>1, <3>1, AfterNameHolds
    <3> QED BY <2>1, <2>3, <3>2, GoToMoves
  <2> QED BY <1>1, <2>2, <2>3 DEF create_category, category_name
<1>2. CASE update_category(t)
  <2> DEFINE row == categories[r.id]
             sameName == r.name # NULL => Lower[r.name] = Lower[row.name]
             next == IF sameName THEN AfterName(r) ELSE "category_name"
  <2>1. /\ held(pc[t]) /\ session[t] \in Session /\ r \in Requests
        /\ r.kind = "update_category" /\ UNCHANGED <<tables, accepted>>
    BY <1>2, Handling DEF update_category, KindsAt
  <2>2. Answered(t) \/ (Hold(t, next, "seen", row) /\ Editable(r))
    BY <1>2 DEF update_category
  <2>3. CASE Answered(t)
    BY <2>1, <2>3, SilentMoves
  <2>4. CASE Hold(t, next, "seen", row) /\ Editable(r)
    <3>1. r.id \in CategoryIds /\ row # NULL /\ row.user = r.user
      BY <2>4 DEF Editable, Visible, Categories
    <3>2. row \in Category
      BY <3>1 DEF CatalogueInd, Tables, TablesOK, CategoriesOK
    <3> DEFINE s == [session[t] EXCEPT !["seen"] = row]
    <3>3. s \in Session /\ s.request = r /\ s.seen = row
      BY <2>1, <3>2 DEF Session
    <3> HIDE DEF s, row
    <3>4. /\ AfterName(s.request) \in CatalogueSteps
          /\ HeldAt(AfterName(s.request), s, categories, merchants, suggestions)
      BY <2>1, <3>1, <3>2, <3>3, AfterNameHolds DEF row
    <3>5. HeldAt("category_name", s, categories, merchants, suggestions)
      BY <2>1, <3>1, <3>2, <3>3 DEF HeldAt, KindsAt, row
    <3>6. next \in CatalogueSteps /\ HeldAt(next, s, categories, merchants, suggestions)
      BY <3>3, <3>4, <3>5 DEF CatalogueSteps
    <3> QED BY <2>1, <2>4, <3>6, HoldMoves DEF s, row
  <2> QED BY <2>2, <2>3, <2>4
<1>3. CASE category_parent(t)
  <2> DEFINE next == IF r.kind = "create_category" THEN "category_insert" ELSE "category_write"
  <2>1. /\ pc[t] = "category_parent" /\ held("category_parent")
        /\ session[t] \in Session /\ r \in Requests
        /\ r.kind \in {"create_category", "update_category"}
        /\ UNCHANGED <<tables, accepted>>
    BY <1>3, Handling DEF category_parent, KindsAt
  <2>2. \/ Answered(t)
        \/ /\ GoTo(t, next) /\ ParentAllowed(r.parent, r.user)
           /\ r.kind = "create_category" \/ r.parent # r.id
    BY <1>3 DEF category_parent
  <2>3. CASE Answered(t)
    BY <2>1, <2>3, SilentMoves
  <2>4. CASE /\ GoTo(t, next) /\ ParentAllowed(r.parent, r.user)
             /\ r.kind = "create_category" \/ r.parent # r.id
    <3>1. Refers(r.parent, r.user, categories)
      BY <2>4, ParentRefers
    <3>2. next \in CatalogueSteps /\ held(next)
      BY <2>1, <2>4, <3>1 DEF HeldAt, KindsAt, CatalogueSteps
    <3> QED BY <2>1, <2>4, <3>2, GoToMoves
  <2> QED BY <2>2, <2>3, <2>4
<1> QED BY <1>1, <1>2, <1>3

\* A table of categories that gains one, or has one of a user's own changed.
LEMMA CategoriesMove ==
    ASSUME CatalogueInd, NEW t \in Threads, Answered(t),
           UNCHANGED <<merchants, patterns, feedback, suggestions, filed, accepted>>,
           CategoriesOK(categories'), Owned(categories, categories')
    PROVE  Moves(t)
<1>1. FilingsOK(filed', categories')
  BY DEF CatalogueInd, Tables, TablesOK, FilingsOK, Refers, Owned
<1>2. /\ TablesOK(categories', merchants', patterns', feedback', suggestions', filed', accepted')
      /\ Kept(MerchantIds, merchants, merchants') /\ Kept(SuggestionIds, suggestions, suggestions')
  BY <1>1 DEF CatalogueInd, Tables, TablesOK, PatternsOK, Kept
<1> QED BY <1>2, AnsweredMoves

LEMMA RowChanges ==
    ASSUME CatalogueInd, NEW c \in CategoryIds, NEW new \in Category,
           categories' = [categories EXCEPT ![c] = new],
           new.user # NULL, Refers(new.parent, new.user, categories), new.parent # c,
           categories[c] # NULL => categories[c].user = new.user
    PROVE  CategoriesOK(categories') /\ Owned(categories, categories')
<1>1. CategoriesOK(categories) /\ new # NULL
  BY CatalogueAssumption DEF CatalogueInd, Tables, TablesOK
<1>2. Owned(categories, categories')
  BY <1>1 DEF Owned, CategoriesOK
<1>3. \A d, u : Refers(d, u, categories) => Refers(d, u, categories')
  BY <1>2 DEF Refers, Owned
<1>4. CategoriesOK(categories')
  BY <1>1, <1>3 DEF CategoriesOK
<1> QED BY <1>2, <1>4

LEMMA InsertMoves ==
    ASSUME CatalogueInd, NEW t \in Threads, category_insert(t)
    PROVE  Moves(t)
<1> DEFINE r == session[t].request
           c == Fresh(CategoryIds \ Categories)
           new == [user |-> r.user, name |-> r.name, parent |-> r.parent]
<1>1. /\ r \in Requests /\ r.kind = "create_category" /\ Refers(r.parent, r.user, categories)
      /\ Answered(t)
      /\ UNCHANGED <<merchants, patterns, feedback, suggestions, filed, accepted>>
  BY Handling DEF category_insert, KindsAt, HeldAt
<1>2. CASE categories' = categories
  BY <1>1, <1>2, SilentMoves DEF tables
<1>3. CASE Categories # CategoryIds /\ categories' = [categories EXCEPT ![c] = new]
  <2>1. c \in CategoryIds /\ categories[c] = NULL
    BY <1>3, FreshCategory
  <2>2. new \in Category /\ new.user # NULL
    BY <1>1, RequestShape, CatalogueAssumption DEF Category
  <2>3. new.parent # c
    BY <1>1, <2>1, CatalogueAssumption DEF Refers
  <2>4. Refers(new.parent, new.user, categories)
    BY <1>1
  <2> HIDE DEF new, c
  <2> QED BY <1>1, <1>3, <2>1, <2>2, <2>3, <2>4, RowChanges, CategoriesMove
<1>4. \/ categories' = categories
      \/ Categories # CategoryIds /\ categories' = [categories EXCEPT ![c] = new]
  BY DEF category_insert
<1> QED BY <1>2, <1>3, <1>4

\* What an update writes, unless the index refuses.
Rewritten(row, seen, r) ==
    [row EXCEPT !.name = IF r.name \notin {NULL, seen.name} THEN r.name ELSE @,
                !.parent = IF r.parent \notin {NULL, seen.parent} THEN r.parent ELSE @]

LEMMA WriteShape ==
    ASSUME CatalogueInd, NEW t \in Threads, category_write(t)
    PROVE  LET r == session[t].request
               row == categories[r.id]
               new == Rewritten(row, session[t].seen, r)
           IN  /\ r \in Requests /\ r.kind = "update_category"
               /\ r.id \in CategoryIds /\ row \in Category /\ row.user = r.user
               /\ row # NULL
               /\ new \in Category
               /\ new.user = row.user
               /\ new.name = row.name \/ (r.name # NULL /\ new.name = r.name)
               /\ new.parent = row.parent \/ new.parent = r.parent
<1> DEFINE r == session[t].request
           seen == session[t].seen
           row == categories[r.id]
<1>1. /\ r \in Requests /\ r.kind = "update_category"
      /\ row # NULL /\ row.user = r.user /\ seen \in Category
  BY Handling DEF category_write, KindsAt, HeldAt
<1>2. /\ r.id \in CategoryIds /\ r.name \in Names \cup {NULL} /\ r.parent \in CategoryIds \cup {NULL}
  BY <1>1, RequestShape
<1>3. row \in Category
  BY <1>1, <1>2 DEF CatalogueInd, Tables, TablesOK, CategoriesOK
<1> HIDE DEF r, seen, row
<1>4. /\ Rewritten(row, seen, r) \in Category
      /\ Rewritten(row, seen, r).user = row.user
      /\ \/ Rewritten(row, seen, r).name = row.name
         \/ r.name # NULL /\ Rewritten(row, seen, r).name = r.name
      /\ Rewritten(row, seen, r).parent \in {row.parent, r.parent}
  BY <1>2, <1>3 DEF Rewritten, Category
<1> QED BY <1>1, <1>2, <1>3, <1>4 DEF r, seen, row

LEMMA WriteMoves ==
    ASSUME CatalogueInd, NEW t \in Threads, category_write(t)
    PROVE  Moves(t)
<1> DEFINE r == session[t].request
           row == categories[r.id]
           new == Rewritten(row, session[t].seen, r)
<1>1. /\ r \in Requests /\ r.id \in CategoryIds /\ row \in Category /\ row # NULL
      /\ row.user = r.user /\ new \in Category /\ new.user = row.user
      /\ new.parent = row.parent \/ new.parent = r.parent
  BY WriteShape
<1>2. /\ Refers(r.parent, r.user, categories) /\ r.parent # r.id
  BY Handling DEF category_write, HeldAt
<1>3. Refers(row.parent, row.user, categories) /\ row.parent # r.id
  BY <1>1 DEF CatalogueInd, Tables, TablesOK, CategoriesOK
<1>4. r.user # NULL
  BY <1>1, RequestShape, CatalogueAssumption
<1>5. /\ Answered(t)
      /\ UNCHANGED <<merchants, patterns, feedback, suggestions, filed, accepted>>
      /\ categories' = categories \/ categories' = [categories EXCEPT ![r.id] = new]
  BY DEF category_write, Rewritten
<1> HIDE DEF new, row, r
<1>6. CASE categories' = categories
  BY <1>5, <1>6, SilentMoves DEF tables
<1>7. CASE categories' = [categories EXCEPT ![r.id] = new]
  <2>1. /\ CategoriesOK(categories') /\ Owned(categories, categories')
    BY <1>1, <1>2, <1>3, <1>4, <1>7, RowChanges DEF row
  <2> QED BY <1>5, <2>1, CategoriesMove
<1> QED BY <1>5, <1>6, <1>7

-----------------------------------------------------------------------------
(* Merchants, patterns and corrections.                                    *)

\* A request goes on with a merchant m, over a table of merchants that holds it.
LEMMA WithMerchantMoves ==
    ASSUME CatalogueInd, NEW t \in Threads, NEW m \in MerchantIds, WithMerchant(t, m),
           pc[t] \in {"create_merchant", "merchant_insert"},
           merchants' \in [MerchantIds -> Merchant \cup {NULL}], merchants'[m] # NULL,
           Kept(MerchantIds, merchants, merchants'),
           UNCHANGED <<categories, patterns, feedback, suggestions, filed, accepted>>
    PROVE  Moves(t)
<1> DEFINE r == session[t].request
<1>1. PatternsOK(patterns', merchants')
  BY DEF CatalogueInd, Tables, TablesOK, PatternsOK, Kept, MerchantPattern
<1>2. /\ TablesOK(categories', merchants', patterns', feedback', suggestions', filed', accepted')
      /\ Owned(categories, categories') /\ Kept(SuggestionIds, suggestions, suggestions')
  BY <1>1 DEF CatalogueInd, Tables, TablesOK, Owned, Kept
<1>3. CASE r.kind # "correct"
  BY <1>2, <1>3, AnsweredMoves DEF WithMerchant
<1>4. CASE r.kind = "correct"
  <2> DEFINE s == [session[t] EXCEPT !["merchant"] = m]
  <2>1. /\ HeldAt(pc[t], session[t], categories, merchants, suggestions)
        /\ session[t] \in Session /\ r \in Requests
    BY Handling
  <2>2. pc' = [pc EXCEPT ![t] = "learned_pattern"] /\ session' = [session EXCEPT ![t] = s]
    BY <1>4 DEF WithMerchant, Hold
  <2>3. s \in Session /\ s.request = r /\ s.merchant = m
    BY <2>1 DEF Session
  <2>4. build_learned_pattern(r.raw) # NULL
    BY <1>4, <2>1 DEF HeldAt
  <2> HIDE DEF s
  <2>5. HeldAt("learned_pattern", s, categories', merchants', suggestions')
    BY <1>4, <2>1, <2>3, <2>4 DEF HeldAt, KindsAt
  <2> QED BY <1>2, <2>2, <2>5 DEF Moves, CatalogueSteps
<1> QED BY <1>3, <1>4

LEMMA MerchantMoves ==
    ASSUME CatalogueInd, NEW t \in Threads, get_or_create_merchant(t) \/ merchant_insert(t)
    PROVE  Moves(t)
<1> DEFINE r == session[t].request
<1>1. CASE get_or_create_merchant(t)
  <2>1. /\ HeldAt(pc[t], session[t], categories, merchants, suggestions)
        /\ session[t] \in Session /\ r \in Requests
        /\ pc[t] = "create_merchant" /\ r.kind \in {"create_merchant", "correct"}
        /\ UNCHANGED <<tables, accepted>>
    BY <1>1, Handling DEF get_or_create_merchant, KindsAt
  <2>2. CASE GoTo(t, "merchant_insert")
    <3>1. HeldAt("merchant_insert", session[t], categories, merchants, suggestions)
      BY <2>1 DEF HeldAt, KindsAt
    <3> QED BY <2>1, <2>2, <3>1, GoToMoves DEF CatalogueSteps
  <2>3. ASSUME NEW m \in Named(r.name), WithMerchant(t, m) PROVE Moves(t)
    <3>1. m \in MerchantIds /\ merchants[m] # NULL
      BY DEF Named, Merchants
    <3>2. /\ merchants' = merchants /\ merchants \in [MerchantIds -> Merchant \cup {NULL}]
          /\ UNCHANGED <<categories, patterns, feedback, suggestions, filed, accepted>>
          /\ Kept(MerchantIds, merchants, merchants')
      BY <2>1 DEF tables, CatalogueInd, Tables, TablesOK, Kept
    <3> QED BY <2>1, <2>3, <3>1, <3>2, WithMerchantMoves
  <2> QED BY <1>1, <2>2, <2>3 DEF get_or_create_merchant
<1>2. CASE merchant_insert(t)
  <2> DEFINE m == Fresh(MerchantIds \ Merchants)
             new == [name |-> r.name, category |-> FirstCategory(r)]
  <2>1. /\ r \in Requests /\ r.kind \in {"create_merchant", "correct"}
        /\ pc[t] = "merchant_insert"
        /\ UNCHANGED <<categories, patterns, feedback, suggestions, filed, accepted>>
    BY <1>2, Handling DEF merchant_insert, KindsAt
  <2>2. CASE UNCHANGED merchants /\ Answered(t)
    BY <2>1, <2>2, SilentMoves DEF tables
  <2>3. CASE /\ Merchants # MerchantIds
             /\ merchants' = [merchants EXCEPT ![m] = new] /\ WithMerchant(t, m)
    <3>1. m \in MerchantIds /\ merchants[m] = NULL
      BY <2>3, FreshMerchant
    <3>2. new \in Merchant
      BY <2>1, RequestShape DEF Merchant, FirstCategory
    <3>3. new # NULL
      BY <3>2, CatalogueAssumption
    <3>4. merchants \in [MerchantIds -> Merchant \cup {NULL}]
      BY DEF CatalogueInd, Tables, TablesOK
    <3> HIDE DEF new, m
    <3>5. /\ merchants' \in [MerchantIds -> Merchant \cup {NULL}] /\ merchants'[m] # NULL
          /\ Kept(MerchantIds, merchants, merchants')
      BY <2>3, <3>1, <3>2, <3>3, <3>4 DEF Kept
    <3> QED BY <2>1, <2>3, <3>1, <3>5, WithMerchantMoves
  <2>4. \/ UNCHANGED merchants /\ Answered(t)
        \/ /\ Merchants # MerchantIds
           /\ merchants' = [merchants EXCEPT ![m] = new] /\ WithMerchant(t, m)
    BY <1>2 DEF merchant_insert
  <2> QED BY <2>2, <2>3, <2>4
<1> QED BY <1>1, <1>2

\* A pattern of the user's is about to be inserted.
LEMMA PatternHeld ==
    ASSUME CatalogueInd, NEW t \in Threads, NEW row,
           Hold(t, "pattern_insert", "seen", row), UNCHANGED <<tables, accepted>>,
           session[t] \in Session, session[t].request \in Requests,
           session[t].request.kind \in {"create_pattern", "correct"},
           row \in MerchantPattern, merchants[row.merchant] # NULL,
           row.user = session[t].request.user
    PROVE  Moves(t)
<1> DEFINE s == [session[t] EXCEPT !["seen"] = row]
<1>1. s \in Session /\ s.request = session[t].request /\ s.seen = row
  BY DEF Session
<1> HIDE DEF s
<1>2. HeldAt("pattern_insert", s, categories, merchants, suggestions)
  BY <1>1 DEF HeldAt, KindsAt
<1> QED BY <1>2, HoldMoves DEF CatalogueSteps, s

LEMMA LearnedText ==
    ASSUME NEW raw \in MerchantRaw, build_learned_pattern(raw) # NULL
    PROVE  build_learned_pattern(raw) \in Text
BY DEF build_learned_pattern, MerchantRaw, Text

LEMMA PatternMoves ==
    ASSUME CatalogueInd, NEW t \in Threads, create_pattern(t) \/ learned_pattern(t)
    PROVE  Moves(t)
<1> DEFINE r == session[t].request
<1>1. CASE create_pattern(t)
  <2> DEFINE row == [user |-> r.user, merchant |-> r.merchant, type |-> r.type, text |-> r.text]
  <2>1. /\ session[t] \in Session /\ r \in Requests /\ r.kind = "create_pattern"
        /\ UNCHANGED <<tables, accepted>>
    BY <1>1, Handling DEF create_pattern, KindsAt
  <2>2. Answered(t) \/ (r.merchant \in Merchants /\ Hold(t, "pattern_insert", "seen", row))
    BY <1>1 DEF create_pattern
  <2>3. row \in MerchantPattern
    BY <2>1, RequestShape DEF MerchantPattern
  <2> QED BY <2>1, <2>2, <2>3, SilentMoves, PatternHeld DEF Merchants
<1>2. CASE learned_pattern(t)
  <2> DEFINE m == session[t].merchant
             text == build_learned_pattern(r.raw)
             row == LearnedRule(r.user, m, text)
  <2>1. /\ session[t] \in Session /\ r \in Requests /\ r.kind = "correct"
        /\ UNCHANGED <<tables, accepted>>
        /\ m \in MerchantIds /\ merchants[m] # NULL
        /\ build_learned_pattern(r.raw) # NULL
    BY <1>2, Handling DEF learned_pattern, KindsAt, HeldAt
  <2>2. Answered(t) \/ Hold(t, "pattern_insert", "seen", row)
    BY <1>2 DEF learned_pattern
  <2>3. r.raw \in MerchantRaw /\ r.user \in Users
    BY <2>1, RequestShape
  <2>4. text \in Text
    BY <2>1, <2>3, LearnedText
  <2> HIDE DEF text
  <2>5. row \in MerchantPattern /\ row.merchant = m /\ row.user = r.user
    BY <2>1, <2>3, <2>4 DEF MerchantPattern, LearnedRule, PatternType
  <2> HIDE DEF row
  <2> QED BY <2>1, <2>2, <2>5, SilentMoves, PatternHeld
<1> QED BY <1>1, <1>2

LEMMA PatternInsertMoves ==
    ASSUME CatalogueInd, NEW t \in Threads, pattern_insert(t)
    PROVE  Moves(t)
<1> DEFINE p == Fresh(PatternIds \ Patterns)
           new == session[t].seen
<1>1. new \in MerchantPattern /\ merchants[new.merchant] # NULL
  BY Handling DEF pattern_insert, HeldAt
<1>2. /\ Answered(t)
      /\ UNCHANGED <<categories, merchants, feedback, suggestions, filed, accepted>>
  BY DEF pattern_insert
<1>3. PatternsOK(patterns, merchants)
  BY DEF CatalogueInd, Tables, TablesOK
<1>4. PatternsOK(patterns', merchants')
  <2>1. CASE Patterns = PatternIds
    BY <1>2, <1>3, <2>1 DEF pattern_insert
  <2>2. CASE Patterns # PatternIds
    <3>1. p \in PatternIds /\ patterns' = [patterns EXCEPT ![p] = new]
      BY <2>2, FreshPattern DEF pattern_insert
    <3> HIDE DEF p, new
    <3> QED BY <1>1, <1>2, <1>3, <3>1 DEF PatternsOK
  <2> QED BY <2>1, <2>2
<1>5. /\ TablesOK(categories', merchants', patterns', feedback', suggestions', filed', accepted')
      /\ Owned(categories, categories') /\ Kept(MerchantIds, merchants, merchants')
      /\ Kept(SuggestionIds, suggestions, suggestions')
  BY <1>2, <1>4 DEF CatalogueInd, Tables, TablesOK, Owned, Kept
<1> QED BY <1>2, <1>5, AnsweredMoves

LEMMA FeedbackMoves ==
    ASSUME CatalogueInd, NEW t \in Threads, record_feedback(t)
    PROVE  Moves(t)
<1> DEFINE r == session[t].request
<1>1. /\ HeldAt(pc[t], session[t], categories, merchants, suggestions)
      /\ session[t] \in Session /\ r \in Requests /\ r.kind = "correct"
      /\ categories' = categories /\ merchants' = merchants /\ patterns' = patterns
      /\ suggestions' = suggestions /\ filed' = filed /\ accepted' = accepted
  BY Handling DEF record_feedback, KindsAt
<1>2. feedback' \subseteq UserFeedback
  BY <1>1, RequestShape DEF record_feedback, UserFeedback, CatalogueInd, Tables, TablesOK
<1>3. /\ TablesOK(categories', merchants', patterns', feedback', suggestions', filed', accepted')
      /\ Owned(categories, categories') /\ Kept(MerchantIds, merchants, merchants')
      /\ Kept(SuggestionIds, suggestions, suggestions')
  BY <1>1, <1>2 DEF CatalogueInd, Tables, TablesOK, Owned, Kept
<1>4. CASE Answered(t)
  BY <1>3, <1>4, AnsweredMoves
<1>5. CASE build_learned_pattern(r.raw) # NULL /\ GoTo(t, "create_merchant")
  <2>1. HeldAt("create_merchant", session[t], categories', merchants', suggestions')
    BY <1>1, <1>5 DEF HeldAt, KindsAt
  <2>2. session' = [session EXCEPT ![t] = session[t]]
    BY <1>5 DEF GoTo, CatalogueInd
  <2> QED BY <1>3, <1>5, <2>1, <2>2 DEF Moves, GoTo, CatalogueSteps
<1> QED BY <1>4, <1>5 DEF record_feedback

LEMMA ResolveMoves ==
    ASSUME CatalogueInd, NEW t \in Threads, resolve(t)
    PROVE  Moves(t)
<1> DEFINE r == session[t].request
<1>1. /\ r \in Requests /\ r.kind = "message" /\ Answered(t)
      /\ categories' = categories /\ merchants' = merchants /\ patterns' = patterns
      /\ suggestions' = suggestions /\ feedback' = feedback /\ accepted' = accepted
  BY Handling DEF resolve, KindsAt
<1>2. r.user \in Users /\ r.raw \in MerchantRaw
  BY <1>1, RequestShape
<1>3. FilingsOK(filed, categories) /\ CategoriesOK(categories) /\ PatternsOK(patterns, merchants)
  BY DEF CatalogueInd, Tables, TablesOK
<1>4. FilingsOK(filed', categories')
  <2>1. PICK f : filed' = filed \cup {f} /\ f \in Filing /\ Refers(f.category, r.user, categories)
                 /\ f.user = r.user
    <3>1. CASE resolve_merchant(r.user, r.raw) = {}
      <4> DEFINE f == [user |-> r.user, raw |-> r.raw, merchant |-> NULL, category |-> NULL]
      <4>1. filed' = filed \cup {f}
        BY <3>1 DEF resolve
      <4>2. f \in Filing /\ Refers(f.category, r.user, categories)
        BY <1>2 DEF Filing, Refers
      <4> QED BY <4>1, <4>2
    <3>2. ASSUME NEW p \in resolve_merchant(r.user, r.raw),
                 filed' = filed \cup
                     {[user |-> r.user, raw |-> r.raw, merchant |-> patterns[p].merchant,
                       category |-> resolve_category(patterns[p].merchant, r.user)]}
          PROVE  \E f : filed' = filed \cup {f} /\ f \in Filing
                        /\ Refers(f.category, r.user, categories) /\ f.user = r.user
      <4> DEFINE m == patterns[p].merchant
                 c == resolve_category(m, r.user)
                 f == [user |-> r.user, raw |-> r.raw, merchant |-> m, category |-> c]
      <4>1. m \in MerchantIds
        BY <1>3 DEF resolve_merchant, Matching, Patterns, PatternsOK, MerchantPattern
      <4>2. Refers(c, r.user, categories)
        BY VisibleRefers DEF resolve_category, Refers
      <4> HIDE DEF m, c
      <4>3. c \in CategoryIds \cup {NULL}
        BY <4>2 DEF Refers
      <4>4. f \in Filing
        BY <1>2, <4>1, <4>3 DEF Filing
      <4> QED BY <3>2, <4>2, <4>4 DEF m, c
    <3> QED BY <3>1, <3>2 DEF resolve
  <2> QED BY <1>1, <1>3, <2>1 DEF FilingsOK
<1>5. /\ TablesOK(categories', merchants', patterns', feedback', suggestions', filed', accepted')
      /\ Owned(categories, categories') /\ Kept(MerchantIds, merchants, merchants')
      /\ Kept(SuggestionIds, suggestions, suggestions')
  BY <1>1, <1>4 DEF CatalogueInd, Tables, TablesOK, Owned, Kept
<1> QED BY <1>1, <1>5, AnsweredMoves

-----------------------------------------------------------------------------
(* Suggestions.                                                            *)

LEMMA RoundedUnit ==
    ASSUME NEW answer \in 0 .. 200
    PROVE  Rounded(answer, 2) \in ConfidenceScore
<1> DEFINE q == answer \div 2
           rest == answer % 2
<1>1. answer \in Int /\ 0 <= answer /\ answer <= 200
  OBVIOUS
<1>2. /\ q \in Int /\ rest \in Int /\ 0 <= rest /\ rest < 2
      /\ answer = 2 * q + rest
  BY <1>1
<1>3. Rounded(answer, 2) = q \/ (Rounded(answer, 2) = q + 1 /\ 2 * rest >= 2)
  BY <1>2 DEF Rounded
<1> HIDE DEF q, rest
<1>4. 0 <= q /\ q <= 100 /\ (q = 100 => rest = 0)
  BY <1>1, <1>2
<1> QED BY <1>2, <1>3, <1>4 DEF ConfidenceScore

LEMMA RoundedPercentage ==
    ASSUME NEW answer \in 0 .. 100 * 200
    PROVE  Rounded(answer, 200) \in ConfidenceScore
<1> DEFINE q == answer \div 200
           rest == answer % 200
<1>1. answer \in Int /\ 0 <= answer /\ answer <= 100 * 200
  OBVIOUS
<1>2. /\ q \in Int /\ rest \in Int /\ 0 <= rest /\ rest < 200
      /\ answer = 200 * q + rest
  BY <1>1
<1>3. Rounded(answer, 200) = q \/ (Rounded(answer, 200) = q + 1 /\ 2 * rest >= 200)
  BY <1>2 DEF Rounded
<1> HIDE DEF q, rest
<1>4. 0 <= q /\ q <= 100 /\ (q = 100 => rest = 0)
  BY <1>1, <1>2
<1> QED BY <1>2, <1>3, <1>4 DEF ConfidenceScore

LEMMA ConfidenceBound ==
    ASSUME NEW answer \in Int, parse_confidence(answer) # NULL
    PROVE  parse_confidence(answer) \in ConfidenceScore
<1>1. CASE answer > 200
  <2>1. answer \in 0 .. 100 * 200 /\ parse_confidence(answer) = Rounded(answer, 200)
    BY <1>1 DEF parse_confidence
  <2> QED BY <2>1, RoundedPercentage
<1>2. CASE ~(answer > 200)
  <2>1. answer \in 0 .. 200 /\ parse_confidence(answer) = Rounded(answer, 2)
    BY <1>2 DEF parse_confidence
  <2> QED BY <2>1, RoundedUnit
<1> QED BY <1>1, <1>2

\* A table of suggestions that gains one, or has one changed.
LEMMA SuggestionsMove ==
    ASSUME CatalogueInd, NEW t \in Threads, Answered(t),
           UNCHANGED <<categories, merchants, patterns, feedback, filed, accepted>>,
           suggestions' \in [SuggestionIds -> AISuggestion \cup {NULL}],
           Kept(SuggestionIds, suggestions, suggestions')
    PROVE  Moves(t)
<1>1. /\ TablesOK(categories', merchants', patterns', feedback', suggestions', filed', accepted')
      /\ Owned(categories, categories') /\ Kept(MerchantIds, merchants, merchants')
  BY DEF CatalogueInd, Tables, TablesOK, Owned, Kept
<1> QED BY <1>1, AnsweredMoves

LEMMA SuggestMoves ==
    ASSUME CatalogueInd, NEW t \in Threads, suggest(t)
    PROVE  Moves(t)
<1> DEFINE r == session[t].request
           s == Fresh(SuggestionIds \ Suggestions)
<1>1. /\ r \in Requests /\ Answered(t)
      /\ UNCHANGED <<categories, merchants, patterns, feedback, filed, accepted>>
  BY Handling DEF suggest
<1>2. suggestions \in [SuggestionIds -> AISuggestion \cup {NULL}]
  BY DEF CatalogueInd, Tables, TablesOK
<1>3. CASE UNCHANGED suggestions
  BY <1>1, <1>3, SilentMoves DEF tables
<1>4. ASSUME NEW answer \in Answers, Suggestions # SuggestionIds,
             parse_suggestion(r, answer) # NULL,
             suggestions' = [suggestions EXCEPT ![s] =
                 [user |-> r.user, value |-> answer.value,
                  confidence |-> parse_suggestion(r, answer),
                  status |-> "PENDING", asked |-> "PENDING"]]
      PROVE  Moves(t)
  <2> DEFINE new == [user |-> r.user, value |-> answer.value,
                     confidence |-> parse_suggestion(r, answer),
                     status |-> "PENDING", asked |-> "PENDING"]
  <2>1. s \in SuggestionIds /\ suggestions[s] = NULL
    <3>1. Suggestions \subseteq SuggestionIds /\ Suggestions # SuggestionIds
      BY <1>4 DEF Suggestions
    <3>2. s \in SuggestionIds \ Suggestions
      BY <3>1, FreshIn
    <3> QED BY <3>2 DEF Suggestions
  <2>2. answer.value \in Names /\ answer.confidence \in Int
    BY CatalogueAssumption DEF Answer
  <2>3. parse_suggestion(r, answer) = parse_confidence(answer.confidence)
    BY <1>4 DEF parse_suggestion
  <2>4. parse_suggestion(r, answer) \in ConfidenceScore
    BY <1>4, <2>2, <2>3, ConfidenceBound
  <2>5. new \in AISuggestion
    BY <1>1, <2>2, <2>4, RequestShape DEF AISuggestion, SuggestionStatus
  <2>6. new # NULL
    BY <2>5, CatalogueAssumption
  <2> HIDE DEF new, s
  <2>7. suggestions' = [suggestions EXCEPT ![s] = new]
    BY <1>4 DEF new, s
  <2>8. /\ suggestions' \in [SuggestionIds -> AISuggestion \cup {NULL}]
        /\ Kept(SuggestionIds, suggestions, suggestions')
    BY <1>2, <2>1, <2>5, <2>6, <2>7 DEF Kept
  <2> QED BY <1>1, <2>8, SuggestionsMove
<1> QED BY <1>3, <1>4 DEF suggest

LEMMA ReviewMoves ==
    ASSUME CatalogueInd, NEW t \in Threads, review_suggestion(t)
    PROVE  Moves(t)
<1> DEFINE r == session[t].request
           row == suggestions[r.id]
<1>1. /\ session[t] \in Session /\ r \in Requests /\ r.kind = "review"
      /\ UNCHANGED <<tables, accepted>>
  BY Handling DEF review_suggestion, KindsAt
<1>2. Answered(t) \/ (r.id \in Suggestions /\ Hold(t, "mark_reviewed", "seen", row))
  BY DEF review_suggestion
<1>3. CASE Answered(t)
  BY <1>1, <1>3, SilentMoves
<1>4. CASE r.id \in Suggestions /\ Hold(t, "mark_reviewed", "seen", row)
  <2>1. row \in AISuggestion /\ row # NULL
    BY <1>4 DEF Suggestions, CatalogueInd, Tables, TablesOK
  <2> DEFINE s == [session[t] EXCEPT !["seen"] = row]
  <2>2. s \in Session /\ s.request = r /\ s.seen = row
    BY <1>1, <2>1 DEF Session
  <2> HIDE DEF s
  <2>3. HeldAt("mark_reviewed", s, categories, merchants, suggestions)
    BY <1>1, <2>1, <2>2 DEF HeldAt, KindsAt
  <2> QED BY <1>1, <1>4, <2>3, HoldMoves DEF CatalogueSteps, s
<1> QED BY <1>2, <1>3, <1>4

LEMMA MarkMoves ==
    ASSUME CatalogueInd, NEW t \in Threads, mark_reviewed(t)
    PROVE  Moves(t)
<1> DEFINE r == session[t].request
           row == suggestions[r.id]
           status == Reviewed(row, session[t].seen, Outcome(r))
           new == [row EXCEPT !.status = status, !.asked = Outcome(r)]
<1>1. /\ r \in Requests /\ r.kind = "review" /\ row # NULL
      /\ Answered(t)
      /\ UNCHANGED <<categories, merchants, patterns, feedback, filed, accepted>>
  BY Handling DEF mark_reviewed, KindsAt, HeldAt
<1>2. r.id \in SuggestionIds
  BY <1>1, RequestShape
<1>3. suggestions \in [SuggestionIds -> AISuggestion \cup {NULL}]
  BY DEF CatalogueInd, Tables, TablesOK
<1>4. row \in AISuggestion
  BY <1>1, <1>2, <1>3
<1>5. Outcome(r) \in SuggestionStatus /\ row.status \in SuggestionStatus
  BY <1>4 DEF Outcome, SuggestionStatus, AISuggestion
<1>6. status \in SuggestionStatus
  BY <1>5 DEF Reviewed
<1>7. suggestions' = [suggestions EXCEPT ![r.id] = new]
  BY <1>2, <1>3 DEF mark_reviewed
<1>8. new \in AISuggestion
  BY <1>4, <1>5, <1>6 DEF AISuggestion
<1>9. new # NULL
  BY <1>8, CatalogueAssumption
<1> HIDE DEF new, r
<1>10. /\ suggestions' \in [SuggestionIds -> AISuggestion \cup {NULL}]
       /\ Kept(SuggestionIds, suggestions, suggestions')
  BY <1>2, <1>3, <1>7, <1>8, <1>9 DEF Kept
<1> QED BY <1>1, <1>10, SuggestionsMove

LEMMA CatalogueStepMoves ==
    ASSUME CatalogueInd, NEW t \in Threads, CatalogueStep(t)
    PROVE  Moves(t)
BY BeginMoves, CheckMoves, InsertMoves, WriteMoves, MerchantMoves, PatternMoves,
   PatternInsertMoves, FeedbackMoves, ResolveMoves, SuggestMoves, ReviewMoves, MarkMoves
   DEF CatalogueStep

LEMMA CatalogueInvariant == CatalogueSpec => []CatalogueInd
<1>1. CatalogueInd /\ [CatalogueNext]_catalogueVars => CatalogueInd'
  <2> SUFFICES ASSUME CatalogueInd, [CatalogueNext]_catalogueVars PROVE CatalogueInd'
    OBVIOUS
  <2>1. ASSUME NEW t \in Threads, CatalogueStep(t) PROVE CatalogueInd'
    BY <2>1, CatalogueStepMoves, MovesKeep
  <2>2. CASE UNCHANGED catalogueVars
    BY <2>2 DEF catalogueVars, tables, CatalogueInd, Tables
  <2> QED BY <2>1, <2>2 DEF CatalogueNext
<1> QED BY <1>1, CatalogueInitInd, PTL DEF CatalogueSpec

-----------------------------------------------------------------------------
(* Theorems.                                                               *)

\* The tables hold rows of their models, patterns point at merchants, and whatever
\* a model answers, a stored confidence lies between 0 and 100 percent.
THEOREM CatalogueTypeCorrect == CatalogueSpec => []CatalogueTypeOK
<1>1. CatalogueInd => CatalogueTypeOK
  <2> SUFFICES ASSUME CatalogueInd PROVE CatalogueTypeOK
    OBVIOUS
  <2>1. \A p \in Patterns : patterns[p].merchant \in Merchants
    BY DEF CatalogueInd, Tables, TablesOK, PatternsOK, Patterns, Merchants, MerchantPattern
  <2> QED BY <2>1 DEF CatalogueInd, Tables, TablesOK, CategoriesOK, PatternsOK, FilingsOK,
                      CatalogueTypeOK
<1> QED BY <1>1, CatalogueInvariant, PTL

\* Messages are filed under, and categories hang below, what their users can see,
\* and system categories never change.
THEOREM CatalogueCategoriesStayPrivate == CatalogueSpec => []CategoriesStayPrivate
<1>1. CatalogueInd => CategoriesStayPrivate
  <2> SUFFICES ASSUME CatalogueInd PROVE CategoriesStayPrivate
    OBVIOUS
  <2>1. CategoriesOK(categories) /\ FilingsOK(filed, categories)
    BY DEF CatalogueInd, Tables, TablesOK
  <2>2. \A f \in filed : f.category # NULL => Visible(f.category, f.user)
    BY <2>1, VisibleRefers DEF FilingsOK, Refers
  <2>3. ASSUME NEW c \in Categories
        PROVE  /\ categories[c].user = NULL => categories[c] = SystemCategories[c]
               /\ ParentAllowed(categories[c].parent, categories[c].user)
               /\ categories[c].parent # c
    BY <2>1, VisibleRefers DEF CategoriesOK, Categories, ParentAllowed, Refers
  <2> QED BY <2>2, <2>3 DEF CategoriesStayPrivate
<1> QED BY <1>1, CatalogueInvariant, PTL

\* The rule a correction leaves behind is stronger than every global pattern.
THEOREM CatalogueCorrectionPrevails == CatalogueSpec => []CorrectionPrevails
<1>1. CatalogueInd => CorrectionPrevails
  <2> SUFFICES ASSUME CatalogueInd, NEW f \in feedback, NEW p \in Patterns,
                      ~f.raw.wild, patterns[p].user = f.user, patterns[p].type = "LIKE",
                      patterns[p].text = build_learned_pattern(f.raw),
                      NEW q \in resolve_merchant(f.user, f.raw)
               PROVE  patterns[q].user = f.user
    BY DEF CorrectionPrevails
  <2>1. f.user \in Users /\ f.user # NULL /\ f.raw \in MerchantRaw
    BY CatalogueAssumption DEF CatalogueInd, Tables, TablesOK, UserFeedback
  <2>2. patterns[p].text \in Text /\ patterns[p].text # NULL
    BY CatalogueAssumption
       DEF CatalogueInd, Tables, TablesOK, PatternsOK, Patterns, MerchantPattern
  <2>3. /\ patterns[p].text.open /\ patterns[p].text.stem = f.raw.stem
        /\ patterns[p].text.wild = FALSE /\ patterns[p].text.tail \in {NULL, f.raw.tail}
    BY <2>1, <2>2 DEF build_learned_pattern, MerchantRaw, Text
  <2>4. f.raw.wild = FALSE
    BY <2>1 DEF MerchantRaw, Text
  <2>5. p \in Matching(f.user, f.raw)
    BY <2>3, <2>4 DEF Matching, matches, like_matches, Contains
  <2>6. q \in Matching(f.user, f.raw) /\ ~Precedes(patterns[p], patterns[q])
    BY <2>5 DEF resolve_merchant
  <2>7. patterns[q].user # NULL
    BY <2>1, <2>6 DEF Precedes
  <2> QED BY <2>6, <2>7 DEF Matching
<1> QED BY <1>1, CatalogueInvariant, PTL

\* Only what a user did changes how that user's messages are resolved.
THEOREM CatalogueNobodyElseRefiled == CatalogueSpec => NobodyElseRefiled
<1> DEFINE Refiled ==
        \A u \in Users, raw \in MerchantRaw :
            resolve_merchant(u, raw)' # resolve_merchant(u, raw) =>
                \E t \in Threads : pc'[t] # pc[t] /\ session[t].request.user = u
<1>1. CatalogueInd /\ [CatalogueNext]_catalogueVars => [Refiled]_catalogueVars
  <2> SUFFICES ASSUME CatalogueInd, CatalogueNext,
                      NEW u \in Users, NEW raw \in MerchantRaw,
                      resolve_merchant(u, raw)' # resolve_merchant(u, raw)
               PROVE  \E t \in Threads : pc'[t] # pc[t] /\ session[t].request.user = u
    OBVIOUS
  <2>1. PICK t \in Threads : CatalogueStep(t)
    BY DEF CatalogueNext
  <2>2. patterns' # patterns
    BY DEF resolve_merchant, Matching, Patterns
  <2>3. pattern_insert(t)
    BY <2>1, <2>2 DEF CatalogueStep, begin, create_category, category_insert, update_category,
       category_name, category_parent, category_write, get_or_create_merchant, merchant_insert, create_pattern,
       record_feedback, learned_pattern, resolve, suggest, review_suggestion, mark_reviewed,
       tables
  <2> DEFINE p == Fresh(PatternIds \ Patterns)
             new == session[t].seen
  <2>4. /\ new \in MerchantPattern /\ new.user = session[t].request.user
        /\ session[t].request \in Requests
    BY <2>3, Handling DEF pattern_insert, HeldAt
  <2>5. /\ p \in PatternIds /\ patterns[p] = NULL
        /\ patterns' = [patterns EXCEPT ![p] = new]
    <3>1. Patterns # PatternIds /\ patterns' = [patterns EXCEPT ![p] = new]
      BY <2>2, <2>3 DEF pattern_insert
    <3>2. p \in PatternIds \ Patterns
      BY <3>1, FreshPattern
    <3> QED BY <3>1, <3>2 DEF Patterns
  <2>6. patterns \in [PatternIds -> MerchantPattern \cup {NULL}]
    BY DEF CatalogueInd, Tables, TablesOK, PatternsOK
  <2>7. new # NULL /\ session[t].request.user # NULL
    BY <2>4, RequestShape, CatalogueAssumption
  <2>8. CASE session[t].request.user = u
    <3>1. pc'[t] = "idle" /\ pc[t] = "pattern_insert"
      BY <2>3 DEF pattern_insert, Answered, CatalogueInd
    <3> QED BY <2>8, <3>1
  <2>9. CASE session[t].request.user # u
    <3> HIDE DEF p, new
    <3>1. Matching(u, raw)' = Matching(u, raw)
      BY <2>4, <2>5, <2>6, <2>7, <2>9 DEF Matching, Patterns
    <3>2. \A q \in Matching(u, raw) : patterns'[q] = patterns[q]
      BY <2>5, <2>6 DEF Matching, Patterns
    <3>3. resolve_merchant(u, raw)' = resolve_merchant(u, raw)
      BY <3>1, <3>2 DEF resolve_merchant
    <3> QED BY <3>3
  <2> QED BY <2>8, <2>9
<1> QED BY <1>1, CatalogueInvariant, PTL DEF CatalogueSpec, NobodyElseRefiled

\* The last review counts, unless another one came between its read and its write.
THEOREM CatalogueOnlyOverlapLosesReview == CatalogueSpec => OnlyOverlapLosesReview
<1> DEFINE Lost ==
        \A s \in Suggestions :
          suggestions'[s].status # suggestions'[s].asked /\
          suggestions[s].status = suggestions[s].asked =>
              \E t \in Threads : /\ pc[t] = "mark_reviewed"
                                 /\ session[t].request.id = s
                                 /\ session[t].seen.status # suggestions[s].status
<1>1. CatalogueInd /\ [CatalogueNext]_catalogueVars => [Lost]_catalogueVars
  <2> SUFFICES ASSUME CatalogueInd, CatalogueNext, NEW s \in Suggestions,
                      suggestions'[s].status # suggestions'[s].asked,
                      suggestions[s].status = suggestions[s].asked
               PROVE  \E t \in Threads : /\ pc[t] = "mark_reviewed"
                                         /\ session[t].request.id = s
                                         /\ session[t].seen.status # suggestions[s].status
    OBVIOUS
  <2>1. PICK t \in Threads : CatalogueStep(t)
    BY DEF CatalogueNext
  <2>2. suggestions'[s] # suggestions[s]
    OBVIOUS
  <2>3. suggest(t) \/ mark_reviewed(t)
    BY <2>1, <2>2 DEF CatalogueStep, begin, create_category, category_insert, update_category,
       category_name, category_parent, category_write, get_or_create_merchant, merchant_insert, create_pattern, pattern_insert,
       record_feedback, learned_pattern, resolve, review_suggestion, tables
  <2>4. /\ suggestions \in [SuggestionIds -> AISuggestion \cup {NULL}]
        /\ s \in SuggestionIds /\ suggestions[s] \in AISuggestion
    BY DEF CatalogueInd, Tables, TablesOK, Suggestions
  <2>5. ~suggest(t)
    <3>1. suggest(t) => \/ suggestions' = suggestions
                        \/ \E new : /\ Suggestions # SuggestionIds
                                    /\ suggestions' = [suggestions EXCEPT
                                          ![Fresh(SuggestionIds \ Suggestions)] = new]
      BY DEF suggest
    <3>2. Suggestions # SuggestionIds => Fresh(SuggestionIds \ Suggestions) # s
      BY FreshIn DEF Suggestions
    <3> QED BY <2>2, <2>4, <3>1, <3>2
  <2> DEFINE r == session[t].request
             row == suggestions[r.id]
             status == Reviewed(row, session[t].seen, Outcome(r))
             new == [row EXCEPT !.status = status, !.asked = Outcome(r)]
  <2>6. pc[t] = "mark_reviewed" /\ suggestions' = [suggestions EXCEPT ![r.id] = new]
    BY <2>3, <2>4, <2>5 DEF mark_reviewed
  <2>7. r.id = s
    BY <2>2, <2>4, <2>6
  <2>8. suggestions'[s].status = status /\ suggestions'[s].asked = Outcome(r)
    BY <2>4, <2>6, <2>7 DEF AISuggestion
  <2>9. status = row.status /\ Outcome(r) = session[t].seen.status
    BY <2>8 DEF Reviewed
  <2> QED BY <2>6, <2>7, <2>8, <2>9
<1> QED BY <1>1, CatalogueInvariant, PTL DEF CatalogueSpec, OnlyOverlapLosesReview

-----------------------------------------------------------------------------
(* Names that are no keys: what is stored under a name and what may still be  *)
(* stored under it are together no more than the requests.                   *)

\* The requests about to insert a merchant, or a category of a user, by a name; to
\* give a category a name; and the categories that have it or will.
Inserting(n) == {t \in Threads : /\ pc[t] = "merchant_insert"
                                 /\ Lower[session[t].request.name] = Lower[n]}
Creating(u, n) == {t \in Threads : /\ pc[t] \in {"category_parent", "category_insert"}
                                   /\ session[t].request.kind = "create_category"
                                   /\ session[t].request.user = u
                                   /\ Lower[session[t].request.name] = Lower[n]}
Renaming(u, n) == {t \in Threads : /\ pc[t] \in {"category_parent", "category_write"}
                                   /\ session[t].request.kind = "update_category"
                                   /\ session[t].request.user = u
                                   /\ session[t].request.name # NULL
                                   /\ Lower[session[t].request.name] = Lower[n]}
Taken(u, n) == Twins(u, n) \cup {session[t].request.id : t \in Renaming(u, n)}

\* What is stored, and the requests that will store more.
Room(stored, coming) ==
    /\ IsFiniteSet(stored) /\ coming \subseteq Threads
    /\ Cardinality(stored) + Cardinality(coming) <= Cardinality(Threads)

TwinsInd == \A n \in Names : /\ Room(Named(n), Inserting(n))
                             /\ \A u \in Users : Room(Taken(u, n), Creating(u, n))

LEMMA Counts ==
    ASSUME NEW S, IsFiniteSet(S)
    PROVE  Cardinality(S) \in Nat
BY FS_CardinalityType

LEMMA ThreadCounts ==
    /\ Cardinality(Threads) \in Nat /\ 1 <= Cardinality(Threads)
    /\ \A S \in SUBSET Threads : /\ IsFiniteSet(S) /\ Cardinality(S) \in Nat
                                 /\ Cardinality(S) <= Cardinality(Threads)
<1>1. IsFiniteSet(Threads) /\ Threads # {}
  BY CatalogueAssumption
<1>2. Cardinality(Threads) \in Nat /\ Cardinality(Threads) # 0
  BY <1>1, Counts, FS_EmptySet
<1>3. ASSUME NEW S \in SUBSET Threads
      PROVE  /\ IsFiniteSet(S) /\ Cardinality(S) \in Nat
             /\ Cardinality(S) <= Cardinality(Threads)
  BY <1>1, FS_Subset, Counts
<1>4. 1 <= Cardinality(Threads)
  BY <1>2
<1> QED BY <1>2, <1>3, <1>4

\* Nothing more is stored, or to come.
LEMMA RoomStays ==
    ASSUME NEW stored, NEW coming, Room(stored, coming),
           NEW less \in SUBSET stored, NEW fewer \in SUBSET coming
    PROVE  Room(less, fewer)
<1>1. /\ IsFiniteSet(less) /\ Cardinality(less) <= Cardinality(stored)
      /\ Cardinality(less) \in Nat /\ Cardinality(stored) \in Nat
  BY FS_Subset, Counts DEF Room
<1>2. IsFiniteSet(coming) /\ Cardinality(coming) \in Nat
  BY ThreadCounts DEF Room
<1>3. Cardinality(fewer) \in Nat /\ Cardinality(fewer) <= Cardinality(coming)
  BY <1>2, FS_Subset, Counts
<1> QED BY <1>1, <1>2, <1>3, ThreadCounts DEF Room

\* One of the requests to come has stored its row.
LEMMA RoomUsed ==
    ASSUME NEW stored, NEW coming, Room(stored, coming), NEW t \in coming, NEW x
    PROVE  Room(stored \cup {x}, coming \ {t})
<1>1. IsFiniteSet(coming) /\ Cardinality(coming) \in Nat /\ Cardinality(stored) \in Nat
  BY ThreadCounts, Counts DEF Room
<1>2. /\ IsFiniteSet(stored \cup {x})
      /\ Cardinality(stored \cup {x}) \in {Cardinality(stored), Cardinality(stored) + 1}
  BY FS_AddElement DEF Room
<1>3. Cardinality(coming \ {t}) = Cardinality(coming) - 1
  BY <1>1, FS_RemoveElement
<1> QED BY <1>1, <1>2, <1>3, ThreadCounts DEF Room

\* Nothing is stored but what some requests are about to, and others to insert.
LEMMA RoomOpen ==
    ASSUME NEW renaming \in SUBSET Threads, NEW coming \in SUBSET Threads,
           renaming \cap coming = {}, NEW f, NEW stored,
           stored = {f[t] : t \in renaming}
    PROVE  Room(stored, coming)
<1> DEFINE g == [t \in renaming |-> f[t]]
<1>1. g \in Surjection(renaming, stored)
  BY DEF Surjection
<1>2. IsFiniteSet(renaming) /\ IsFiniteSet(coming)
  BY ThreadCounts
<1>3. IsFiniteSet(stored) /\ Cardinality(stored) <= Cardinality(renaming)
  BY <1>1, <1>2, FS_Surjection
<1>4. Cardinality(renaming \cup coming) = Cardinality(renaming) + Cardinality(coming)
  <2>1. Cardinality(renaming \cup coming) =
            Cardinality(renaming) + Cardinality(coming) - Cardinality(renaming \cap coming)
    BY <1>2, FS_Union
  <2>2. Cardinality(renaming \cap coming) = 0
    BY FS_EmptySet
  <2> QED BY <2>1, <2>2, <1>2, Counts
<1>5. Cardinality(renaming \cup coming) <= Cardinality(Threads)
  BY ThreadCounts
<1> QED BY <1>2, <1>3, <1>4, <1>5, Counts, ThreadCounts DEF Room

LEMMA TwinsInit == CatalogueInit => TwinsInd
<1> SUFFICES ASSUME CatalogueInit, NEW n \in Names
             PROVE  /\ Room(Named(n), Inserting(n))
                    /\ \A u \in Users : Room(Taken(u, n), Creating(u, n))
  BY DEF TwinsInd
<1> USE DEF CatalogueInit
<1>1. Inserting(n) = {} /\ \A u : Creating(u, n) = {} /\ Renaming(u, n) = {}
  BY DEF Inserting, Creating, Renaming
<1>2. \A u \in Users : Taken(u, n) = {}
  BY <1>1, CatalogueAssumption DEF Taken, Twins, Categories
<1>3. Named(n) = {} \/ \E m : Named(n) = {m}
  <2>1. \A l, m \in Named(n) : l = m
    BY CatalogueAssumption DEF Named, Merchants
  <2> QED BY <2>1
<1>4. IsFiniteSet(Named(n)) /\ Cardinality(Named(n)) \in 0 .. 1
  <2>1. CASE Named(n) = {}
    BY <2>1, FS_EmptySet
  <2>2. ASSUME NEW m, Named(n) = {m} PROVE  IsFiniteSet(Named(n)) /\ Cardinality(Named(n)) \in 0 .. 1
    BY <2>2, FS_Singleton
  <2> QED BY <1>3, <2>1, <2>2
<1>5. IsFiniteSet({}) /\ Cardinality({}) = 0
  BY FS_EmptySet
<1> QED BY <1>1, <1>2, <1>4, <1>5, ThreadCounts DEF Room

\* The other requests stay where they are.
LEMMA OthersStay ==
    ASSUME CatalogueInd, NEW t \in Threads, CatalogueStep(t)
    PROVE  \A u \in Threads \ {t} : pc'[u] = pc[u] /\ session'[u] = session[u]
BY CatalogueStepMoves DEF Moves, CatalogueInd

\* Where the reads before a category is written lead.
LEMMA CheckGoes ==
    ASSUME CatalogueInd, NEW t \in Threads,
           create_category(t) \/ update_category(t) \/ category_name(t) \/ category_parent(t)
    PROVE  /\ UNCHANGED tables
           /\ session[t].request.kind \in {"create_category", "update_category"}
           /\ pc'[t] \in {"idle", "category_name", "category_parent", "category_insert",
                          "category_write"}
<1> DEFINE r == session[t].request
           goals == {"idle", "category_name", "category_parent", "category_insert",
                     "category_write"}
<1>1. pc \in [Threads -> CatalogueSteps]
  BY DEF CatalogueInd
<1>2. r.kind \in {"create_category", "update_category"} /\ UNCHANGED tables
  BY Handling DEF create_category, update_category, category_name, category_parent, KindsAt
<1>3. AfterName(r) \in goals
  BY <1>2, AfterNameIs
<1>4. \E next \in goals : pc' = [pc EXCEPT ![t] = next]
  BY <1>3 DEF create_category, update_category, category_name, category_parent, GoTo, Hold,
              Answered
<1> QED BY <1>1, <1>2, <1>4

\* What a step does to merchants, or to the requests about to insert one.
LEMMA MerchantRoom ==
    ASSUME CatalogueInd, TwinsInd, NEW t \in Threads, CatalogueStep(t), NEW n \in Names
    PROVE  Room(Named(n), Inserting(n))'
<1> DEFINE r == session[t].request
<1>1. /\ \A u \in Threads \ {t} : pc'[u] = pc[u] /\ session'[u] = session[u]
      /\ pc \in [Threads -> CatalogueSteps] /\ session \in [Threads -> Session]
      /\ Room(Named(n), Inserting(n))
      /\ Inserting(n) \subseteq Threads /\ Inserting(n)' \subseteq Threads
  BY OthersStay DEF CatalogueInd, TwinsInd, Inserting
<1>2. CASE UNCHANGED merchants /\ pc'[t] # "merchant_insert"
  <2>1. Named(n)' = Named(n) /\ Inserting(n)' \subseteq Inserting(n)
    BY <1>1, <1>2 DEF Named, Merchants, Inserting
  <2> QED BY <1>1, <2>1, RoomStays
<1>3. CASE get_or_create_merchant(t) /\ pc'[t] = "merchant_insert"
  <2>1. /\ merchants' = merchants /\ pc[t] = "create_merchant"
        /\ Named(r.name) = {} /\ session' = session
    <3>1. ~ \E m : WithMerchant(t, m)
      BY <1>1, <1>3 DEF WithMerchant, Hold, Answered
    <3> QED BY <1>3, <3>1 DEF get_or_create_merchant, GoTo, tables
  <2>2. Named(n)' = Named(n)
    BY <2>1 DEF Named, Merchants
  <2>3. CASE Lower[r.name] = Lower[n]
    <3>1. Named(n)' = {}
      BY <2>1, <2>2, <2>3 DEF Named
    <3>2. Room({}, Inserting(n)')
      BY <1>1, FS_EmptySet, ThreadCounts DEF Room
    <3> QED BY <3>1, <3>2 DEF Room
  <2>4. CASE Lower[r.name] # Lower[n]
    <3>1. Inserting(n)' \subseteq Inserting(n)
      BY <1>1, <2>1, <2>4 DEF Inserting
    <3> QED BY <1>1, <2>2, <3>1, RoomStays
  <2> QED BY <2>3, <2>4
<1>4. CASE merchant_insert(t) /\ ~UNCHANGED merchants
  <2> DEFINE m == Fresh(MerchantIds \ Merchants)
             new == [name |-> r.name, category |-> FirstCategory(r)]
  <2>1. /\ pc[t] = "merchant_insert" /\ Merchants # MerchantIds
        /\ merchants' = [merchants EXCEPT ![m] = new] /\ WithMerchant(t, m)
    BY <1>4 DEF merchant_insert
  <2>2. pc'[t] \in {"learned_pattern", "idle"}
    BY <1>1, <2>1 DEF WithMerchant, Hold, Answered
  <2>3. m \in MerchantIds /\ merchants[m] = NULL
    BY <2>1, FreshMerchant
  <2>4. merchants \in [MerchantIds -> Merchant \cup {NULL}]
    BY DEF CatalogueInd, Tables, TablesOK
  <2> DEFINE name == r.name
  <2>5. new.name = name
    OBVIOUS
  <2> HIDE DEF m, new, name
  <2>6. Inserting(n)' \subseteq Inserting(n) \ {t}
    BY <1>1, <2>2 DEF Inserting
  <2>7. CASE Lower[name] = Lower[n]
    <3>1. t \in Inserting(n)
      BY <2>1, <2>7 DEF Inserting, name
    <3>2. Named(n)' \subseteq Named(n) \cup {m}
      BY <2>1, <2>3, <2>4 DEF Named, Merchants
    <3>3. Room(Named(n) \cup {m}, Inserting(n) \ {t})
      BY <1>1, <3>1, RoomUsed
    <3>4. Room(Named(n)', Inserting(n)')
      BY <2>6, <3>2, <3>3, RoomStays
    <3> QED BY <3>4 DEF Room
  <2>8. CASE Lower[name] # Lower[n]
    <3>1. Named(n)' \subseteq Named(n)
      BY <2>1, <2>3, <2>4, <2>5, <2>8 DEF Named, Merchants
    <3>2. Room(Named(n)', Inserting(n)')
      BY <1>1, <2>6, <3>1, RoomStays
    <3> QED BY <3>2 DEF Room
  <2> QED BY <2>7, <2>8
<1>5. \/ UNCHANGED merchants /\ pc'[t] # "merchant_insert"
      \/ get_or_create_merchant(t) /\ pc'[t] = "merchant_insert"
      \/ merchant_insert(t) /\ ~UNCHANGED merchants
  <2>1. CASE begin(t)
    <3>1. PICK q \in Requests : pc' = [pc EXCEPT ![t] = q.kind]
      BY <2>1 DEF begin
    <3>2. q.kind # "merchant_insert"
      BY RequestShape
    <3> QED BY <1>1, <2>1, <3>1, <3>2 DEF begin, tables
  <2>2. CASE get_or_create_merchant(t)
    BY <2>2 DEF get_or_create_merchant, tables
  <2>3. CASE merchant_insert(t)
    <3>1. pc'[t] # "merchant_insert"
      BY <1>1, <2>3 DEF merchant_insert, WithMerchant, Hold, Answered
    <3> QED BY <2>3, <3>1
  <2>4. CASE category_insert(t) \/ category_write(t)
    BY <1>1, <2>4 DEF category_insert, category_write, Answered
  <2>7. CASE \/ create_category(t) \/ update_category(t) \/ category_name(t)
             \/ category_parent(t)
    <3>1. /\ UNCHANGED merchants
          /\ pc'[t] \in {"idle", "category_name", "category_parent", "category_insert",
                         "category_write"}
      BY <2>7, CheckGoes DEF tables
    <3> QED BY <3>1
  <2>5. CASE \/ create_pattern(t) \/ pattern_insert(t) \/ record_feedback(t)
             \/ learned_pattern(t) \/ resolve(t)
    BY <1>1, <2>5 DEF create_pattern, pattern_insert, record_feedback, learned_pattern, resolve,
                      GoTo, Hold, Answered, tables
  <2>6. CASE suggest(t) \/ review_suggestion(t) \/ mark_reviewed(t)
    BY <1>1, <2>6 DEF suggest, review_suggestion, mark_reviewed, Hold, Answered, tables
  <2> QED BY <2>1, <2>2, <2>3, <2>4, <2>5, <2>6, <2>7 DEF CatalogueStep
<1> QED BY <1>2, <1>3, <1>4, <1>5

\* A request that is about to insert or rename a category has seen no other of the
\* user's by this name, or it renames the one that has it.
LEMMA CategoryRoomOpens ==
    ASSUME CatalogueInd, NEW n \in Names, NEW u \in Users,
           Twins(u, n)' = {}
    PROVE  Room(Taken(u, n), Creating(u, n))'
<1> DEFINE f == [t \in Threads |-> session'[t].request.id]
<1>1. Taken(u, n)' = {f[t] : t \in Renaming(u, n)'}
  BY DEF Taken, Renaming
<1>2. /\ Renaming(u, n)' \in SUBSET Threads /\ Creating(u, n)' \in SUBSET Threads
      /\ Renaming(u, n)' \cap Creating(u, n)' = {}
  BY DEF Renaming, Creating
<1> HIDE DEF f
<1>3. Room(Taken(u, n)', Creating(u, n)')
  BY <1>1, <1>2, RoomOpen
<1> QED BY <1>3 DEF Room

LEMMA CategoryRoom ==
    ASSUME CatalogueInd, TwinsInd, NEW t \in Threads, CatalogueStep(t),
           NEW n \in Names, NEW u \in Users
    PROVE  Room(Taken(u, n), Creating(u, n))'
<1> DEFINE r == session[t].request
           Late == {"category_parent", "category_insert", "category_write"}
<1>1. /\ \A v \in Threads \ {t} : pc'[v] = pc[v] /\ session'[v] = session[v]
      /\ pc \in [Threads -> CatalogueSteps] /\ session \in [Threads -> Session]
      /\ Room(Taken(u, n), Creating(u, n))
      /\ categories \in [CategoryIds -> Category \cup {NULL}]
  BY OthersStay DEF CatalogueInd, TwinsInd, Tables, TablesOK, CategoriesOK
<1>2. ASSUME Taken(u, n)' \subseteq Taken(u, n), Creating(u, n)' \subseteq Creating(u, n)
      PROVE  Room(Taken(u, n), Creating(u, n))'
  <2>1. Room(Taken(u, n)', Creating(u, n)')
    BY <1>1, <1>2, RoomStays
  <2> QED BY <2>1 DEF Room
<1>3. CASE UNCHANGED categories /\ pc'[t] \notin Late
  <2>1. Twins(u, n)' = Twins(u, n) /\ Creating(u, n)' \subseteq Creating(u, n)
    BY <1>1, <1>3 DEF Twins, Categories, Creating
  <2>2. \A v \in Renaming(u, n)' : v \in Renaming(u, n) /\ session'[v] = session[v]
    BY <1>1, <1>3 DEF Renaming
  <2>3. Taken(u, n)' \subseteq Taken(u, n)
    BY <2>1, <2>2 DEF Taken
  <2> QED BY <1>2, <2>1, <2>3
<1>4. CASE (create_category(t) \/ category_name(t)) /\ pc'[t] \in Late
  <2>1. /\ categories' = categories /\ session' = session
        /\ find_by_name(r.user, r.name) = {}
    BY <1>1, <1>4 DEF create_category, category_name, GoTo, Answered, tables
  <2>2. Twins(u, n)' = Twins(u, n)
    BY <2>1 DEF Twins, Categories
  <2>3. CASE r.user = u /\ Lower[r.name] = Lower[n]
    <3>1. Twins(u, n) = {}
      BY <2>1, <2>3 DEF Twins, find_by_name
    <3> QED BY <2>2, <3>1, CategoryRoomOpens
  <2>4. CASE ~(r.user = u /\ Lower[r.name] = Lower[n])
    <3>1. Creating(u, n)' \subseteq Creating(u, n)
      BY <1>1, <2>1, <2>4 DEF Creating
    <3>2. \A v \in Renaming(u, n)' : v \in Renaming(u, n) /\ session'[v] = session[v]
      BY <1>1, <2>1, <2>4 DEF Renaming
    <3>3. Taken(u, n)' \subseteq Taken(u, n)
      BY <2>2, <3>2 DEF Taken
    <3> QED BY <1>2, <3>1, <3>3
  <2> QED BY <2>3, <2>4
<1>5. CASE update_category(t) /\ pc'[t] \in Late
  <2> DEFINE row == categories[r.id]
  <2>1. /\ categories' = categories /\ Editable(r) /\ r.kind = "update_category"
        /\ r.name # NULL => Lower[r.name] = Lower[row.name]
        /\ session' = [session EXCEPT ![t] = [session[t] EXCEPT !["seen"] = row]]
    BY <1>1, <1>5, Handling DEF update_category, Hold, Answered, tables, KindsAt
  <2>2. session'[t].request = r
    BY <1>1, <2>1 DEF Session
  <2>3. Twins(u, n)' = Twins(u, n)
    BY <2>1 DEF Twins, Categories
  <2>4. Creating(u, n)' \subseteq Creating(u, n)
    BY <1>1, <2>1, <2>2 DEF Creating
  <2>5. \A v \in Renaming(u, n)' : v = t \/ (v \in Renaming(u, n) /\ session'[v] = session[v])
    BY <1>1 DEF Renaming
  <2>6. CASE r.user = u /\ r.name # NULL /\ Lower[r.name] = Lower[n]
    <3>1. r.id \in Twins(u, n)
      BY <2>1, <2>6 DEF Twins, Editable, Visible
    <3>2. Taken(u, n)' \subseteq Taken(u, n)
      BY <2>2, <2>3, <2>5, <3>1 DEF Taken
    <3> QED BY <1>2, <2>4, <3>2
  <2>7. CASE ~(r.user = u /\ r.name # NULL /\ Lower[r.name] = Lower[n])
    <3>1. t \notin Renaming(u, n)'
      BY <2>2, <2>7 DEF Renaming
    <3>2. Taken(u, n)' \subseteq Taken(u, n)
      BY <2>3, <2>5, <3>1 DEF Taken
    <3> QED BY <1>2, <2>4, <3>2
  <2> QED BY <2>6, <2>7
<1>9. CASE category_parent(t) /\ pc'[t] \in Late
  <2>1. /\ categories' = categories /\ session' = session /\ pc[t] = "category_parent"
        /\ pc'[t] = IF r.kind = "create_category" THEN "category_insert" ELSE "category_write"
    BY <1>1, <1>9 DEF category_parent, GoTo, Answered, tables
  <2>2. Twins(u, n)' = Twins(u, n)
    BY <2>1 DEF Twins, Categories
  <2>3. Creating(u, n)' \subseteq Creating(u, n) /\ Renaming(u, n)' \subseteq Renaming(u, n)
    BY <1>1, <2>1 DEF Creating, Renaming
  <2>4. Taken(u, n)' \subseteq Taken(u, n)
    BY <2>1, <2>2, <2>3 DEF Taken
  <2> QED BY <1>2, <2>3, <2>4
<1>6. CASE category_insert(t) /\ ~UNCHANGED categories
  <2> DEFINE c == Fresh(CategoryIds \ Categories)
             new == [user |-> r.user, name |-> r.name, parent |-> r.parent]
  <2>1. /\ pc[t] = "category_insert" /\ pc'[t] = "idle" /\ Categories # CategoryIds
        /\ categories' = [categories EXCEPT ![c] = new] /\ r.kind = "create_category"
    BY <1>1, <1>6, Handling DEF category_insert, Answered, KindsAt
  <2>2. c \in CategoryIds /\ categories[c] = NULL
    BY <2>1, FreshCategory
  <2>3. /\ Creating(u, n)' \subseteq Creating(u, n) \ {t}
        /\ \A v \in Renaming(u, n)' : v \in Renaming(u, n) /\ session'[v] = session[v]
    BY <1>1, <2>1 DEF Creating, Renaming
  <2> DEFINE name == r.name
             user == r.user
  <2>4. new.name = name /\ new.user = user
    OBVIOUS
  <2> HIDE DEF c, new, name, user
  <2>5. Twins(u, n)' \subseteq Twins(u, n) \cup {c}
    BY <1>1, <2>1, <2>2 DEF Twins, Categories
  <2>6. CASE user = u /\ Lower[name] = Lower[n]
    <3>1. t \in Creating(u, n)
      BY <2>1, <2>6 DEF Creating, name, user
    <3>2. Taken(u, n)' \subseteq Taken(u, n) \cup {c}
      BY <2>3, <2>5 DEF Taken
    <3>3. Room(Taken(u, n) \cup {c}, Creating(u, n) \ {t})
      BY <1>1, <3>1, RoomUsed
    <3>4. Room(Taken(u, n)', Creating(u, n)')
      BY <2>3, <3>2, <3>3, RoomStays
    <3> QED BY <3>4 DEF Room
  <2>7. CASE ~(user = u /\ Lower[name] = Lower[n])
    <3>1. c \notin Twins(u, n)'
      BY <1>1, <2>1, <2>2, <2>4, <2>7 DEF Twins
    <3>2. Taken(u, n)' \subseteq Taken(u, n)
      BY <2>3, <2>5, <3>1 DEF Taken
    <3> QED BY <1>2, <2>3, <3>2
  <2> QED BY <2>6, <2>7
<1>7. CASE category_write(t) /\ ~UNCHANGED categories
  <2> DEFINE id == r.id
             row == categories[id]
             new == Rewritten(row, session[t].seen, r)
  <2>1. /\ id \in CategoryIds /\ row # NULL
        /\ new.user = row.user /\ row.user = r.user
        /\ new.name = row.name \/ (r.name # NULL /\ new.name = r.name)
    BY <1>7, WriteShape
  <2>2. /\ pc[t] = "category_write" /\ pc'[t] = "idle" /\ r.kind = "update_category"
        /\ categories' = [categories EXCEPT ![id] = new]
    BY <1>1, <1>7, Handling DEF category_write, Answered, Rewritten, KindsAt
  <2>3. /\ Creating(u, n)' \subseteq Creating(u, n)
        /\ \A v \in Renaming(u, n)' : v \in Renaming(u, n) /\ session'[v] = session[v]
    BY <1>1, <2>2 DEF Creating, Renaming
  <2>4. new.user = u /\ Lower[new.name] = Lower[n] => id \in Taken(u, n)
    <3> SUFFICES ASSUME new.user = u, Lower[new.name] = Lower[n] PROVE id \in Taken(u, n)
      OBVIOUS
    <3>1. CASE new.name = row.name
      BY <2>1, <3>1 DEF Taken, Twins, Categories
    <3>2. CASE r.name # NULL /\ new.name = r.name
      <4>1. t \in Renaming(u, n)
        BY <2>1, <2>2, <3>2 DEF Renaming
      <4> QED BY <4>1 DEF Taken
    <3> QED BY <2>1, <3>1, <3>2
  <2> HIDE DEF id, row, new
  <2>5. \A c \in Twins(u, n)' : \/ c \in Twins(u, n)
                                \/ c = id /\ new.user = u /\ Lower[new.name] = Lower[n]
    BY <1>1, <2>1, <2>2 DEF Twins, Categories
  <2>6. Taken(u, n)' \subseteq Taken(u, n)
    BY <2>3, <2>4, <2>5 DEF Taken
  <2> QED BY <1>2, <2>3, <2>6
<1>8. \/ UNCHANGED categories /\ pc'[t] \notin Late
      \/ (create_category(t) \/ category_name(t)) /\ pc'[t] \in Late
      \/ update_category(t) /\ pc'[t] \in Late
      \/ category_parent(t) /\ pc'[t] \in Late
      \/ category_insert(t) /\ ~UNCHANGED categories
      \/ category_write(t) /\ ~UNCHANGED categories
  <2>1. CASE begin(t)
    <3>1. PICK q \in Requests : pc' = [pc EXCEPT ![t] = q.kind]
      BY <2>1 DEF begin
    <3>2. q.kind \notin Late
      BY RequestShape
    <3> QED BY <1>1, <2>1, <3>1, <3>2 DEF begin, tables
  <2>2. CASE \/ create_category(t) \/ update_category(t) \/ category_name(t)
             \/ category_parent(t)
    <3>1. UNCHANGED categories
      BY <2>2, CheckGoes DEF tables
    <3> QED BY <2>2, <3>1
  <2>3. CASE category_insert(t) \/ category_write(t)
    BY <1>1, <2>3 DEF category_insert, category_write, Answered
  <2>4. CASE get_or_create_merchant(t) \/ merchant_insert(t)
    BY <1>1, <2>4 DEF get_or_create_merchant, merchant_insert, WithMerchant, GoTo, Hold,
                      Answered, tables
  <2>5. CASE \/ create_pattern(t) \/ pattern_insert(t) \/ record_feedback(t)
             \/ learned_pattern(t) \/ resolve(t)
    BY <1>1, <2>5 DEF create_pattern, pattern_insert, record_feedback, learned_pattern, resolve,
                      GoTo, Hold, Answered, tables
  <2>6. CASE suggest(t) \/ review_suggestion(t) \/ mark_reviewed(t)
    BY <1>1, <2>6 DEF suggest, review_suggestion, mark_reviewed, Hold, Answered, tables
  <2> QED BY <2>1, <2>2, <2>3, <2>4, <2>5, <2>6 DEF CatalogueStep
<1> QED BY <1>3, <1>4, <1>5, <1>6, <1>7, <1>8, <1>9

\* No name, in any spelling, is borne by more merchants, or by more categories of
\* a user, than there can be requests at a time.
THEOREM CatalogueTwinsAreBounded == CatalogueSpec => []TwinsAreBounded
<1>1. CatalogueInd /\ TwinsInd /\ [CatalogueNext]_catalogueVars => TwinsInd'
  <2> SUFFICES ASSUME CatalogueInd, TwinsInd, [CatalogueNext]_catalogueVars PROVE TwinsInd'
    OBVIOUS
  <2>1. ASSUME NEW t \in Threads, CatalogueStep(t) PROVE TwinsInd'
    BY <2>1, MerchantRoom, CategoryRoom DEF TwinsInd
  <2>2. CASE UNCHANGED catalogueVars
    <3> SUFFICES ASSUME NEW n \in Names
                 PROVE  /\ Room(Named(n), Inserting(n))'
                        /\ \A u \in Users : Room(Taken(u, n), Creating(u, n))'
      BY DEF TwinsInd
    <3>1. Named(n)' = Named(n) /\ Inserting(n)' = Inserting(n)
      BY <2>2 DEF catalogueVars, tables, Named, Merchants, Inserting
    <3>2. \A u \in Users : Taken(u, n)' = Taken(u, n) /\ Creating(u, n)' = Creating(u, n)
      BY <2>2 DEF catalogueVars, tables, Taken, Twins, Categories, Renaming, Creating
    <3> QED BY <3>1, <3>2 DEF TwinsInd, Room
  <2> QED BY <2>1, <2>2 DEF CatalogueNext
<1>2. TwinsInd => TwinsAreBounded
  <2> SUFFICES ASSUME TwinsInd, NEW n \in Names
               PROVE  /\ Cardinality(Named(n)) <= Cardinality(Threads)
                      /\ \A u \in Users : Cardinality(Twins(u, n)) <= Cardinality(Threads)
    BY DEF TwinsAreBounded
  <2>1. ASSUME NEW stored, NEW coming, Room(stored, coming), NEW less \in SUBSET stored
        PROVE  Cardinality(less) <= Cardinality(Threads)
    <3>1. /\ Cardinality(less) \in Nat /\ Cardinality(stored) \in Nat
          /\ Cardinality(less) <= Cardinality(stored)
      BY <2>1, FS_Subset, Counts DEF Room
    <3>2. Cardinality(coming) \in Nat
      BY <2>1, ThreadCounts DEF Room
    <3> QED BY <2>1, <3>1, <3>2, ThreadCounts DEF Room
  <2>2. Cardinality(Named(n)) <= Cardinality(Threads)
    BY <2>1 DEF TwinsInd
  <2>3. ASSUME NEW u \in Users PROVE Cardinality(Twins(u, n)) <= Cardinality(Threads)
    <3>1. Twins(u, n) \subseteq Taken(u, n) /\ Room(Taken(u, n), Creating(u, n))
      BY DEF Taken, TwinsInd
    <3> QED BY <2>1, <3>1
  <2> QED BY <2>2, <2>3
<1> QED BY <1>1, <1>2, TwinsInit, CatalogueInvariant, PTL DEF CatalogueSpec
=============================================================================
