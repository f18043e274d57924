----------------------------- MODULE Catalogue -----------------------------
(***************************************************************************)
(* What messages and transactions are filed under: categories, merchants,   *)
(* merchant patterns, the rules learned from corrections, and the           *)
(* suggestions of a model (app/domains/{categories,merchants,ai}, app/ai,   *)
(* app/api/{categories,merchants,ai}.py).                                  *)
(*                                                                         *)
(* Each handler is a few round trips to the database at READ COMMITTED: it  *)
(* decides on what it has read, and commits later.  Merchants are shared,   *)
(* categories and patterns belong to a user or, without one, to everybody.  *)
(* Nothing here is ever deleted.                                           *)
(***************************************************************************)
EXTENDS Integers, FiniteSets

CONSTANTS
    Threads,            \* requests that may be in progress at the same time
    Users, NULL,
    Names, Lower,       \* names as they are spelled, and lower() of each
    Stems, StemLength,  \* texts that end in a letter; none is part of another
    Tails,              \* runs of digits; none is a prefix of another
    TailLength,
    CategoryIds, MerchantIds, PatternIds, SuggestionIds,
    SystemCategories,   \* [CategoryIds -> Category \cup {NULL}], migration 0009
    GlobalPatterns,     \* [PatternIds -> MerchantPattern \cup {NULL}]
    KnownMerchants,     \* [MerchantIds -> Merchant \cup {NULL}]
    Answers,            \* what models answer
    Requests,           \* what the users of this instance send
    MaxRequests         \* bound on the requests that are accepted

MAX_PATTERN_LENGTH == 255
MIN_TOKEN_LENGTH == 4

\* A bank's string, or a pattern: a stem, perhaps digits after it, perhaps an
\* underscore in it, perhaps between two '%'.
Text == [stem : Stems, tail : Tails \cup {NULL}, wild : BOOLEAN, open : BOOLEAN]
MerchantRaw == {raw \in Text : ~raw.open}

Length(text) == StemLength[text.stem] + (IF text.tail # NULL THEN TailLength ELSE 0)
                + (IF text.wild THEN 1 ELSE 0) + (IF text.open THEN 2 ELSE 0)

Category == [user : Users \cup {NULL}, name : Names, parent : CategoryIds \cup {NULL}]

Merchant == [name : Names, category : CategoryIds \cup {NULL}]

PatternType == {"EXACT", "LIKE", "REGEX", "AI_SUGGESTED"}
MerchantPattern == [user : Users \cup {NULL}, merchant : MerchantIds,
                    type : PatternType, text : Text]

\* A stored confidence, in percent.
ConfidenceScore == 0 .. 100
SuggestionStatus == {"PENDING", "ACCEPTED", "REJECTED"}
AISuggestion == [user : Users, value : Names, confidence : ConfidenceScore,
                 status : SuggestionStatus,
                 asked : SuggestionStatus]  \* no column: what the last review said

UserFeedback == [user : Users, raw : MerchantRaw, name : Names]

\* How a message was filed: what it said, under which merchant and category.
Filing == [user : Users, raw : MerchantRaw, merchant : MerchantIds \cup {NULL},
           category : CategoryIds \cup {NULL}]

CategoryRequest ==
    [kind : {"create_category"}, user : Users, name : Names,
     parent : CategoryIds \cup {NULL}]
    \cup [kind : {"update_category"}, user : Users, id : CategoryIds,
          name : Names \cup {NULL}, parent : CategoryIds \cup {NULL}]
MerchantRequest ==
    [kind : {"create_merchant"}, user : Users, name : Names,
     category : CategoryIds \cup {NULL}]
    \cup [kind : {"create_pattern"}, user : Users, merchant : MerchantIds,
          type : PatternType, text : Text]
    \cup [kind : {"correct"}, user : Users, raw : MerchantRaw, name : Names]
    \cup [kind : {"message"}, user : Users, raw : MerchantRaw]
SuggestionRequest ==
    [kind : {"suggest_merchant"}, user : Users]
    \cup [kind : {"suggest_category"}, user : Users, allowed : SUBSET Names]
    \cup [kind : {"review"}, user : Users, id : SuggestionIds, accepted : BOOLEAN]
Request == CategoryRequest \cup MerchantRequest \cup SuggestionRequest

\* Answers that parse: a JSON object with a text and a number, here in half percents
\* of certainty.
Answer == [value : Names, confidence : Int]

ASSUME CatalogueAssumption ==
    /\ Lower \in [Names -> Names] /\ \A n \in Names : Lower[Lower[n]] = Lower[n]
    /\ StemLength \in [Stems -> Nat] /\ TailLength \in Nat
    /\ IsFiniteSet(Threads) /\ Threads # {}
    /\ NULL \notin Users \cup Names \cup Tails \cup CategoryIds \cup MerchantIds
                   \cup PatternIds \cup SuggestionIds \cup Category \cup Merchant
                   \cup MerchantPattern \cup AISuggestion \cup Request \cup Answer
                   \cup Text
    /\ SystemCategories \in [CategoryIds -> Category \cup {NULL}]
    /\ \A c \in CategoryIds : SystemCategories[c] # NULL =>
          SystemCategories[c].user = NULL /\ SystemCategories[c].parent = NULL
    /\ KnownMerchants \in [MerchantIds -> Merchant \cup {NULL}]
    /\ \A l, m \in MerchantIds :
          KnownMerchants[l] # NULL /\ KnownMerchants[m] # NULL /\ l # m =>
              Lower[KnownMerchants[l].name] # Lower[KnownMerchants[m].name]
    /\ GlobalPatterns \in [PatternIds -> MerchantPattern \cup {NULL}]
    /\ \A p \in PatternIds : GlobalPatterns[p] # NULL =>
          /\ GlobalPatterns[p].user = NULL
          /\ KnownMerchants[GlobalPatterns[p].merchant] # NULL
    /\ Requests \subseteq Request /\ Answers \subseteq Answer
    /\ MaxRequests \in Nat

VARIABLES
    categories, merchants, patterns, feedback, suggestions,  \* the tables
    filed,      \* how messages were filed
    accepted,   \* how many requests have come
    pc, session \* where each request is, and what it has read

tables == <<categories, merchants, patterns, feedback, suggestions, filed>>
catalogueVars == <<tables, accepted, pc, session>>

NoSession == [request |-> NULL, seen |-> NULL, merchant |-> NULL]

Categories == {c \in CategoryIds : categories[c] # NULL}
Merchants == {m \in MerchantIds : merchants[m] # NULL}
Patterns == {p \in PatternIds : patterns[p] # NULL}
Suggestions == {s \in SuggestionIds : suggestions[s] # NULL}

\* A new identity (uuid4); which one does not matter.
Fresh(ids) == CHOOSE id \in ids : TRUE

CatalogueInit ==
    /\ categories = SystemCategories
    /\ merchants = KnownMerchants
    /\ patterns = GlobalPatterns
    /\ feedback = {}
    /\ suggestions = [s \in SuggestionIds |-> NULL]
    /\ filed = {}
    /\ accepted = 0
    /\ pc = [t \in Threads |-> "idle"]
    /\ session = [t \in Threads |-> NoSession]

GoTo(t, next) == pc' = [pc EXCEPT ![t] = next] /\ UNCHANGED session

Hold(t, next, column, value) ==
    /\ pc' = [pc EXCEPT ![t] = next]
    /\ session' = [session EXCEPT ![t][column] = value]

\* The request is answered.
Answered(t) ==
    /\ pc' = [pc EXCEPT ![t] = "idle"]
    /\ session' = [session EXCEPT ![t] = NoSession]

begin(t) ==
    /\ pc[t] = "idle"
    /\ accepted < MaxRequests
    /\ accepted' = accepted + 1
    /\ \E r \in Requests :
          /\ pc' = [pc EXCEPT ![t] = r.kind]
          /\ session' = [session EXCEPT ![t] = [NoSession EXCEPT !.request = r]]
    /\ UNCHANGED tables

-----------------------------------------------------------------------------
(* Categories                                                              *)

Visible(c, user) == c \in Categories /\ categories[c].user \in {user, NULL}

\* A parent, if one is given, must be visible.
ParentAllowed(parent, user) == parent # NULL => Visible(parent, user)

\* Mutant: the pre-check compares names as they are spelled.
FindExact(user, name) ==
    {c \in Categories : categories[c].user = user /\ categories[c].name = name}

find_by_name(user, name) ==
    {c \in Categories : /\ categories[c].user = user
                        /\ Lower[categories[c].name] = Lower[name]}

\* uq_user_category_name: no other row of the user with this very name.
NameFree(c, user, name) ==
    \A d \in Categories \ {c} : categories[d].user = user => categories[d].name # name

\* The parent is looked up, if one is given, and then the row is written.
AfterName(r) ==
    CASE r.parent # NULL -> "category_parent"
      [] r.kind = "create_category" /\ r.parent = NULL -> "category_insert"
      [] r.kind = "update_category" /\ r.parent = NULL -> "category_write"

create_category(t) ==
    LET r == session[t].request
    IN  /\ pc[t] = "create_category"
        /\ IF find_by_name(r.user, r.name) = {} THEN GoTo(t, AfterName(r)) ELSE Answered(t)
        /\ UNCHANGED <<tables, accepted>>

category_insert(t) ==
    LET r == session[t].request
    IN  /\ pc[t] = "category_insert"
        /\ categories' =
              IF Categories # CategoryIds   \* bound: an identity is left
                 /\ NameFree(Fresh(CategoryIds \ Categories), r.user, r.name)
              THEN [categories EXCEPT ![Fresh(CategoryIds \ Categories)] =
                      [user |-> r.user, name |-> r.name, parent |-> r.parent]]
              ELSE categories
        /\ Answered(t)
        /\ UNCHANGED <<merchants, patterns, feedback, suggestions, filed, accepted>>

\* The user's own: a system category has no user.
Editable(r) == Visible(r.id, r.user) /\ categories[r.id].user = r.user

\* Another spelling of the name it has needs no check.
update_category(t) ==
    LET r == session[t].request
        row == categories[r.id]
        sameName == r.name # NULL => Lower[r.name] = Lower[row.name]
    IN  /\ pc[t] = "update_category"
        /\ IF Editable(r)
           THEN Hold(t, IF sameName THEN AfterName(r) ELSE "category_name", "seen", row)
           ELSE Answered(t)
        /\ UNCHANGED <<tables, accepted>>

category_name(t) ==
    LET r == session[t].request
    IN  /\ pc[t] = "category_name"
        /\ IF find_by_name(r.user, r.name) = {} THEN GoTo(t, AfterName(r)) ELSE Answered(t)
        /\ UNCHANGED <<tables, accepted>>

\* get_visible: a category is not its own parent, and that is all that is asked
\* of a parent besides being visible.
category_parent(t) ==
    LET r == session[t].request
        creates == r.kind = "create_category"
    IN  /\ pc[t] = "category_parent"
        /\ IF (creates \/ r.parent # r.id) /\ ParentAllowed(r.parent, r.user)
           THEN GoTo(t, IF creates THEN "category_insert" ELSE "category_write")
           ELSE Answered(t)
        /\ UNCHANGED <<tables, accepted>>

\* The columns that differ from the copy are written, or the index refuses.
category_write(t) ==
    LET r == session[t].request
        seen == session[t].seen
        row == categories[r.id]
        new == [row EXCEPT
                  !.name = IF r.name \notin {NULL, seen.name} THEN r.name ELSE @,
                  !.parent = IF r.parent \notin {NULL, seen.parent} THEN r.parent ELSE @]
    IN  /\ pc[t] = "category_write"
        /\ categories' = IF NameFree(r.id, r.user, new.name)
                         THEN [categories EXCEPT ![r.id] = new] ELSE categories
        /\ Answered(t)
        /\ UNCHANGED <<merchants, patterns, feedback, suggestions, filed, accepted>>

-----------------------------------------------------------------------------
(* Merchants and patterns                                                  *)

Named(name) == {m \in Merchants : Lower[merchants[m].name] = Lower[name]}

\* Where a correction goes on once it has its merchant; a creation is answered.
WithMerchant(t, m) ==
    IF session[t].request.kind = "correct"
    THEN Hold(t, "learned_pattern", "merchant", m) ELSE Answered(t)

\* find_by_name; the table has no unique index.
get_or_create_merchant(t) ==
    LET found == Named(session[t].request.name)
    IN  /\ pc[t] = "create_merchant"
        /\ \/ \E m \in found : WithMerchant(t, m)
           \/ found = {} /\ GoTo(t, "merchant_insert")
        /\ UNCHANGED <<tables, accepted>>

\* The default category of a new merchant: anybody's, but one that exists (a
\* foreign key); a correction gives none.
FirstCategory(r) == IF r.kind = "correct" THEN NULL ELSE r.category

merchant_insert(t) ==
    LET r == session[t].request
    IN  /\ pc[t] = "merchant_insert"
        /\ IF /\ Merchants # MerchantIds   \* bound: an identity is left
              /\ FirstCategory(r) \in Categories \cup {NULL}
           THEN LET m == Fresh(MerchantIds \ Merchants)
                IN  /\ merchants' = [merchants EXCEPT ![m] =
                          [name |-> r.name, category |-> FirstCategory(r)]]
                    /\ WithMerchant(t, m)
           ELSE UNCHANGED merchants /\ Answered(t)
        /\ UNCHANGED <<categories, patterns, feedback, suggestions, filed, accepted>>

\* The same text for the same merchant, whatever its type.
find_pattern(user, merchant, text) ==
    {p \in Patterns : /\ patterns[p].user = user
                      /\ patterns[p].merchant = merchant
                      /\ patterns[p].text = text}

\* Merchants are never deleted, so that the merchant exists and that the pattern
\* does not are read as one.
create_pattern(t) ==
    LET r == session[t].request
    IN  /\ pc[t] = "create_pattern"
        /\ IF /\ r.merchant \in Merchants
              /\ Length(r.text) <= MAX_PATTERN_LENGTH
              /\ find_pattern(r.user, r.merchant, r.text) = {}
           THEN Hold(t, "pattern_insert", "seen",
                     [user |-> r.user, merchant |-> r.merchant,
                      type |-> r.type, text |-> r.text])
           ELSE Answered(t)
        /\ UNCHANGED <<tables, accepted>>

pattern_insert(t) ==
    /\ pc[t] = "pattern_insert"
    /\ patterns' = IF Patterns = PatternIds THEN patterns   \* bound: no identity left
                   ELSE [patterns EXCEPT ![Fresh(PatternIds \ Patterns)] = session[t].seen]
    /\ Answered(t)
    /\ UNCHANGED <<categories, merchants, feedback, suggestions, filed, accepted>>

-----------------------------------------------------------------------------
(* Resolving: resolver.py                                                  *)

Contains(raw, text) == /\ raw.stem = text.stem /\ raw.wild = text.wild
                       /\ text.tail \in {NULL, raw.tail}

like_matches(raw, text) ==
    IF text.open THEN Contains(raw, text) ELSE raw = text

\* re.search: '%' is a letter like any other.
regex_matches(raw, text) == ~text.open /\ Contains(raw, text)

matches(raw, p) == \/ p.type = "EXACT" /\ raw = p.text
                   \/ p.type \in {"LIKE", "AI_SUGGESTED"} /\ like_matches(raw, p.text)
                   \/ p.type = "REGEX" /\ regex_matches(raw, p.text)

PATTERN_TYPE_PRECEDENCE == [EXACT |-> 0, LIKE |-> 1, REGEX |-> 2, AI_SUGGESTED |-> 3]

\* Mutant: the order the module's own docstring gives, type before owner.
TypeFirst(p, q) ==
    LET i == PATTERN_TYPE_PRECEDENCE[p.type]
        j == PATTERN_TYPE_PRECEDENCE[q.type]
    IN  \/ i < j
        \/ i = j /\ p.user # NULL /\ q.user = NULL
        \/ i = j /\ (p.user = NULL) = (q.user = NULL) /\ Length(p.text) > Length(q.text)

\* _precedence_key: the user's before global ones, then the type, then length.
Precedes(p, q) ==
    LET i == PATTERN_TYPE_PRECEDENCE[p.type]
        j == PATTERN_TYPE_PRECEDENCE[q.type]
    IN  \/ p.user # NULL /\ q.user = NULL
        \/ /\ (p.user = NULL) = (q.user = NULL)
           /\ i < j \/ (i = j /\ Length(p.text) > Length(q.text))

Matching(user, raw) ==
    {p \in Patterns : patterns[p].user \in {user, NULL} /\ matches(raw, patterns[p])}

\* The patterns that may decide: ties are broken by the order of the rows.
resolve_merchant(user, raw) ==
    {p \in Matching(user, raw) :
        \A q \in Matching(user, raw) : ~Precedes(patterns[q], patterns[p])}

\* Mutant: the merchant's default category is taken as it is.
DefaultCategory(m, user) == merchants[m].category

\* The merchant's default category, if the user may see it.
resolve_category(m, user) ==
    IF merchants[m].category # NULL /\ Visible(merchants[m].category, user)
    THEN merchants[m].category ELSE NULL

\* The pipeline files a message (what it posts is module Ingestion's).
resolve(t) ==
    LET r == session[t].request
        best == resolve_merchant(r.user, r.raw)
    IN  /\ pc[t] = "message"
        /\ \/ \E p \in best :
                 LET m == patterns[p].merchant
                 IN  filed' = filed \cup {[user |-> r.user, raw |-> r.raw, merchant |-> m,
                                           category |-> resolve_category(m, r.user)]}
           \/ /\ best = {}
              /\ filed' = filed \cup {[user |-> r.user, raw |-> r.raw, merchant |-> NULL,
                                       category |-> NULL]}
        /\ Answered(t)
        /\ UNCHANGED <<categories, merchants, patterns, feedback, suggestions, accepted>>

-----------------------------------------------------------------------------
(* Learning from corrections: learning_service.py                          *)

\* Without wildcards, and without the digits behind a stem of four letters; NULL
\* if fewer than four characters are left.
build_learned_pattern(raw) ==
    LET core == [raw EXCEPT !.wild = FALSE]
        varies == StemLength[raw.stem] >= MIN_TOKEN_LENGTH
    IN  IF Length(core) < MIN_TOKEN_LENGTH THEN NULL
        ELSE [core EXCEPT !.open = TRUE, !.tail = IF varies THEN NULL ELSE @]

\* The feedback is committed first.
record_feedback(t) ==
    LET r == session[t].request
    IN  /\ pc[t] = "correct"
        /\ feedback' = feedback \cup {[user |-> r.user, raw |-> r.raw, name |-> r.name]}
        /\ IF build_learned_pattern(r.raw) = NULL THEN Answered(t)
           ELSE GoTo(t, "create_merchant")
        /\ UNCHANGED <<categories, merchants, patterns, suggestions, filed, accepted>>

\* Mutant: the rule is made for everybody.
RuleForAll(user, merchant, text) ==
    [user |-> NULL, merchant |-> merchant, type |-> "LIKE", text |-> text]

\* Owned by the user who corrected, never global.
LearnedRule(user, merchant, text) ==
    [user |-> user, merchant |-> merchant, type |-> "LIKE", text |-> text]

\* create_pattern for the merchant found or created; a pattern that is too long
\* fails the request, feedback and merchant stay.
learned_pattern(t) ==
    LET s == session[t]
        text == build_learned_pattern(s.request.raw)
    IN  /\ pc[t] = "learned_pattern"
        /\ IF /\ Length(text) <= MAX_PATTERN_LENGTH
              /\ find_pattern(s.request.user, s.merchant, text) = {}
           THEN Hold(t, "pattern_insert", "seen",
                     LearnedRule(s.request.user, s.merchant, text))
           ELSE Answered(t)
        /\ UNCHANGED <<tables, accepted>>

-----------------------------------------------------------------------------
(* Suggestions: no route asks for one yet, users review those there are.    *)

\* x / y in whole percents, half to even.
Rounded(x, y) == LET q == x \div y
                     rest == 2 * (x % y)
                 IN  IF rest > y \/ (rest = y /\ q % 2 = 1) THEN q + 1 ELSE q

\* Mutant: percentages are not recognised, and what is too much is let through.
AsGiven(answer) == Rounded(answer, 2)

\* Above one it must be a percentage; what is not between zero and one then is
\* refused.
parse_confidence(answer) ==
    LET unit == IF answer > 200 THEN 200 ELSE 2
    IN  IF answer \in 0 .. 100 * unit THEN Rounded(answer, unit) ELSE NULL

\* parse_suggestion: NULL if the answer cannot be trusted.  A category must be
\* one of those that were offered, in any spelling.
parse_suggestion(r, answer) ==
    IF r.kind = "suggest_category" /\ Lower[answer.value] \notin {Lower[n] : n \in r.allowed}
    THEN NULL ELSE parse_confidence(answer.confidence)

\* Whatever the provider raises or answers, there is a suggestion or there is none.
suggest(t) ==
    LET r == session[t].request
    IN  /\ pc[t] \in {"suggest_merchant", "suggest_category"}
        /\ \/ UNCHANGED suggestions
           \/ \E answer \in Answers :
                 /\ Suggestions # SuggestionIds   \* bound: an identity is left
                 /\ r.kind = "suggest_category" => r.allowed # {}
                 /\ parse_suggestion(r, answer) # NULL
                 /\ suggestions' = [suggestions EXCEPT ![Fresh(SuggestionIds \ Suggestions)] =
                       [user |-> r.user, value |-> answer.value,
                        confidence |-> parse_suggestion(r, answer),
                        status |-> "PENDING", asked |-> "PENDING"]]
        /\ Answered(t)
        /\ UNCHANGED <<categories, merchants, patterns, feedback, filed, accepted>>

\* get_suggestion: whatever its status.
review_suggestion(t) ==
    LET r == session[t].request
    IN  /\ pc[t] = "review"
        /\ IF r.id \in Suggestions /\ suggestions[r.id].user = r.user
           THEN Hold(t, "mark_reviewed", "seen", suggestions[r.id]) ELSE Answered(t)
        /\ UNCHANGED <<tables, accepted>>

Outcome(r) == IF r.accepted THEN "ACCEPTED" ELSE "REJECTED"

\* Mutant: only a pending suggestion is decided, a later review says it was.
OncePending(row, seen, outcome) == IF row.status = "PENDING" THEN outcome ELSE row.status

\* The column is written if it differs from the copy.
Reviewed(row, seen, outcome) == IF outcome # seen.status THEN outcome ELSE row.status

mark_reviewed(t) ==
    LET r == session[t].request
        row == suggestions[r.id]
    IN  /\ pc[t] = "mark_reviewed"
        /\ suggestions' = [suggestions EXCEPT
              ![r.id].status = Reviewed(row, session[t].seen, Outcome(r)),
              ![r.id].asked = Outcome(r)]
        /\ Answered(t)
        /\ UNCHANGED <<categories, merchants, patterns, feedback, filed, accepted>>

-----------------------------------------------------------------------------
CatalogueStep(t) ==
    \/ begin(t)
    \/ create_category(t) \/ category_insert(t)
    \/ update_category(t) \/ category_name(t)
    \/ category_parent(t) \/ category_write(t)
    \/ get_or_create_merchant(t) \/ merchant_insert(t)
    \/ create_pattern(t) \/ pattern_insert(t)
    \/ record_feedback(t) \/ learned_pattern(t)
    \/ resolve(t)
    \/ suggest(t) \/ review_suggestion(t) \/ mark_reviewed(t)

CatalogueNext == \E t \in Threads : CatalogueStep(t)

CatalogueSpec == CatalogueInit /\ [][CatalogueNext]_catalogueVars

-----------------------------------------------------------------------------
(* Properties.                                                             *)

CatalogueSteps == {"idle", "create_category", "category_insert", "update_category",
    "category_name", "category_parent", "category_write", "create_merchant", "merchant_insert", "create_pattern",
    "pattern_insert", "correct", "learned_pattern", "message", "suggest_merchant",
    "suggest_category", "review", "mark_reviewed"}

Session == [request : Requests \cup {NULL},
            seen : Category \cup MerchantPattern \cup AISuggestion \cup {NULL},
            merchant : MerchantIds \cup {NULL}]

\* The tables hold rows of their models, and references point at rows; what a
\* model answers, on whatever scale, is stored as a confidence from 0 to 100
\* percent (validators/response.py).
CatalogueTypeOK ==
    /\ categories \in [CategoryIds -> Category \cup {NULL}]
    /\ merchants \in [MerchantIds -> Merchant \cup {NULL}]
    /\ patterns \in [PatternIds -> MerchantPattern \cup {NULL}]
    /\ \A p \in Patterns : patterns[p].merchant \in Merchants
    /\ feedback \subseteq UserFeedback
    /\ suggestions \in [SuggestionIds -> AISuggestion \cup {NULL}]
    /\ filed \subseteq Filing
    /\ accepted \in 0 .. MaxRequests
    /\ pc \in [Threads -> CatalogueSteps]
    /\ session \in [Threads -> Session]

Twins(user, name) == {c \in Categories : /\ categories[c].user = user
                                         /\ Lower[categories[c].name] = Lower[name]}

\* Names are looked up without regard to case, yet no index holds them apart so:
\* twins come only of requests that overlap, and never more of them than may
\* (get_or_create_merchant, create_category and update_category, check and write).
TwinsAreBounded ==
    \A n \in Names :
        /\ Cardinality(Named(n)) <= Cardinality(Threads)
        /\ \A u \in Users : Cardinality(Twins(u, n)) <= Cardinality(Threads)

\* Once the rule of a correction is there, the corrected string goes where one of
\* the user's own patterns says, whatever global patterns say ("a personal
\* correction is never overridden by a shared rule", merchants/models.py); a
\* string with a wildcard in it is the exception: its rule does not match it.
CorrectionPrevails ==
    \A f \in feedback, p \in Patterns :
        /\ ~f.raw.wild
        /\ patterns[p].user = f.user
        /\ patterns[p].type = "LIKE" /\ patterns[p].text = build_learned_pattern(f.raw)
        => \A q \in resolve_merchant(f.user, f.raw) : patterns[q].user = f.user

\* Whatever a user corrects or teaches, other users' messages are resolved as
\* before ("one person's preference must not reclassify everyone else's history",
\* learning_service.py).
NobodyElseRefiled ==
    [][\A u \in Users, raw \in MerchantRaw :
          resolve_merchant(u, raw)' # resolve_merchant(u, raw) =>
              \E t \in Threads : pc'[t] # pc[t] /\ session[t].request.user = u]_catalogueVars

\* Merchants are shared and may have anybody's category as their default, yet a
\* message is only filed under a category its owner can see; and a category hangs
\* below one its owner can see, so that the cycles re-parenting can make (it only
\* asks that a category is not its own parent) are made of one user's own, and
\* the system's categories are what they were.
CategoriesStayPrivate ==
    /\ \A f \in filed : f.category # NULL => Visible(f.category, f.user)
    /\ \A c \in Categories :
          /\ categories[c].user = NULL => categories[c] = SystemCategories[c]
          /\ ParentAllowed(categories[c].parent, categories[c].user)
          /\ categories[c].parent # c

\* The last review of a suggestion is the one that counts, also when it is not
\* the first, unless its suggestion was reviewed between its read and its write
\* (review_suggestion asks for no status).
OnlyOverlapLosesReview ==
    [][\A s \in Suggestions :
          suggestions'[s].status # suggestions'[s].asked /\
          suggestions[s].status = suggestions[s].asked =>
              \E t \in Threads : /\ pc[t] = "mark_reviewed"
                                 /\ session[t].request.id = s
                                 /\ session[t].seen.status # suggestions[s].status]_catalogueVars
=============================================================================
