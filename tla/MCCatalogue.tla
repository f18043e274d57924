---------------------------- MODULE MCCatalogue ----------------------------
(* Instances of Catalogue for TLC.                                         *)
EXTENDS Catalogue, TLC

CONSTANTS ann, ben, c1, c2, c3, c4, m1, m2, m3, p1, p2, p3, s1

\* Three spellings of one name, and another name.
Spellings == {"food", "Food", "FOOD", "Taxi"}
LowerCase == [n \in Spellings |-> IF n = "Taxi" THEN n ELSE "food"]

Text4(stem, tail, wild, open) ==
    [stem |-> stem, tail |-> tail, wild |-> wild, open |-> open]

\* "ab" is too short for a rule without its digits, "long" too long for one.
Lengths == [stem \in Stems |-> CASE stem = "swiggy" -> 6 [] stem = "ab" -> 2
                                  [] stem = "long" -> 254]

OneSystemCategory == [c \in CategoryIds |->
    IF c = c1 THEN [user |-> NULL, name |-> "Food", parent |-> NULL] ELSE NULL]

OneMerchant == [m \in MerchantIds |->
    IF m = m1 THEN [name |-> "Taxi", category |-> c1] ELSE NULL]

\* A shared rule that is as specific as a rule can be.
OneGlobalRule == [p \in PatternIds |->
    IF p = p1 THEN [user |-> NULL, merchant |-> m1, type |-> "EXACT",
                    text |-> Text4("swiggy", "12", FALSE, FALSE)]
    ELSE NULL]

Sms(u, stem, tail, wild) ==
    [kind |-> "message", user |-> u, raw |-> Text4(stem, tail, wild, FALSE)]
Correct(u, stem, tail, wild, name) ==
    [kind |-> "correct", user |-> u, raw |-> Text4(stem, tail, wild, FALSE), name |-> name]

FilingRequests ==
    {[kind |-> "create_merchant", user |-> ben, name |-> "FOOD", category |-> c2],
     Correct(ann, "swiggy", "12", FALSE, "Food"),
     Correct(ann, "ab", "12", FALSE, "Food"),
     Correct(ann, "ab", NULL, FALSE, "Food"),
     Correct(ann, "swiggy", NULL, TRUE, "Taxi"),
     Correct(ann, "long", NULL, FALSE, "Taxi"),
     [kind |-> "create_pattern", user |-> ann, merchant |-> m1, type |-> "REGEX",
      text |-> Text4("swiggy", NULL, FALSE, FALSE)],
     [kind |-> "create_pattern", user |-> ben, merchant |-> m2, type |-> "AI_SUGGESTED",
      text |-> Text4("swiggy", NULL, FALSE, TRUE)],
     Sms(ann, "swiggy", "12", FALSE), Sms(ben, "swiggy", "34", FALSE)}

CategoryRequests ==
    {[kind |-> "create_category", user |-> ben, name |-> "Food", parent |-> c1],
     [kind |-> "create_category", user |-> ben, name |-> "FOOD", parent |-> NULL],
     [kind |-> "create_category", user |-> ben, name |-> "food", parent |-> NULL],
     [kind |-> "update_category", user |-> ben, id |-> c2, name |-> "FOOD", parent |-> NULL],
     [kind |-> "update_category", user |-> ben, id |-> c2, name |-> "Taxi", parent |-> c3],
     [kind |-> "update_category", user |-> ben, id |-> c3, name |-> NULL, parent |-> c2],
     [kind |-> "update_category", user |-> ben, id |-> c1, name |-> NULL, parent |-> c2]}

ReviewRequests ==
    {[kind |-> "suggest_merchant", user |-> ann],
     [kind |-> "suggest_category", user |-> ann, allowed |-> {"Food"}],
     [kind |-> "review", user |-> ann, id |-> s1, accepted |-> TRUE],
     [kind |-> "review", user |-> ann, id |-> s1, accepted |-> FALSE]}

AllRequests == FilingRequests \cup CategoryRequests \cup ReviewRequests

\* 89.5 percent on either scale, one (a percentage or certainty?), too much, less
\* than nothing; a name that may not be offered.
ModelAnswers ==
    [value : {"FOOD"}, confidence : {179, 200, 17900, 30000, -1}]
    \cup {[value |-> "Taxi", confidence |-> 200]}

\* Handlers are interchangeable.
Symmetry == Permutations(Threads)
=============================================================================
