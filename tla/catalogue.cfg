\* Two requests at a time of two users.
SPECIFICATION CatalogueSpec
CONSTANTS
    Threads = {t1, t2}
    ann = ann
    ben = ben
    c1 = c1
    c2 = c2
    c3 = c3
    c4 = c4
    m1 = m1
    m2 = m2
    m3 = m3
    p1 = p1
    p2 = p2
    p3 = p3
    s1 = s1
    Users = {ann, ben}
    NULL = NULL
    Names <- Spellings
    Lower <- LowerCase
    Stems = {"swiggy", "ab", "long"}
    StemLength <- Lengths
    Tails = {"12", "34"}
    TailLength = 2
    CategoryIds = {c1, c2, c3, c4}
    MerchantIds = {m1, m2, m3}
    PatternIds = {p1, p2, p3}
    SuggestionIds = {s1}
    SystemCategories <- OneSystemCategory
    GlobalPatterns <- OneGlobalRule
    KnownMerchants <- OneMerchant
    Answers <- ModelAnswers
    Requests <- AllRequests
    MaxRequests = 4
SYMMETRY Symmetry
INVARIANTS
    CatalogueTypeOK
    TwinsAreBounded
    CorrectionPrevails
    CategoriesStayPrivate
PROPERTIES
    NobodyElseRefiled
    OnlyOverlapLosesReview
\* The bound on requests ends the run.
CHECK_DEADLOCK FALSE
