SPECIFICATION MCSpec
CONSTANTS
    r1 = r1
    r2 = r2
    q1 = q1
    q2 = q2
    n2 = n2
    public = public
    private = private
    Names = {n1, n2, bad}
    BadNames = {bad}
    Addrs = {public, private}
    Global = {public}
    Answers <- MCAnswers
    Resolvers = {r1, r2}
    Queries = {q1, q2}
    ResolverOf <- MCResolverOf
    Lookups = {t1, t2, t3}
    Ttl = 1
    CacheMax = 1
    None = None
INVARIANTS
    OneLookup
    OnlyGlobal
    LookedUpIsNotCached
    ChecksumsVerify
    OptionsReadBack
    PayloadsReadBack
    NamesReadBack
PROPERTIES
    LearnsFresh
    AskedIsAnswered
