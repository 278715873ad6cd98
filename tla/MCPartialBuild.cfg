\* Two products, of which one build may leave one out; files that may include each other, and
\* changes of tracked properties.
CONSTANTS
    s1 = s1 s2 = s2 sg = sg h = h o1 = o1 o2 = o2
    app = app rl = rl rc = rc rg = rg tg = tg t1 = t1
    t2 = t2 ta = ta P = P Q = Q pool = pool
    Sources = {s1, s2, sg}
    Generated = {h, o1, o2}
    Rules = {rc, rg}
    Transformers = {tg, t1, t2}
    Products = {P, Q}
    NoRule = NoRule
    NoTransformer = NoTransformer
    TransformerOf <- PairTransformer
    RuleOf <- PairRule
    Inputs <- PairInputs
    ProductOf <- PairProduct
    RuleChildren <- PairRuleChildren
    Jobs = {j1, j2}
    JobPools = {pool}
    PoolsOf <- PairPools
    JobLimit <- PairLimits
    Priority <- PairPriority
    RootRules = {rc, rg}
    Targets = {h, o1, o2}
    AlwaysUpdated = {h, o1, o2}
    AlwaysRun = {}
    Filtered = {}
    ArtifactDeps <- NoArtifactDeps
    ScanResults <- MayIncludeEachOther
    Rescued = {}
    RescuedChildren <- NoRescuedChildren
    KnownOutOfDate = {}
    CommandSensitive = {t2}
    PrepareSensitive = {rg}
    BuildOptions <- AllOrSome
    MayFail = {tg}
    MayThrow = {}
    MayEdit = {s1, s2}
    MaxBuilds = 3
    MaxEdits = 1
    MaxChanges = 2
    MaxCancels = 0
SPECIFICATION Spec
INVARIANTS PoolLimitsRespected FreshWhenDone
PROPERTIES ScansCloseNoCycle
