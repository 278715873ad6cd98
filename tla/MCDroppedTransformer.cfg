\* A second output that is not part of the product, and a new include.
CONSTANTS
    s1 = s1 s2 = s2 sg = sg h = h o1 = o1 o2 = o2
    app = app rl = rl rc = rc rg = rg tg = tg t1 = t1
    t2 = t2 ta = ta P = P Q = Q pool = pool
    Sources = {s1, sg}
    Generated = {h, o1, o2}
    Rules = {rc, rg}
    Transformers = {tg, t1}
    Products = {P}
    NoRule = NoRule
    NoTransformer = NoTransformer
    TransformerOf <- ListingTransformer
    RuleOf <- ListingRule
    Inputs <- ListingInputs
    ProductOf <- ProgramProduct
    RuleChildren <- ListingRuleChildren
    Jobs = {j1, j2}
    JobPools = {pool}
    PoolsOf <- NoPools
    JobLimit <- OneJobInPool
    Priority <- SamePriority
    RootRules = {rc, rg}
    Targets = {h, o1}
    AlwaysUpdated = {h, o1, o2}
    AlwaysRun = {}
    Filtered = {}
    ArtifactDeps <- NoArtifactDeps
    ScanResults <- MayIncludeHeader
    Rescued = {}
    RescuedChildren <- NoRescuedChildren
    KnownOutOfDate = {}
    CommandSensitive = {}
    PrepareSensitive = {}
    BuildOptions <- Plain
    MayFail = {}
    MayThrow = {}
    MayEdit = {s1, sg}
    MaxBuilds = 2
    MaxEdits = 2
    MaxChanges = 0
    MaxCancels = 0
SPECIFICATION Spec
INVARIANTS UnbuiltForAReason
