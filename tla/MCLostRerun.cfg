\* A variable read by a command changes, and the command fails once.
CONSTANTS
    s1 = s1 s2 = s2 sg = sg h = h o1 = o1 o2 = o2
    app = app rl = rl rc = rc rg = rg tg = tg t1 = t1
    t2 = t2 ta = ta P = P Q = Q pool = pool
    Sources = {s1, s2, sg}
    Generated = {h, o1, o2, app}
    Rules = {rl, rc, rg}
    Transformers = {tg, t1, t2, ta}
    Products = {P}
    NoRule = NoRule
    NoTransformer = NoTransformer
    TransformerOf <- ProgramTransformer
    RuleOf <- ProgramRule
    Inputs <- ProgramInputs
    ProductOf <- ProgramProduct
    RuleChildren <- ProgramRuleChildren
    Jobs = {j1, j2}
    JobPools = {pool}
    PoolsOf <- ProgramPools
    JobLimit <- OneJobInPool
    Priority <- SamePriority
    RootRules = {rl}
    Targets = {app}
    AlwaysUpdated = {h, o1, o2, app}
    AlwaysRun = {}
    Filtered = {}
    ArtifactDeps <- NoArtifactDeps
    ScanResults <- MayIncludeHeader
    Rescued = {}
    RescuedChildren <- NoRescuedChildren
    KnownOutOfDate = {}
    CommandSensitive = {t1}
    PrepareSensitive = {}
    BuildOptions <- Plain
    MayFail = {t1}
    MayThrow = {}
    MayEdit = {}
    MaxBuilds = 3
    MaxEdits = 0
    MaxChanges = 1
    MaxCancels = 0
SPECIFICATION Spec
INVARIANTS FreshWhenDone
