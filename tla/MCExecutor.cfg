\* A program built twice: edits, failing commands and scripts, cancelling; every build ends.
CONSTANTS
    s1 = s1 s2 = s2 sg = sg h = h o1 = o1 o2 = o2
    app = app rl = rl rc = rc rg = rg tg = tg t1 = t1
    t2 = t2 ta = ta P = P Q = Q pool = pool
    Sources = {s1, s2, sg}
    Generated = {h, o1, o2, app}
    Rules = {rl, rc, rg}
    Transformers = {tg, t1, t2, ta}
    Products = {P}
    NoRule = NoRule
    NoTransformer = NoTransformer
    TransformerOf <- ProgramTransformer
    RuleOf <- ProgramRule
    Inputs <- ProgramInputs
    ProductOf <- ProgramProduct
    RuleChildren <- UnorderedRuleChildren
    Jobs = {j1, j2}
    JobPools = {pool}
    PoolsOf <- ProgramPools
    JobLimit <- OneJobInPool
    Priority <- SamePriority
    RootRules = {rl}
    Targets = {app}
    AlwaysUpdated = {h, o1, o2, app}
    AlwaysRun = {t2}
    Filtered = {}
    ArtifactDeps <- NoArtifactDeps
    ScanResults <- IncludesHeader
    Rescued = {}
    RescuedChildren <- NoRescuedChildren
    KnownOutOfDate = {}
    CommandSensitive = {}
    PrepareSensitive = {}
    BuildOptions <- CheckedOrKeepGoing
    MayFail = {t1}
    MayThrow = {rc}
    MayEdit = {sg}
    MaxBuilds = 2
    MaxEdits = 1
    MaxChanges = 0
    MaxCancels = 1
SPECIFICATION FairSpec
INVARIANTS JobAccounting NoJobOutlivesItsBuild ReadyNodesAreQueued PendingTransformersCounted SuccessMeansBuilt QueuedAreTouched
PROPERTIES EveryBuildEnds JobsUsedByContract
