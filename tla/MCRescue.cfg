\* A command with two outputs, one of them not always updated, whose data is rescued from an
\* earlier build graph; rules that throw, and rules only.
CONSTANTS
    s1 = s1 s2 = s2 sg = sg h = h o1 = o1 o2 = o2
    app = app rl = rl rc = rc rg = rg tg = tg t1 = t1
    t2 = t2 ta = ta P = P Q = Q pool = pool
    Sources = {s1, sg}
    Generated = {h, o1, o2, app}
    Rules = {rl, rc, rg}
    Transformers = {tg, t1, ta}
    Products = {P}
    NoRule = NoRule
    NoTransformer = NoTransformer
    TransformerOf <- ParserTransformer
    RuleOf <- ParserRule
    Inputs <- ParserInputs
    ProductOf <- ProgramProduct
    RuleChildren <- UnorderedRuleChildren
    Jobs = {j1, j2}
    JobPools = {pool}
    PoolsOf <- ProgramPools
    JobLimit <- OneJobInPool
    Priority <- SamePriority
    RootRules = {rl}
    Targets = {app}
    AlwaysUpdated = {h, o1, app}
    AlwaysRun = {}
    Filtered = {ta}
    ArtifactDeps <- NoArtifactDeps
    ScanResults <- IncludesHeader
    Rescued = {h, o1, o2}
    RescuedChildren <- HeaderWasIncluded
    KnownOutOfDate = {o2}
    CommandSensitive = {}
    PrepareSensitive = {}
    BuildOptions <- RulesOnlyToo
    MayFail = {t1}
    MayThrow = {rc}
    MayEdit = {s1, sg}
    MaxBuilds = 2
    MaxEdits = 1
    MaxChanges = 0
    MaxCancels = 1
SPECIFICATION Spec
INVARIANTS DependenciesBuiltFirst FreshWhenDone OneJobPerTransformer SiblingsTogether
PROPERTIES StatesOnlyAdvance
