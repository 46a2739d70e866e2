\* Three file operations that share all addresses, two writes of registry
\* values, two processes that may have the same pid, two processes and modules
\* in the symbolizer's caches, conditions of up to seven tokens, all pairs of
\* scaled numbers, texts of three and patterns of four and more characters, lists of two
\* strings, three filters on three events, two processes with one pid in the YARA scanner, captures of two
\* events, the JSON of events under all flags, and two goroutines in the rule
\* engine.
SPECIFICATION PrSpec
CONSTANTS
    FsOps = 3
    FsIrp = {i1}
    FsObject = {o1, o2}
    FsThread = {t1}
    FsLosses = 2
    FsOthers = 1
    RgWrites = 2
    RgPid = {p1, p2}
    RgKey = {k1, k2}
    RgName = {"run", "autorun"}
    RgEnds <- MCEnds
    RgKcb = {a1}
    RgLosses = 2
    PsMax = 2
    PsPid = {1, 2}
    PsProtected = {1}
    PsEnumerate = TRUE
    PsLosses = 1
    PsLookups = 1
    PsScan = {1}
    SyPid = {p1, p2}
    SyAddr = {"base", "inside"}
    SyBase = "base"
    SyStarts = 2
    SyLoads = 2
    SyStacks = 2
    SyLosses = 1
    FlMax = 7
    FlTokens = {"f", "s", "d", "g", "m", "l", "eq", "in", "has", "and", "or", "not", "(", ")", ","}
    WcChar = {"a", "A", "b", "*", "e", "w"}
    WcWidth <- MCWidth
    WcTexts <- MCWcTexts
    WcPatterns <- MCWcPatterns
    FoRange <- MCRange
    FoFloats <- MCFloats
    FoRounded <- MCRounded
    FoText <- ShortTexts
    FoPattern <- ShortPatterns
    FoItems <- ShortLists
    VpThread = {t1, t2}
    VpMaps = 2
    VpEvent <- MCVpEvents
    VpFilter <- MCVpFilters
    YsPid = {p1}
    YsProcs = 2
    YsEvents = 4
    YsLosses = 1
    CfEvents <- MCEvents
    CfHandles <- MCHandles
    JsParams <- MCJsParams
    JsCounts = {0, 2}
    None = None
    Thread = {t1, t2}
    Event = {1, 2, 3, 4}
    Filters <- MCFilters
    Matching <- MCMatching
    Rule = {"r1", "r2", "r3"}
    WithAction = {"r2"}
    MatchAll = TRUE
INVARIANTS
    FsAttributed
    RgAttributed
    PsConsistent
    SyAttributed
    FlParsed
    FlEvaluated
    FoOperators
    VpOwnValues
    YsMatches
    CfReplayed
    JsWellFormed
    ActedBound
    LostOnlyIfExposed
CHECK_DEADLOCK FALSE
