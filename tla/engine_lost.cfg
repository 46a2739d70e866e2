\* Two goroutines append and clear matches at the same time.
SPECIFICATION Spec
CONSTANTS
    None = None
    Thread = {t1, t2}
    Event = {1, 2, 3, 4}
    Filters <- MCFilters
    Matching <- MCMatching
    Rule = {"r1", "r2", "r3"}
    WithAction = {"r2"}
    MatchAll = FALSE
INVARIANTS
    EveryMatchAlerted
