\* Three expressions that two processes satisfy in turns.
SPECIFICATION Spec
CONSTANTS
    None = None
    Event <- Interleaved
    N = 3
    Thread = {t1}
    Bound <- NoAlias
    By = TRUE
    Unordered = FALSE
    MaxSpan = FALSE
    MaxPartials = 3
    GcEnabled = FALSE
INVARIANTS JoinedMatches
