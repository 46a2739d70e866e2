\* The span timer races the last match.
SPECIFICATION Spec
CONSTANTS
    None = None
    Event <- OneThread
    N = 2
    Thread = {t1}
    Bound <- NoAlias
    By = TRUE
    Unordered = FALSE
    MaxSpan = TRUE
    MaxPartials = 3
    GcEnabled = FALSE
INVARIANTS TerminalYields
