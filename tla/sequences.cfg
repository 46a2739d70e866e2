\* An unordered sequence of three expressions, whose events arrive in any order
\* in one thread or in two, and an ordered one of two with span timers, for one
\* thread; the scavenger runs and processes terminate.
SPECIFICATION MsSpec
CONSTANTS
    None = None
    Event <- OutOfOrder
    N = 3
    Thread = {t1, t2}
    Bound <- NoAlias
    By = TRUE
    Unordered = TRUE
    MaxSpan = FALSE
    MaxPartials = 3
    GcEnabled = TRUE
INVARIANTS NotBlocked Genuine TerminalYields Restartable
    OrderedSpanArmed OrderedStatesPrefix OrderedCoherent
PROPERTIES OrderedSpanBounded
CONSTRAINT SharedFew
