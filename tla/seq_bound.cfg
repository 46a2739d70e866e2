\* One thread and an ordered sequence whose second expression has a bound field.
SPECIFICATION Spec
CONSTANTS
    None = None
    Event <- Aliased
    N = 2
    Thread = {t1}
    By = FALSE
    Bound <- FirstAlias
    Unordered = FALSE
    MaxSpan = FALSE
    MaxPartials = 3
    GcEnabled = FALSE
INVARIANTS
    BoundMatches
