\* A module is unmapped with two symbols of it in the cache.
SPECIFICATION SySpec
CONSTANTS
    SyPid = {p1}
    SyAddr = {"base", "inside"}
    SyBase = "base"
    SyStarts = 1
    SyLoads = 1
    SyStacks = 2
    SyLosses = 0
PROPERTIES
    SyPruned
CHECK_DEADLOCK FALSE
