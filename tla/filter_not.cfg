\* Conditions of boolean fields and logical operators, up to six tokens.
SPECIFICATION FlSpec
CONSTANTS
    FlMax = 6
    FlTokens = {"f", "and", "or", "not", "(", ")"}
INVARIANTS FlNotAdjacent
CHECK_DEADLOCK FALSE
