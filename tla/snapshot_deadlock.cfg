\* One process that has ended before its CreateProcess event is handled.
SPECIFICATION PsFairSpec
CONSTANTS
    PsMax = 1
    PsPid = {1}
    PsProtected = {}
    PsEnumerate = TRUE
    PsLosses = 0
    PsLookups = 1
    PsScan = {1}
PROPERTY PsScanEnds
CHECK_DEADLOCK FALSE
