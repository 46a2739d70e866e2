\* Two consumers, one I/O request packet, one session.
SPECIFICATION SqSpec
CONSTANTS
    SqConsumer = {c1, c2}
    SqIrp = {i1}
    SqMax = 2
    SqSessions = 1
INVARIANTS SqIdentifies
CHECK_DEADLOCK FALSE
