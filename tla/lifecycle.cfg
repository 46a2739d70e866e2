\* The queue: a thread that terminates, and a brokered process creation in its
\* bucket or an event that needs no callstack.  Two consumers and two sessions
\* of the program; two traces that share two processors; two outputs, two events,
\* a channel of one and a backoff at its maximum; three queries of handle
\* names.
SPECIFICATION LcSpec
CONSTANTS
    None = None
    WordSize = 8
    QueueCap = 1
    StackEnrichment = TRUE
    EnqueueAlways = FALSE
    Verdicts = {"error", "enqueue", "skip"}
    Event <- QueueEvents
    Ageable <- QueueAgeable
    SqConsumer = {c1, c2}
    SqIrp = {i1}
    SqMax = 1
    SqSessions = 2
    EsTraces <- TwoTraces
    EsProcessor <- TwoProcessors
    MaxEvents = 2
    Capacity = 1
    Workers = 2
    InitialBackoff = 2
    MaxBackoff = 2
    HtCalls = 3
    HtCallsFail = TRUE
INVARIANTS
    TypeOK
    Accounted
    HandledOnce
    LostOnlyWith
    StackFromBucket
    SqAhead
    EsNoSessionLeft
    DuplicatedOnlyByStop
    AgAccounted
    HtAnswer
PROPERTIES
    Flushed
    MuxReleased
    Delivers
    SqStoredForward
    SqCatchesUp
    EsCloseReturns
    StopReturns
    Drained
    HtReturns
CHECK_DEADLOCK FALSE
