\* The flusher pushes an expired TerminateThread event.
SPECIFICATION FairSpec
CONSTANTS
    None = None
    WordSize = 8
    QueueCap = 1
    StackEnrichment = TRUE
    EnqueueAlways = FALSE
    Verdicts = {"error", "enqueue", "skip"}
    Event <- TerminateEvents
    Ageable <- TerminateEvents
PROPERTIES
    Flushed
CHECK_DEADLOCK FALSE
