SPECIFICATION FairSpec
CONSTANTS
    Batches = 3
    Starts <- FreshAndResumed
    MaxEntries = 3
    None = None
    Close = Close
INVARIANTS
    DeliveredInOrder
    PackingExclusive
    AnswersItsRequest
PROPERTIES
    TimeoutTerminal
    ClosedDaemonExits
CHECK_DEADLOCK FALSE
