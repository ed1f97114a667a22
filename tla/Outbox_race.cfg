\* One event, two overlapping dispatches, two consumers, two messages, one
\* fault: too few for the dead-letter queue to drop a message.
\* Once the event has its outcome and the queues are empty, nothing is left to
\* do.
SPECIFICATION FairSpec
CONSTANTS
    Events = {e1}
    Dispatchers = {d1, d2}
    Consumers = {w1, w2}
    Copies = {m1, m2}
    MaxAttempts = 2
    MaxRetries = 1
    MaxDlqRetries = 1
    MaxFaults = 1
    Nothing = Nothing
INVARIANTS
    TypeOK
    QueuedIsCarried
PROPERTIES
    AckIsDurable
    ImplementsDelivery
    EventuallySettled
CHECK_DEADLOCK FALSE
