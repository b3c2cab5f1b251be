SPECIFICATION FairSpec
CONSTANTS
    c1 = c1
    c2 = c2
    c3 = c3
    k1 = k1
    NoKey = NoKey
    None = None
    Calls <- MCCalls
    KeyOf <- MCKeyOf
    Workers = {w1}
    QueueCap = 1
    MaxRestarts = 1
CHECK_DEADLOCK FALSE
PROPERTIES
    EventuallyAcked
    FailureIsExplained
