SPECIFICATION RecoveryFairSpec
CONSTANTS
    EventQueueDepth = 2
    PollPeriod <- MCPollPeriod
    RetryTimeout <- MCRetryTimeout
    MaxChanges = 3
    DriverFaults = TRUE
INVARIANTS
    RecoveryTypeOK
    NoRequestOnTopOfAnother
    AskedInTime
PROPERTY
    BusOffEnds
