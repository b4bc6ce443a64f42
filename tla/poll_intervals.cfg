SPECIFICATION Spec
CONSTANTS
    MaxCallAttempts = 3
    BackoffBase = 1
    CallTimeout = 60
    Consumers <- WorkerAndRetrier
    MaxPollInterval <- Shipped
    MaxPollRecords = 4
    ConnectTries = 30
    ConnectDelay = 2
    TryTime = 0
    StatementTime = 5
    MaxBlock = 60
    PublishTimeout = 30
    CommitTime = 5
    RetryBase = 30
    RetryMax = 60
    MaxRetryPasses = 3
INVARIANTS
    FirstRecordCommits
CHECK_DEADLOCK FALSE
