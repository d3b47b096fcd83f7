CONSTANTS
    Kinds = {"s3", "clickhouse", "replica", "execution"}
    S3Setups <- MCS3Setups
    Logs <- MCLogs
    Executions <- MCExecutions
    Failures = 2
    Writers = {"p", "q"}
    Datasets = {"a", "b"}
    Identity <- MCIdentity
    Payload <- MCPayload
SPECIFICATION Spec
INVARIANTS
    TypeOK
    CommittedIsStored
    ChangesAreCurrent
    ReplicaExact
    OncePerIdentity
    MarkedIsCommitted
    BaselineHeld
    CompletedHasAll

    
CHECK_DEADLOCK FALSE
