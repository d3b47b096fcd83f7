CONSTANTS
    Kinds = {"s3"}
    S3Setups <- MCS3Failing
    Logs <- MCLogs
    Executions <- MCExecutions
    Failures = 3
    Writers = {"p", "q"}
    Datasets = {"a", "b"}
    Identity <- MCIdentity
    Payload <- MCPayload
SPECIFICATION Spec
INVARIANT
    CommittedIsStored
CHECK_DEADLOCK FALSE
