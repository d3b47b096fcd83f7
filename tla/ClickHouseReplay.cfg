CONSTANTS
    Kinds = {"clickhouse"}
    S3Setups <- MCS3Setups
    Logs <- MCPartialThenDelete
    Executions <- MCExecutions
    Failures = 2
    Writers = {"p", "q"}
    Datasets = {"a", "b"}
    Identity <- MCIdentity
    Payload <- MCPayload
SPECIFICATION Spec
PROPERTY
    SinksSettle
CHECK_DEADLOCK FALSE
