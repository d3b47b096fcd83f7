------------------------------ MODULE MCSinks -------------------------------
(***************************************************************************)
(* The sinks, one of them in each behaviour: `kind` says which, the state  *)
(* of the others does not change.                                          *)
(***************************************************************************)
EXTENDS IcebergCommit, TLC

CONSTANTS
    Kinds,          \* the sinks considered
    S3Setups,
    Logs,
    Executions,
    Failures        \* bound on the faults of a sink session

VARIABLES
    kind,
    committed, base, handed, input, session, faults,
    setup, inputClosed, todo, actor, inflight, barrier, bucket, journal,
    log, runs, expected, pending, serial, buffers, active, late, appended, current,
    received,
    process, cancelled, failing, baseline, captured, output, queue, task

sessionVars == <<committed, base, handed, input, session>>
s3Vars == <<todo, actor, inflight, barrier, bucket, journal>>
chVars == <<log, runs, expected, pending, serial, buffers, active, late, appended, current>>
runVars == <<process, cancelled, failing, baseline, captured, output, queue, task>>
vars == <<kind, faults, setup, inputClosed, sessionVars, s3Vars, chVars, commitVars, received, runVars>>

-----------------------------------------------------------------------------
(* Four messages for S3: on one path, where the second is without rows,    *)
(* and on two paths with an entry for the dead letter queue.               *)

S3Setup(routes, rotate, interval, wallClock, fails) ==
    [routes |-> routes, rotate |-> rotate, interval |-> interval, wallClock |-> wallClock,
     fails |-> fails]
OnePath == <<{"p"}, {}, {"p"}, {"p"}>>
TwoPaths == <<{"p"}, {"q"}, {"p"}, {"p", "dlq"}>>

MCS3Setups ==
    {S3Setup(OnePath, TRUE, 0, w, f) : w \in BOOLEAN, f \in BOOLEAN}
      \cup {S3Setup(OnePath, TRUE, 1, FALSE, FALSE), S3Setup(TwoPaths, TRUE, 0, FALSE, FALSE),
            S3Setup(TwoPaths, FALSE, 1, FALSE, FALSE), S3Setup(TwoPaths, FALSE, 0, FALSE, FALSE)}
MCS3Failing == {S3Setup(TwoPaths, FALSE, 0, FALSE, TRUE)}

S3 == INSTANCE S3Sink WITH
    NumMessages <- 4, MaxBatch <- 2, MaxFaults <- Failures,
    Setups <- S3Setups, MainRoutes <- {"p", "q"}, Times <- <<0, 0, 1, 1>>,
    MaxRows <- 2, MaxEpochRows <- 3, MaxEpochBuffers <- 2,
    MaxBuffered <- 3, MaxPending <- 2, MaxInFlight <- 2

-----------------------------------------------------------------------------
(* Three transactions for ClickHouse, on the keys k and l, with the        *)
(* columns a and b, and on the append-only tables t and x.                 *)

All == {"a", "b"}
Event(op, old, key, cols, value) ==
    [op |-> op, old |-> old, key |-> key, cols |-> cols, value |-> value]
Create(k, v) == Event("c", k, k, All, v)
Update(k, cols, v) == Event("u", k, k, cols, v)
Delete(k) == Event("d", k, k, {}, 0)
Changes(events) == [tables |-> {}, events |-> events]
Appends(tabs) == [tables |-> tabs, events |-> <<>>]

MCLogs ==
    {<<Changes(<<Create("k", 1), Event("u", "k", "l", All, 2), Update("l", {"a"}, 3)>>),
       Changes(<<Update("l", {"b"}, 4), Create("k", 5)>>),
       Changes(<<Delete("k"), Update("l", {"a"}, 6)>>)>>,
     <<Changes(<<Event("r", "k", "k", All, 1)>>),
       Appends({"t"}),
       Changes(<<Update("k", {"a"}, 3), Create("l", 4), Update("k", {"b"}, 5)>>)>>,
     <<Appends({"t"}), Appends({"t", "x"}), Appends({})>>}
\* A row is updated in part and deleted.
MCPartialThenDelete ==
    {<<Changes(<<Create("k", 1)>>), Changes(<<Update("k", {"a"}, 2)>>), Changes(<<Delete("k")>>)>>}

Ch == INSTANCE ClickHouseSink WITH
    NumMessages <- 3, MaxBatch <- 1, MaxFaults <- Failures,
    Table <- {"t", "x"}, Key <- {"k", "l"}, Column <- All,
    TargetRows <- 2, Concurrency <- 2, MaxAttempts <- 2

-----------------------------------------------------------------------------
(* Iceberg: a replica of the tables a and b, and finite deliveries of at   *)
(* most four rows by the partitions p and q.                               *)

MCIdentity == Writers \X ({<<i>> : i \in 1..5} \cup {<<i, j>> : i \in 1..4, j \in 2..5})
MCPayload == SUBSET (1..4)

Re == INSTANCE IcebergReplica WITH
    NumMessages <- 3, MaxBatch <- 1, MaxFaults <- Failures,
    Replica <- "p", ChangedTables <- <<<<"a", "b">>, <<>>, <<"a">>>>

Replaying(p, q, workers, bound) ==
    [kind |-> "replaying", plan |-> ("p" :> p @@ "q" :> q), workers |-> workers, faults |-> bound]
ClaimedBy(bound) ==
    [kind |-> "claiming", plan |-> <<{1, 2}, {3}>>, workers |-> 1, faults |-> bound]
MCExecutions ==
    {Replaying(<<{1}, {2}, {3}>>, <<>>, 1, 2), Replaying(<<{1}, {2}, {3}>>, <<{4}>>, 2, 1), ClaimedBy(0)}
MCClaimed == {ClaimedBy(1)}

Ex == INSTANCE SnapshotExecution WITH Setups <- Executions, Preexisting <- 1, Target <- 2

-----------------------------------------------------------------------------

NoSession ==
    committed = 0 /\ base = 0 /\ handed = <<>> /\ input = "none" /\ session = "none"
NoS3 == todo = {} /\ actor = 0 /\ inflight = {} /\ barrier = {} /\ bucket = <<>> /\ journal = <<>>
NoClickHouse ==
    /\ log = <<>> /\ runs = <<>> /\ expected = <<>> /\ pending = 0 /\ serial = FALSE
    /\ buffers = <<>> /\ active = {} /\ late = {} /\ appended = {} /\ current = <<>>
NoExecution ==
    /\ process = "none" /\ cancelled = FALSE /\ failing = FALSE /\ baseline = 0
    /\ captured = 0 /\ output = 0 /\ queue = <<>> /\ task = <<>>

Init ==
    /\ kind \in Kinds
    /\ IF kind = "s3" THEN S3!S3Init ELSE NoS3
    /\ IF kind = "clickhouse" THEN Ch!ChInit ELSE NoClickHouse
    /\ IF kind = "replica" THEN Re!ReplicaInit ELSE received = FALSE
    /\ IF kind = "execution" THEN Ex!ExecutionInit ELSE NoExecution
    /\ kind \notin {"replica", "execution"} => CommitInit
    /\ kind \notin {"s3", "execution"} => setup = 0
    /\ kind \notin {"s3", "clickhouse"} => inputClosed = FALSE
    /\ kind = "execution" => NoSession

S3Rest == UNCHANGED <<kind, chVars, commitVars, received, runVars>>
ChRest == UNCHANGED <<kind, setup, s3Vars, commitVars, received, runVars>>
ReRest == UNCHANGED <<kind, setup, inputClosed, s3Vars, chVars, runVars>>
ExRest == UNCHANGED <<kind, inputClosed, sessionVars, s3Vars, chVars, received>>

Next ==
    \/ kind = "s3" /\ S3!S3Next /\ S3Rest
    \/ kind = "clickhouse" /\ Ch!ChNext /\ ChRest
    \/ kind = "replica" /\ Re!ReplicaNext /\ ReRest
    \/ kind = "execution" /\ Ex!ExecutionNext /\ ExRest

\* The loops of the actors, tasks and runners go on.
Works ==
    \/ kind = "s3" /\ S3!Loop /\ S3Rest
    \/ kind = "clickhouse" /\ Ch!Loop /\ ChRest
    \/ kind = "replica" /\ Re!Loop /\ ReRest
    \/ kind = "execution" /\ Ex!Progress /\ ExRest

Spec == Init /\ [][Next]_vars /\ WF_vars(Works)

-----------------------------------------------------------------------------

TypeOK ==
    /\ kind = "s3" => S3!S3TypeOK
    /\ kind = "clickhouse" => Ch!ChTypeOK
    /\ kind = "replica" => Re!ReplicaTypeOK
    /\ kind = "execution" => Ex!ExecutionTypeOK
    /\ kind \in {"replica", "execution"} => CommitTypeOK /\ RequestsFresh

\* S3: every row of a committed message is in an object (finalize_epoch).
CommittedIsStored == kind = "s3" => S3!CommittedIsStored

\* ClickHouse: rows of committed messages are there, and no key falls behind
\* the committed transaction (accept, restore_clickhouse_update).
ChangesAreCurrent == kind = "clickhouse" => Ch!ChangesAreCurrent

\* Iceberg: a replica has each transaction once, in order (apply_replica_delta).
ReplicaExact == kind = "replica" => Re!ReplicaExact

\* A finite delivery is verified against the count from before it
\* (load_or_capture_snapshot_baseline).
BaselineHeld == kind = "execution" => Ex!BaselineHeld

\* A completed delivery has every row in the table (run_partition_task, wait).
CompletedHasAll == kind = "execution" => Ex!CompletedHasAll

\* Every sink gets everything committed, and every delivery its verdict,
\* unless the journal of the S3 sink refuses a replay: where limits depend on
\* the messages alone, it does not (run_actor, decode_and_validate, run_session).
SinksSettle ==
    <>(/\ kind = "s3" => S3!CommittedOrRefused
       /\ kind = "clickhouse" => Ch!AllCommitted
       /\ kind = "replica" => Re!AllCommitted
       /\ kind = "execution" => Ex!HasVerdict)
=============================================================================
