----------------------------- MODULE MCSources ------------------------------
(***************************************************************************)
(* The sources of three databases and of a message queue, the fence of one *)
(* of them and the queue of a parallel snapshot, one of them in each       *)
(* behaviour, and the algorithms they rest on, for each of the inputs that *)
(* the initial states enumerate.                                           *)
(***************************************************************************)
EXTENDS Replication, YdbFence

CONSTANTS
    Kinds,       \* the sources considered
    w1, w2       \* workers

VARIABLES
    kind,
    input,                                         \* of an algorithm
    slot, lock, requests, proc, drops,             \* PostgreSQL
    purged, owner, readLocked, worker,             \* MySQL
    server, client, source,                        \* Logbroker PQv1, YDB
    plan, queue, reader, emitted, copies, failures, outcome

pgOwn == <<slot, lock, requests, proc, drops>>
myOwn == <<purged, owner, readLocked, worker>>
pqOwn == <<server, client, source>>
queueVars == <<plan, queue, reader, emitted, copies, failures, outcome>>
vars == <<kind, input, sharedVars, pgOwn, myOwn, pqOwn, fenceVars, queueVars>>

\* At most two transactions are read at a time; the second one is empty.
Pg == INSTANCE PostgresReplication WITH
    SkipsEmpty <- TRUE, MaxChanges <- 2, TmAux <- TRUE, MaxDrops <- 1

\* Two workers.  The second transaction to be numbered is the first in the
\* binlog, and a selected table is created at the second position.
MCWorkers == {w1, w2}
MCGno == <<2, 1, 3>>
My == INSTANCE MySqlReplication WITH
    MaxLsn <- MaxLsn - 1, MaxFaults <- MaxFaults - 1, Workers <- MCWorkers,
    Gno <- MCGno, Created <- 2, OfNew <- {3}, MaxClaims <- 2

Pq == INSTANCE PqV1Session WITH MaxLsn <- MaxLsn - 1, MaxBatch <- 2, MaxOut <- 2

\* Two tables, one of which does not change.
MCTopics == {"a", "b"}
Yd == INSTANCE YdbTopicSession WITH
    MaxLsn <- MaxLsn - 2, MaxFaults <- MaxFaults - 1, Empty <- {},
    Topics <- MCTopics, Busy <- "a", MaxBatch <- 2, Credit <- 2

-----------------------------------------------------------------------------
(* A table of two rows, and what the planner may know of it: up to four    *)
(* pages, two or three cuts of the key, histograms of three bins.          *)

MCRows == <<[page |-> 1, rank |-> 0, hash |-> -3], [page |-> 3, rank |-> 3, hash |-> 2]>>
MCFacts ==
    {f \in [heap : BOOLEAN, native : BOOLEAN, pages : {0, 4}, cuts : {0, 2, 3},
            weights : {<<>>} \cup [1..3 -> 0..2], heapCost : {1}, outputCost : {1, 6}] :
       /\ ~f.heap => f.cuts = 0 /\ f.weights = <<>> /\ ~f.native
       /\ f.weights # <<>> => f.pages > 0 /\ f.native /\ \E b \in 1..3 : f.weights[b] > 0
       /\ f.weights = <<>> => f.outputCost = 1}

Qu == INSTANCE SnapshotQueue WITH
    Rows <- MCRows, FactSets <- MCFacts, MaxParts <- 3, UsefulLanes <- 2, MaxFailures <- 1

Gt == INSTANCE GtidSet
Cl == INSTANCE Changelog WITH Key <- {"k", "l"}, Column <- {"a", "b"}

-----------------------------------------------------------------------------

NoDatabase == SharedInit /\ mode = "stream" /\ phaseRec = Unwritten(0) /\ offsetRec = Unwritten(0)
NoPg == slot = None /\ lock = "free" /\ requests = {} /\ proc = 0 /\ drops = 0
NoMy == purged = 0 /\ owner = "free" /\ readLocked = FALSE /\ worker = 0
NoPq == server = 0 /\ client = 0 /\ source = 0
NoQueue ==
    /\ plan = 0 /\ queue = 0 /\ reader = 0 /\ emitted = 0 /\ copies = 0
    /\ failures = 0 /\ outcome = "none"

Init ==
    /\ kind \in Kinds
    /\ CASE kind = "gtids"     -> input \in (SUBSET (1..5)) \X (SUBSET (1..5))
         [] kind = "changelog" -> input \in Cl!Batches(3)
         [] OTHER              -> input = 0
    /\ IF kind = "postgres" THEN Pg!PgInit ELSE NoPg
    /\ IF kind = "mysql" THEN My!MyInit ELSE NoMy
    /\ CASE kind = "pqv1" -> Pq!PqInit /\ mode = "stream"
         [] kind = "ydb"  -> Yd!YdbInit
         [] OTHER         -> NoPq
    /\ FenceInit
    /\ IF kind = "queue" THEN Qu!QueueInit ELSE NoQueue
    /\ kind \notin {"postgres", "mysql", "pqv1", "ydb"} => NoDatabase

PgRest == UNCHANGED <<kind, input, myOwn, pqOwn, fenceVars, queueVars>>
MyRest == UNCHANGED <<kind, input, pgOwn, pqOwn, fenceVars, queueVars>>
PqRest == UNCHANGED <<kind, input, pgOwn, myOwn, fenceVars, queueVars>>
FenceRest == UNCHANGED <<kind, input, sharedVars, pgOwn, myOwn, pqOwn, queueVars>>
QuRest == UNCHANGED <<kind, input, sharedVars, pgOwn, myOwn, pqOwn, fenceVars>>

Next ==
    \/ kind = "postgres" /\ Pg!PgNext /\ PgRest
    \/ kind = "mysql" /\ My!MyNext /\ MyRest
    \/ kind = "pqv1" /\ Pq!PqNext /\ PqRest
    \/ kind = "ydb" /\ Yd!YdbNext /\ PqRest
    \/ kind = "fence" /\ FenceNext /\ FenceRest
    \/ kind = "queue" /\ Qu!QueueNext /\ QuRest

\* The servers answer, and the tasks, lanes and pipelines go on.
Works ==
    \/ kind = "postgres" /\ (Pg!Server \/ Pg!Work) /\ PgRest
    \/ kind = "mysql" /\ (My!ConnectionEnds \/ \E w \in {w1, w2} : My!Work(w)) /\ MyRest
    \/ kind = "pqv1" /\ Pq!Progress /\ PqRest
    \/ kind = "ydb" /\ Yd!Progress /\ PqRest
    \/ kind = "queue" /\ Qu!Progress /\ QuRest

Spec == Init /\ [][Next]_vars /\ WF_vars(Works)

-----------------------------------------------------------------------------

TypeOK ==
    /\ kind = "postgres" => Pg!PgTypeOK
    /\ kind = "mysql" => My!MyTypeOK
    /\ kind = "pqv1" => Pq!PqTypeOK
    /\ kind = "ydb" => Yd!YdbTypeOK
    /\ FenceTypeOK

\* One snapshot is at the destination, and the stream starts once it is
\* complete: at its boundary, or, for the overlapping snapshot of YDB, no later
\* than it (claim_or_resume, complete_execution_phase, complete_snapshot).
SnapshotHandoff ==
    /\ SingleSnapshot
    /\ IF kind = "ydb" THEN Yd!OverlapCovers ELSE HandoffExact

\* Snapshot queue: every row is read and delivered once, and a restarted lane
\* starts clean (claim, acknowledge, close).  PQv1 session: the protocol is
\* kept, and the right to the next batch is with one task at a time
\* (consume_read_credit, request_next_read, acknowledge_committed).  YDB: the
\* credit is kept, and the consumer's offset passes no record that was not
\* delivered (replenish_credit, overlap_read_offset, commit_offsets).
ReadsExact ==
    /\ kind = "queue" => Qu!SnapshotExact /\ Qu!AttemptsStartClean
    /\ kind = "pqv1" => Pq!SessionSound
    /\ kind = "ydb" => Yd!TopicSound

\* The cuts of a snapshot, sets of transaction numbers and collapsed changes
\* are what their definitions say (boundary, include_transaction,
\* collapsed_runs_with_changed_columns).
AlgorithmsExact ==
    /\ kind = "queue" => Qu!PlanExact
    /\ kind = "gtids" => Gt!GtidsExact(input[1], input[2], 5)
    /\ kind = "changelog" => Cl!CollapseExact(input)

\* What the source delivers is delivered, or it has come to its end, or it has
\* expired; the source database is not left read-only.
Settled ==
    /\ kind \in {"postgres", "mysql", "pqv1"} => CaughtUp
    /\ kind = "ydb" => Yd!CaughtUp \/ server.expired
    /\ kind = "queue" => outcome # "running"
    /\ ~readLocked
Idle ==
    \/ kind = "postgres" /\ Pg!Stopped
    \/ kind \in {"pqv1", "ydb"} /\ source.state = "stopped"
    \/ kind = "mysql" /\ ~readLocked /\ \A w \in {w1, w2} : My!Stopped(w)
Restarts == kind = "mysql" /\ \E w \in {w1, w2} : My!Starts(w)

\* Unless its processes stop or are restarted for ever, a source delivers and
\* acknowledges everything (read_batch, commit_offsets), a snapshot ends, and
\* the global read lock is released (persist_and_unlock, cleanup).
SourcesSettle == <>[]Settled \/ []<>Idle \/ []<><<Restarts>>_vars
=============================================================================
