-------------------------- MODULE MySqlReplication --------------------------
(***************************************************************************)
(* The MySQL source of a delivery that streams changes, alone or after a   *)
(* snapshot: the claim of the snapshot attempt, the named lock that only   *)
(* the execution's connection owns, the boundary captured under a global   *)
(* read lock, the handoff to the binlog, admission of tables created       *)
(* later, and acknowledgement.                                             *)
(*                                                                         *)
(* Nothing but the named lock keeps processes apart, and it is lost with   *)
(* its connection: several workers of the delivery run here at once, and   *)
(* the compare-and-exchange of the records is what is left between them.   *)
(***************************************************************************)
EXTENDS Replication, GtidSet

CONSTANTS
    Workers,      \* the processes
    Gno,          \* the transaction numbers, in the order of the binlog
    Created,      \* the position of the CREATE of a table that the rules select
    OfNew,        \* the transactions with rows of that table
    MaxClaims     \* bound on the revisions of the record of the snapshot attempt

VARIABLES
    purged,       \* the position up to which the server has purged its binlog
    owner,        \* the named lock: a worker, "free", or "dead" (a connection not yet closed)
    readLocked,   \* the connection that owns the named lock holds FLUSH TABLES WITH READ LOCK
    worker        \* the workers

myVars == <<sharedVars, purged, owner, readLocked, worker>>

Gone == [pc |-> "down", tables |-> {}, revision |-> NoRevision, boundary |-> None,
         start |-> None, offsetRevision |-> NoRevision, gtids |-> <<>>,
         out |-> {}, pending |-> None]

At(w, pc) == worker[w].pc = pc
Become(w, state) == worker' = [worker EXCEPT ![w] = state]
Goto(w, pc) == Become(w, [worker[w] EXCEPT !.pc = pc])
Stopped(w) == At(w, "down")

\* The tables that the rules select in the catalog, and the numbers executed.
Catalog(lsn) == IF lsn < Created THEN {"base"} ELSE {"base", "new"}
Executed(lsn) == Reported({Gno[l] : l \in 1..lsn})

\* The connection is closed; the server notices at its next heartbeat.
Disconnect(w) == owner' = IF owner = w THEN "dead" ELSE owner

Ends(w) == Become(w, Gone) /\ Disconnect(w)
Fails(w) == Ends(w) /\ UNCHANGED <<sharedVars, purged, readLocked>>

-----------------------------------------------------------------------------
(* The server.                                                             *)

Commits ==
    /\ wal < MaxLsn /\ ~readLocked
    /\ wal' = wal + 1
    /\ UNCHANGED <<mode, phaseRec, offsetRec, destination, origin, faults,
                   purged, owner, readLocked, worker>>

Purges ==
    /\ purged < wal
    /\ purged' = wal
    /\ UNCHANGED <<sharedVars, owner, readLocked, worker>>

\* The heartbeat finds the connection closed.
ConnectionEnds ==
    /\ owner = "dead"
    /\ owner' = "free" /\ readLocked' = FALSE
    /\ UNCHANGED <<sharedVars, purged, worker>>

\* The connection of a living worker breaks.
ConnectionLost ==
    /\ faults < MaxFaults /\ owner \in Workers
    /\ owner' = "free" /\ readLocked' = FALSE /\ faults' = faults + 1
    /\ UNCHANGED <<mode, wal, phaseRec, offsetRec, destination, origin, purged, worker>>

-----------------------------------------------------------------------------
(* Preparation: the claim, and the snapshot at its boundary.               *)

\* The value of the record of the snapshot attempt.
Phase(state, lsn, tables) == [state |-> state, lsn |-> lsn, tables |-> tables]

\* claim_or_resume, for a record of the membership that the worker expects.
Expected(w) == Written(phaseRec) => phaseRec.value.tables = worker[w].tables
Resumable == Written(phaseRec) /\ phaseRec.value.state = "streaming"

\* Slip: an interrupted snapshot is claimed again.
ClaimableOverSnapshot == ~Resumable
Claimable == Written(phaseRec) => phaseRec.value.state = "claimed"

\* Membership comes from the records, and from the catalog when there is none.
Starts(w) ==
    /\ Stopped(w)
    /\ phaseRec.revision + Cardinality({v \in Workers : At(v, "claim")}) < MaxClaims \/ ~Claimable
    /\ Become(w, [Gone EXCEPT
          !.pc = IF mode = "stream" THEN "acquire" ELSE "claim",
          !.tables = IF mode = "stream"
                     THEN IF Written(offsetRec) THEN offsetRec.value.tables ELSE Catalog(wal)
                     ELSE IF Written(phaseRec) THEN phaseRec.value.tables ELSE Catalog(wal)])
    /\ UNCHANGED <<sharedVars, purged, owner, readLocked>>

\* A result other than "applied" ends the worker.
StorePhase(w, value, expected, done) ==
    \E o \in CompareExchange(phaseRec, expected, value) :
       /\ phaseRec' = o.record
       /\ IF o.result = "applied" THEN Become(w, [done EXCEPT !.revision = o.record.revision])
                                  ELSE Become(w, Gone)
       /\ IF o.result = "error" THEN faults < MaxFaults /\ faults' = faults + 1
                                ELSE UNCHANGED faults

ClaimOrResume(w) ==
    /\ At(w, "claim") /\ Expected(w)
    /\ \/ /\ Resumable
          /\ Become(w, [worker[w] EXCEPT !.pc = "acquire", !.start = phaseRec.value.lsn])
          /\ UNCHANGED <<phaseRec, faults>>
       \/ /\ Claimable
          /\ StorePhase(w, Phase("claimed", None, worker[w].tables), phaseRec.revision,
                        [worker[w] EXCEPT !.pc = "freeze"])
    /\ UNCHANGED <<mode, wal, offsetRec, destination, origin, purged, owner, readLocked>>

ClaimRefused(w) ==
    /\ At(w, "claim")
    /\ ~Expected(w) \/ ~(Resumable \/ Claimable)
    /\ Fails(w)

\* Slip: validate_locked_membership is left out.
MembershipTrusted(w) == TRUE
MembershipHolds(w) == Catalog(wal) = worker[w].tables

\* begin_locked_snapshot: the lock, the read lock, the sessions, the boundary.
BeginLockedSnapshot(w) ==
    /\ At(w, "freeze") /\ owner = "free"
    /\ IF MembershipHolds(w)
       THEN /\ Become(w, [worker[w] EXCEPT !.pc = "frozen", !.boundary = wal])
            /\ owner' = w /\ readLocked' = TRUE
       ELSE Become(w, Gone) /\ owner' = "dead" /\ UNCHANGED readLocked
    /\ UNCHANGED <<sharedVars, purged>>

\* persist_and_unlock.  Without its connection the worker cannot unlock, and
\* the recorded attempt is lost.
PersistAndUnlock(w) ==
    /\ At(w, "frozen")
    /\ StorePhase(w, Phase("snapshot", worker[w].boundary, worker[w].tables), worker[w].revision,
                  IF owner = w THEN [worker[w] EXCEPT !.pc = "snapshot"] ELSE Gone)
    /\ readLocked' = IF owner = w THEN FALSE ELSE readLocked
    /\ owner' = IF owner = w /\ worker'[w].pc = "down" THEN "dead" ELSE owner
    /\ UNCHANGED <<mode, wal, offsetRec, destination, origin, purged>>

SnapshotWrites(w) ==
    /\ At(w, "snapshot")
    /\ rows' = rows \cup {worker[w].boundary}
    /\ UNCHANGED <<mode, wal, phaseRec, offsetRec, complete, changes, origin, faults,
                   purged, owner, readLocked, worker>>

\* Every table's session was consumed and its rows are written.
SnapshotDrained(w) ==
    /\ At(w, "snapshot")
    /\ rows' = rows \cup {worker[w].boundary}
    /\ complete' = complete \cup {worker[w].boundary}
    /\ Goto(w, "drained")
    /\ UNCHANGED <<mode, wal, phaseRec, offsetRec, changes, origin, faults,
                   purged, owner, readLocked>>

\* complete_execution_phase, with the lock still owned.
CompletePhase(w) ==
    /\ At(w, "drained") /\ owner = w
    /\ StorePhase(w, Phase("streaming", worker[w].boundary, worker[w].tables), worker[w].revision,
                  [worker[w] EXCEPT !.pc = "build", !.start = worker[w].boundary])
    /\ origin' = IF phaseRec' # phaseRec THEN worker[w].boundary ELSE origin
    /\ owner' = IF At(w, "drained") /\ worker'[w].pc = "down" THEN "dead" ELSE owner
    /\ UNCHANGED <<mode, wal, offsetRec, destination, purged, readLocked>>

-----------------------------------------------------------------------------
(* The stream's start: the lock, and a position that the binlog still has. *)

\* validate_gtid_continuity
Continuous(gtids) == IsSubsetOf(gtids, Executed(wal)) /\ IsSubsetOf(Executed(purged), gtids)

\* decode_and_validate of the recorded position.
Valid(w, start) == /\ start # None => offsetRec.value.boundary = start
                   /\ Continuous(offsetRec.value.gtids)

\* prepare_stream and prepare_snapshot_stream.  A stream without a recorded
\* position starts where capture_boundary finds the binlog, under a read lock.
Acquire(w) ==
    /\ At(w, "acquire") /\ owner = "free"
    /\ LET proceeds == IF Written(offsetRec)
                       THEN /\ Valid(w, worker[w].start)
                            /\ mode = "stream" => offsetRec.value.tables = worker[w].tables
                       ELSE mode = "stream" => MembershipHolds(w)
           start == IF mode = "stream" /\ ~Written(offsetRec) THEN wal ELSE worker[w].start
       IN  IF proceeds
           THEN Become(w, [worker[w] EXCEPT !.pc = "build", !.start = start]) /\ owner' = w
           ELSE Become(w, Gone) /\ owner' = "dead"
    /\ UNCHANGED <<sharedVars, purged, readLocked>>

\* The lock is not granted in time, or it is no longer this connection's.
LockRefused(w) ==
    /\ \/ worker[w].pc \in {"freeze", "acquire"} /\ owner # "free"
       \/ At(w, "drained") /\ owner # w
       \/ At(w, "build") /\ owner \notin {"free", w}
    /\ Fails(w)

\* The outcome of storing a position: an error is retried from a new
\* connection, a conflict ends the worker.
StoreOffset(w, value, done) ==
    \E o \in CompareExchange(offsetRec, worker[w].offsetRevision, value) :
       /\ offsetRec' = o.record
       /\ \/ /\ o.result = "applied"
             /\ Become(w, [done EXCEPT !.offsetRevision = o.record.revision])
             /\ owner' = IF At(w, "build") THEN w ELSE owner
             /\ UNCHANGED faults
          \/ /\ o.result = "error" /\ faults < MaxFaults
             /\ faults' = faults + 1
             /\ Become(w, [Gone EXCEPT !.pc = "build", !.tables = worker[w].tables,
                                       !.start = worker[w].start])
             /\ Disconnect(w)
          \/ /\ o.result = "conflict"
             /\ Ends(w) /\ UNCHANGED faults

Reading(w, value) ==
    [worker[w] EXCEPT !.pc = "reading", !.tables = value.tables, !.gtids = value.gtids,
                      !.out = {}, !.pending = None]

\* build_source: acquire_stream_handoff, MySqlReplicationOffsetTracker::prepare
\* and the request of the binlog after the committed set.
Build(w) ==
    /\ At(w, "build") /\ owner \in {"free", w}
    /\ \/ /\ Written(offsetRec) /\ Valid(w, worker[w].start)
          /\ Become(w, [Reading(w, offsetRec.value) EXCEPT !.offsetRevision = offsetRec.revision])
          /\ owner' = w
          /\ UNCHANGED <<offsetRec, faults, origin>>
       \/ /\ ~Written(offsetRec) /\ worker[w].start # None
          /\ \E first \in {[position |-> worker[w].start, gtids |-> Executed(worker[w].start),
                            boundary |-> worker[w].start, tables |-> worker[w].tables]} :
                Continuous(first.gtids) /\ StoreOffset(w, first, Reading(w, first))
          /\ origin' = IF origin = None /\ offsetRec' # offsetRec THEN worker[w].start ELSE origin
    /\ UNCHANGED <<mode, wal, phaseRec, destination, purged, readLocked>>

BuildRefused(w) ==
    /\ At(w, "build")
    /\ IF Written(offsetRec) THEN ~Valid(w, worker[w].start)
       ELSE worker[w].start = None \/ ~Continuous(Executed(worker[w].start))
    /\ Fails(w)

-----------------------------------------------------------------------------
(* Reading the binlog and acknowledging.                                   *)

\* The first transaction that is not in the set the stream was asked for, if
\* there is one.
Upcoming(w) ==
    LET remaining == {l \in 1..wal : ~Includes(worker[w].gtids, Gno[l])}
    IN  {l \in remaining : \A k \in remaining : l <= k}

\* A transaction carries the rows of the tables that the decoder retains.
Batch(w, l, gtids) ==
    [lsn |-> l, gtids |-> gtids, carries |-> l \notin Empty /\ (l \in OfNew => "new" \in worker[w].tables)]

\* read_batch until a transaction is finished.  A CREATE becomes a dataset
\* batch, and nothing is read beyond it before its admission is committed.
ReadBatch(w) ==
    /\ At(w, "reading") /\ owner = w
    /\ worker[w].pending = None
    /\ \E l \in Upcoming(w) : \E gtids \in {Include(worker[w].gtids, Gno[l])} :
          /\ l > purged
          /\ IF l = Created /\ "new" \in worker[w].tables
             THEN Ends(w)
             ELSE /\ Become(w, [worker[w] EXCEPT !.gtids = gtids,
                                                 !.out = @ \cup {Batch(w, l, gtids)},
                                                 !.pending = IF l = Created THEN l ELSE None])
                  /\ UNCHANGED owner
    /\ UNCHANGED <<sharedVars, purged, readLocked>>

\* The stream ends, or the server has purged what comes next: the runner
\* builds the source again.
StreamEnds(w) ==
    /\ At(w, "reading")
    /\ owner # w \/ \E l \in Upcoming(w) : l <= purged
    /\ Become(w, [Gone EXCEPT !.pc = "build", !.tables = worker[w].tables, !.start = worker[w].start])
    /\ Disconnect(w)
    /\ UNCHANGED <<sharedVars, purged, readLocked>>

SinkWrites(w) ==
    /\ \E b \in worker[w].out : b.carries /\ changes' = changes \cup {b.lsn}
    /\ UNCHANGED <<mode, wal, phaseRec, offsetRec, rows, complete, origin, faults,
                   purged, owner, readLocked, worker>>

\* Slip: the position is stored without the table that it admits.
AdmittedForgotten(w, b) == {}

\* The table admitted by the transaction that is committed last.
Admitted(w, b) == IF worker[w].pending = b.lsn THEN {"new"} ELSE {}

\* commit_offsets: position and membership in one compare-and-exchange, which
\* needs no connection.
CommitOffsets(w) ==
    /\ At(w, "reading")
    /\ \E b \in worker[w].out :
          /\ \A k \in worker[w].out : k.lsn <= b.lsn /\ k.carries => k.lsn \in changes
          /\ IsSubsetOf(offsetRec.value.gtids, b.gtids) \/ offsetRec.revision # worker[w].offsetRevision
          /\ StoreOffset(w, [offsetRec.value EXCEPT !.position = b.lsn, !.gtids = b.gtids,
                                                    !.tables = @ \cup Admitted(w, b)],
                [worker[w] EXCEPT !.tables = @ \cup Admitted(w, b),
                                  !.out = {k \in @ : k.lsn > b.lsn},
                                  !.pending = IF @ = b.lsn THEN None ELSE @])
    /\ UNCHANGED <<mode, wal, phaseRec, destination, origin, purged, readLocked>>

-----------------------------------------------------------------------------
Crash(w) ==
    /\ ~Stopped(w) /\ faults < MaxFaults
    /\ Ends(w)
    /\ faults' = faults + 1
    /\ UNCHANGED <<mode, wal, phaseRec, offsetRec, destination, origin, purged, readLocked>>

MyInit ==
    /\ SharedInit
    /\ phaseRec = Unwritten(Phase("claimed", None, {}))
    /\ offsetRec = Unwritten([position |-> None])
    /\ purged = 0 /\ owner = "free" /\ readLocked = FALSE
    /\ worker = [w \in Workers |-> Gone]

Work(w) ==
    \/ ClaimOrResume(w) \/ ClaimRefused(w) \/ BeginLockedSnapshot(w) \/ PersistAndUnlock(w)
    \/ SnapshotDrained(w) \/ CompletePhase(w) \/ Acquire(w) \/ LockRefused(w)
    \/ Build(w) \/ BuildRefused(w)
    \/ ReadBatch(w) \/ StreamEnds(w) \/ SinkWrites(w) \/ CommitOffsets(w)

MyNext ==
    \/ Commits \/ Purges \/ ConnectionEnds \/ ConnectionLost
    \/ \E w \in Workers : Starts(w) \/ Work(w) \/ SnapshotWrites(w) \/ Crash(w)

\* A worker that runs goes on: its requests are answered, and its pipeline
\* writes and acknowledges.
MyFairness == WF_myVars(ConnectionEnds) /\ \A w \in Workers : WF_myVars(Work(w))

MySpec == MyInit /\ [][MyNext]_myVars /\ MyFairness

-----------------------------------------------------------------------------
MyTypeOK ==
    /\ SharedTypeOK
    /\ purged \in 0..wal /\ owner \in Workers \cup {"free", "dead"} /\ readLocked \in BOOLEAN
    /\ Written(offsetRec) => Canonical(offsetRec.value.gtids)
=============================================================================
