------------------------ MODULE PostgresReplication ------------------------
(***************************************************************************)
(* The PostgreSQL source of a delivery that streams changes, alone or      *)
(* after a snapshot: ownership of the replication slot, the claim of the   *)
(* snapshot attempt, creation of the slot with its exported snapshot, the  *)
(* durable handoff from the snapshot to the stream, recovery of the slot,  *)
(* reading by peeking at the slot, and acknowledgement.                    *)
(*                                                                         *)
(* A position is the commit LSN of a transaction.  One process runs at a   *)
(* time: it holds the file lease of the slot for its whole life            *)
(* (acquire_execution_lease).  What a dead process had sent to the server  *)
(* may still be executed later: the CREATE_REPLICATION_SLOT of the         *)
(* bootstrap session, a slot advance on an ordinary connection, and the    *)
(* acknowledgement on the connection that holds the advisory lock.         *)
(***************************************************************************)
EXTENDS Replication

CONSTANTS
    SkipsEmpty,   \* pgoutput enqueues nothing for an empty transaction, wal2json a batch
    MaxChanges,   \* replication.max_changes, in transactions
    TmAux,        \* the pg_tm_aux extension is installed
    MaxDrops      \* bound on the times an operator removes the slot

VARIABLES
    slot,         \* confirmed_flush_lsn of the replication slot, or None
    lock,         \* the advisory lock: "free", "held", or "dead" (by the backend of a dead process)
    requests,     \* what earlier sessions have sent and the server has not executed
    proc,         \* the process
    drops

server == <<wal, slot, lock, requests>>
pgVars == <<mode, server, phaseRec, offsetRec, destination, origin, proc, faults, drops>>

Down == [pc |-> "down", sawSlot |-> FALSE, revision |-> NoRevision, boundary |-> None,
         start |-> None, persisted |-> None, offsetRevision |-> NoRevision,
         committed |-> None, queue |-> {}, out |-> {}, ack |-> None]

At(pc) == proc.pc = pc
Goto(pc) == proc' = [proc EXCEPT !.pc = pc]
Stopped == proc.pc \in {"down", "failed"}

\* The value of the record of the snapshot attempt.
Phase(state, lsn) == [state |-> state, lsn |-> lsn]

\* What the server may still execute when the process goes away at this point.
Leftover ==
    LET request(kind, lsn) == {[kind |-> kind, lsn |-> lsn]}
    IN  CASE proc.pc = "create"                    -> request("create", None)
          [] proc.pc = "recreate"                  -> request("recreate", proc.committed)
          [] proc.pc \in {"catchUp", "recatchUp"}  -> request("advance", proc.committed)
          [] proc.pc = "acking"                    -> request("acknowledge", proc.ack)
          [] OTHER                                 -> {}

\* The process exits.  Its connections close; the server notices later.
Ends(pc) ==
    /\ proc' = [Down EXCEPT !.pc = pc]
    /\ requests' = requests \cup Leftover
    /\ lock' = IF lock = "held" THEN "dead" ELSE lock

Fails == Ends("failed") /\ UNCHANGED <<mode, wal, slot, phaseRec, offsetRec, destination, origin, faults, drops>>

\* ensure_held: the backend still exists and holds both halves of the lock.
Held == lock = "held"

-----------------------------------------------------------------------------
(* The server and its operator.                                            *)

\* pg_replication_slot_advance refuses to go back.
CanAdvance(lsn) == slot # None /\ slot <= lsn

Commits ==
    /\ wal < MaxLsn
    /\ wal' = wal + 1
    /\ UNCHANGED <<mode, slot, lock, requests, phaseRec, offsetRec, destination, origin, proc, faults, drops>>

\* A request of a session that is gone is executed, or it is never executed.
StrayRequest ==
    /\ \E r \in requests :
          /\ requests' = requests \ {r}
          /\ \/ slot' = slot
             \/ r.kind = "create" /\ slot = None /\ slot' = wal
             \/ r.kind = "recreate" /\ slot = None /\ slot' \in 0..wal
             \/ r.kind \in {"advance", "acknowledge"} /\ CanAdvance(r.lsn) /\ slot' = r.lsn
    /\ UNCHANGED <<mode, wal, lock, phaseRec, offsetRec, destination, origin, proc, faults, drops>>

\* The lock is the transaction's, so it outlives the statement being executed.
BackendEnds ==
    /\ lock = "dead"
    /\ \A r \in requests : r.kind # "acknowledge"
    /\ lock' = "free"
    /\ UNCHANGED <<mode, wal, slot, requests, phaseRec, offsetRec, destination, origin, proc, faults, drops>>

\* The backend of a living process is terminated.
LockLost ==
    /\ faults < MaxFaults
    /\ lock = "held"
    /\ lock' = "free" /\ faults' = faults + 1
    /\ UNCHANGED <<mode, wal, slot, requests, phaseRec, offsetRec, destination, origin, proc, drops>>

\* "remove that exact slot deliberately before retrying"
DropSlot ==
    /\ drops < MaxDrops
    /\ Stopped /\ slot # None
    /\ slot' = None /\ drops' = drops + 1
    /\ UNCHANGED <<mode, wal, lock, requests, phaseRec, offsetRec, destination, origin, proc, faults>>

-----------------------------------------------------------------------------
(* Ownership, the claim of the snapshot attempt, and the slot.             *)

Starts ==
    /\ Stopped
    /\ proc' = [Down EXCEPT !.pc = "acquire"]
    /\ UNCHANGED <<mode, server, phaseRec, offsetRec, destination, origin, faults, drops>>

Acquire ==
    /\ At("acquire") /\ lock = "free"
    /\ lock' = "held" /\ Goto("owned")
    /\ UNCHANGED <<mode, wal, slot, requests, phaseRec, offsetRec, destination, origin, faults, drops>>

AcquireFails == At("acquire") /\ lock # "free" /\ Fails

\* replication_slot_exists, before the claim and before a stream starts.
SlotExists ==
    /\ At("owned") /\ Held
    /\ proc' = IF mode = "batch_and_stream"
               THEN [proc EXCEPT !.pc = "claim", !.sawSlot = slot # None]
               ELSE [proc EXCEPT !.pc = IF slot # None THEN "build" ELSE "create"]
    /\ UNCHANGED <<mode, server, phaseRec, offsetRec, destination, origin, faults, drops>>

\* What claim_or_resume does with the record it reads.
Resumable == Written(phaseRec) /\ phaseRec.value.state = "streaming"
\* Slip: an attempt whose boundary is recorded is claimed again.
ClaimableOverSnapshot == ~proc.sawSlot
Claimable == /\ ~proc.sawSlot
             /\ Written(phaseRec) => phaseRec.value.state = "claimed"

\* The result of a compare-and-exchange that the process did not see applied
\* ends the process.
StorePhase(value, expected, done) ==
    \E o \in CompareExchange(phaseRec, expected, value) :
       /\ phaseRec' = o.record
       /\ IF o.result = "applied"
          THEN /\ proc' = [done EXCEPT !.revision = o.record.revision]
               /\ UNCHANGED <<lock, requests, faults>>
          ELSE /\ faults < MaxFaults /\ faults' = faults + 1
               /\ Ends("failed")

ClaimOrResume ==
    /\ At("claim")
    /\ \/ /\ Resumable
          /\ proc' = [proc EXCEPT !.pc = "build", !.start = phaseRec.value.lsn,
                                  !.revision = phaseRec.revision]
          /\ UNCHANGED <<lock, requests, phaseRec, faults>>
       \/ /\ ~Resumable /\ Claimable
          /\ StorePhase(Phase("claimed", None), phaseRec.revision, [proc EXCEPT !.pc = "create"])
    /\ UNCHANGED <<mode, wal, slot, offsetRec, destination, origin, drops>>

ClaimRefused == At("claim") /\ ~Resumable /\ ~Claimable /\ Fails

\* The slot is created at the position of the snapshot it exports.
CreateSlot ==
    /\ At("create") /\ slot = None
    /\ slot' = wal
    /\ proc' = IF mode = "batch_and_stream"
               THEN [proc EXCEPT !.pc = "exported", !.boundary = wal]
               ELSE [proc EXCEPT !.pc = "build", !.start = wal]
    /\ UNCHANGED <<mode, wal, lock, requests, phaseRec, offsetRec, destination, origin, faults, drops>>

CreateRefused == At("create") /\ slot # None /\ Fails

-----------------------------------------------------------------------------
(* The snapshot and its handoff to the stream.                             *)

MarkSnapshotReady ==
    /\ At("exported")
    /\ StorePhase(Phase("snapshot", proc.boundary), proc.revision, [proc EXCEPT !.pc = "snapshot"])
    /\ UNCHANGED <<mode, wal, slot, offsetRec, destination, origin, drops>>

SnapshotWrites ==
    /\ At("snapshot")
    /\ rows' = rows \cup {proc.boundary}
    /\ UNCHANGED <<mode, server, phaseRec, offsetRec, complete, changes, origin, proc, faults, drops>>

\* Every lane of every table is drained and its queue is complete.
SnapshotDrained ==
    /\ At("snapshot")
    /\ rows' = rows \cup {proc.boundary}
    /\ complete' = complete \cup {proc.boundary}
    /\ Goto("drained")
    /\ UNCHANGED <<mode, server, phaseRec, offsetRec, changes, origin, faults, drops>>

\* Slip: the handoff is recorded while lanes still run.
CompletePhaseEarly ==
    /\ proc.pc \in {"snapshot", "drained"}
    /\ StorePhase(Phase("streaming", proc.boundary), proc.revision,
                  [proc EXCEPT !.pc = "build", !.start = proc.boundary])
    /\ origin' = IF phaseRec' # phaseRec THEN proc.boundary ELSE origin
    /\ UNCHANGED <<mode, wal, slot, offsetRec, destination, drops>>

\* complete_execution_phase: mark_streaming, then the snapshot is closed.
CompletePhase ==
    /\ At("drained")
    /\ StorePhase(Phase("streaming", proc.boundary), proc.revision,
                  [proc EXCEPT !.pc = "build", !.start = proc.boundary])
    /\ origin' = IF phaseRec' # phaseRec THEN proc.boundary ELSE origin
    /\ UNCHANGED <<mode, wal, slot, offsetRec, destination, drops>>

-----------------------------------------------------------------------------
(* Building the stream's source: PostgresReplicationSource::new.           *)

Requested == IF Written(offsetRec) THEN offsetRec.value.position ELSE proc.start

\* decode_state and the comparison of the two positions.
Precedes == Written(offsetRec) /\ proc.start # None /\ offsetRec.value.position < proc.start

ReadOffset ==
    /\ At("build") /\ Held /\ ~Precedes
    /\ proc' = [proc EXCEPT !.pc = "inspect",
                            !.offsetRevision = offsetRec.revision,
                            !.persisted = IF Written(offsetRec) THEN offsetRec.value.position ELSE None,
                            !.committed = Requested]
    /\ UNCHANGED <<mode, server, phaseRec, offsetRec, destination, origin, faults, drops>>

ReadOffsetRefused == At("build") /\ Precedes /\ Fails

\* Slip: the slot's own position is trusted.
InspectSlotTrusting ==
    /\ At("inspect") /\ proc.committed # None /\ slot # None
    /\ Goto(IF slot < proc.committed THEN "catchUp" ELSE "store")
    /\ UNCHANGED <<mode, server, phaseRec, offsetRec, destination, origin, faults, drops>>

InspectSlot ==
    /\ At("inspect") /\ proc.committed # None
    /\ IF slot # None
       THEN slot <= proc.committed /\ Goto(IF slot < proc.committed THEN "catchUp" ELSE "store")
       ELSE TmAux /\ Goto("recreate")
    /\ UNCHANGED <<mode, server, phaseRec, offsetRec, destination, origin, faults, drops>>

\* A slot without a recorded position, a slot ahead of it, or no slot and no
\* way to create one in the past.
InspectRefused ==
    /\ At("inspect")
    /\ \/ proc.committed = None
       \/ slot > proc.committed
       \/ slot = None /\ ~TmAux
    /\ Fails

\* pg_create_logical_replication_slot_lsn picks a position at which it can start.
RecreateSlot ==
    /\ At("recreate") /\ slot = None
    /\ slot' \in 0..wal
    /\ IF slot' > proc.committed
       THEN Ends("failed")
       ELSE /\ Goto(IF slot' < proc.committed THEN "recatchUp" ELSE "verify")
            /\ UNCHANGED <<lock, requests>>
    /\ UNCHANGED <<mode, wal, phaseRec, offsetRec, destination, origin, faults, drops>>

RecreateRefused == At("recreate") /\ slot # None /\ Fails

\* advance_slot on the ordinary connection; the result must be exact.
CatchUp ==
    /\ At("catchUp") \/ At("recatchUp")
    /\ IF CanAdvance(proc.committed)
       THEN /\ slot' = proc.committed
            /\ Goto(IF At("catchUp") THEN "store" ELSE "verify")
            /\ UNCHANGED <<lock, requests>>
       ELSE Ends("failed") /\ UNCHANGED slot
    /\ UNCHANGED <<mode, wal, phaseRec, offsetRec, destination, origin, faults, drops>>

VerifySlotExact ==
    /\ At("verify")
    /\ IF slot = proc.committed
       THEN Goto("store") /\ UNCHANGED <<lock, requests>>
       ELSE Ends("failed")
    /\ UNCHANGED <<mode, wal, slot, phaseRec, offsetRec, destination, origin, faults, drops>>

\* store: what the process saw applied is the position it goes on from.
StoreOffset(lsn, done) ==
    \E o \in CompareExchange(offsetRec, proc.offsetRevision, [position |-> lsn]) :
       /\ offsetRec' = o.record
       /\ IF o.result = "applied"
          THEN /\ proc' = [done EXCEPT !.offsetRevision = o.record.revision]
               /\ UNCHANGED <<lock, requests, faults>>
          ELSE /\ faults < MaxFaults /\ faults' = faults + 1
               /\ Ends("failed")

StoreStart ==
    /\ At("store")
    /\ LET ready == [proc EXCEPT !.pc = "reading", !.queue = {}, !.out = {}]
       IN  IF proc.persisted = proc.committed
           THEN proc' = ready /\ UNCHANGED <<lock, requests, offsetRec, faults>>
           ELSE StoreOffset(proc.committed, ready)
    /\ origin' = IF origin = None /\ offsetRec' # offsetRec THEN proc.committed ELSE origin
    /\ UNCHANGED <<mode, wal, slot, phaseRec, destination, drops>>

-----------------------------------------------------------------------------
(* Reading and acknowledging.                                              *)

\* The transactions that the slot returns: those after its own position.
Window == {l \in Lsn : slot < l /\ l <= wal /\ l <= slot + MaxChanges}

\* Nothing is peeked before everything peeked earlier is acknowledged.
Refill ==
    /\ At("reading") /\ Held
    /\ proc.queue = {} /\ proc.out = {}
    /\ proc' = [proc EXCEPT !.queue = IF SkipsEmpty THEN Window \ Empty ELSE Window]
    /\ UNCHANGED <<mode, server, phaseRec, offsetRec, destination, origin, faults, drops>>

ReadBatch ==
    /\ At("reading") /\ Held
    /\ \E l \in proc.queue :
          /\ \A k \in proc.queue : l <= k
          /\ proc' = [proc EXCEPT !.queue = @ \ {l}, !.out = @ \cup {l}]
    /\ UNCHANGED <<mode, server, phaseRec, offsetRec, destination, origin, faults, drops>>

\* The sink, at its own pace.  An empty transaction has nothing to write.
SinkWrites ==
    /\ \E l \in proc.out \ Empty : changes' = changes \cup {l}
    /\ UNCHANGED <<mode, server, phaseRec, offsetRec, rows, complete, origin, proc, faults, drops>>

\* Slip: a batch is acknowledged before an earlier one is durable.
AcknowledgedAlone(l) == l \in changes \cup Empty
\* The markers that the pipeline gives to commit_offsets.
Acknowledged(l) == \A k \in proc.out : k <= l => k \in changes \cup Empty

\* The position is made durable here before the server is told.
CommitOffsets ==
    /\ At("reading") /\ Held
    /\ \E l \in proc.out :
          /\ Acknowledged(l)
          /\ StoreOffset(l, [proc EXCEPT !.pc = "acking", !.ack = l])
    /\ UNCHANGED <<mode, wal, slot, phaseRec, destination, origin, drops>>

\* ReplicationLease::advance_slot, on the connection that holds the lock.
AdvanceSlot ==
    /\ At("acking") /\ Held
    /\ IF CanAdvance(proc.ack)
       THEN /\ slot' = proc.ack
            /\ proc' = [proc EXCEPT !.pc = "reading", !.committed = proc.ack, !.ack = None,
                                    !.out = {l \in @ : l > proc.ack}]
            /\ UNCHANGED <<lock, requests>>
       ELSE Ends("failed") /\ UNCHANGED slot
    /\ UNCHANGED <<mode, wal, phaseRec, offsetRec, destination, origin, faults, drops>>

\* Without the lock nothing is built, read or acknowledged.
LeaseLost ==
    /\ proc.pc \in {"owned", "build", "reading", "acking"}
    /\ ~Held
    /\ Fails

-----------------------------------------------------------------------------
\* A failed query is retryable: the runner builds the source again.
Rebuild ==
    /\ At("reading") /\ faults < MaxFaults
    /\ proc' = [proc EXCEPT !.pc = "build", !.queue = {}, !.out = {}]
    /\ faults' = faults + 1
    /\ UNCHANGED <<mode, server, phaseRec, offsetRec, destination, origin, drops>>

\* The process dies, or an error, a timeout or a cancellation ends it.
Crash ==
    /\ ~Stopped /\ faults < MaxFaults
    /\ Ends("down")
    /\ faults' = faults + 1
    /\ UNCHANGED <<mode, wal, slot, phaseRec, offsetRec, destination, origin, drops>>

PgInit ==
    /\ SharedInit
    /\ slot = None /\ lock = "free" /\ requests = {}
    /\ phaseRec = Unwritten(Phase("claimed", None))
    /\ offsetRec = Unwritten([position |-> None])
    /\ proc = Down /\ drops = 0

Server == StrayRequest \/ BackendEnds
Prepare == Acquire \/ AcquireFails \/ SlotExists \/ ClaimOrResume \/ ClaimRefused
           \/ CreateSlot \/ CreateRefused \/ MarkSnapshotReady
SnapshotPhase == SnapshotDrained \/ CompletePhase
Build == ReadOffset \/ ReadOffsetRefused \/ InspectSlot \/ InspectRefused
         \/ RecreateSlot \/ RecreateRefused \/ CatchUp \/ VerifySlotExact \/ StoreStart
Stream == Refill \/ ReadBatch \/ SinkWrites \/ CommitOffsets \/ AdvanceSlot \/ LeaseLost
Work == Prepare \/ SnapshotPhase \/ Build \/ Stream

PgNext == Commits \/ Server \/ LockLost \/ DropSlot \/ Starts \/ Work \/ SnapshotWrites
          \/ Rebuild \/ Crash

\* Every request of the process is answered, and the pipeline delivers.
PgFairness == WF_pgVars(Server) /\ WF_pgVars(Prepare \/ SnapshotPhase \/ Build)
              /\ WF_pgVars(Refill \/ ReadBatch \/ LeaseLost)
              /\ WF_pgVars(SinkWrites) /\ WF_pgVars(CommitOffsets) /\ WF_pgVars(AdvanceSlot)

PgSpec == PgInit /\ [][PgNext]_pgVars /\ PgFairness

-----------------------------------------------------------------------------
PgTypeOK ==
    /\ SharedTypeOK
    /\ slot \in Position \cup {None}
    /\ lock \in {"free", "held", "dead"}
    /\ requests \subseteq [kind : {"create", "recreate", "advance", "acknowledge"},
                           lsn : Position \cup {None}]
    /\ drops \in 0..MaxDrops
=============================================================================
