---------------------------- MODULE Replication ----------------------------
(***************************************************************************)
(* What the sources that stream changes of a database have in common: the  *)
(* log of the database, the durable records of the delivery, what is at    *)
(* the destination, and what must be true of it.                           *)
(*                                                                         *)
(* A position is the place of a transaction in the log, 1..MaxLsn.  The    *)
(* pipeline between a source and its sink is what Pipeline shows it to be: *)
(* the markers given to commit_offsets are those of a prefix of the        *)
(* batches handed out, all of them durable at the destination.             *)
(***************************************************************************)
EXTENDS DurableStorage, FiniteSets

CONSTANTS
    Modes,        \* the delivery types considered: "stream", "batch_and_stream"
    MaxLsn,       \* bound on the log
    Empty,        \* the transactions without rows of the delivery's tables
    MaxFaults     \* bound on failures of connections, writes and processes

None == -1
Lsn == 1..MaxLsn
Position == 0..MaxLsn

VARIABLES
    mode,         \* the delivery type
    wal,          \* the position of the last committed transaction
    phaseRec,     \* the record of the snapshot attempt
    offsetRec,    \* the record of the position from which the stream resumes
    rows,         \* the boundaries of the snapshots that have rows at the destination
    complete,     \* the boundaries of the snapshots that are there in full
    changes,      \* the transactions at the destination
    origin,       \* history: the position from which the delivery streams
    faults

destination == <<rows, complete, changes>>
sharedVars == <<mode, wal, phaseRec, offsetRec, destination, origin, faults>>

SharedInit ==
    /\ mode \in Modes
    /\ wal = 0
    /\ rows = {} /\ complete = {} /\ changes = {}
    /\ origin = None
    /\ faults = 0

Resume == IF Written(offsetRec) THEN offsetRec.value.position ELSE None

SharedTypeOK ==
    /\ mode \in Modes /\ wal \in Position /\ faults \in 0..MaxFaults
    /\ Resume \in Position \cup {None} /\ origin \in Position \cup {None}
    /\ rows \subseteq Position /\ complete \subseteq rows /\ changes \subseteq Lsn

\* The destination never mixes the rows of two snapshots: an attempt whose
\* boundary was recorded is never repeated (claim_or_resume).
SingleSnapshot == Cardinality(rows) <= 1

\* The stream starts at the boundary of a snapshot that is complete at the
\* destination (complete_execution_phase).
HandoffExact ==
    mode = "batch_and_stream" /\ origin # None => rows = {origin} /\ complete = {origin}

\* The recorded position never passes a change that was not delivered, over
\* crashes, lost locks, failed writes and processes that do not know of each
\* other.
Kept == INSTANCE SourcePromise
        WITH Changes <- Lsn \ Empty, resume <- Resume, delivered <- changes \ Empty
KeepsPromise == Kept!Promise

CaughtUp ==
    origin # None /\ \A l \in Lsn \ Empty : origin < l /\ l <= wal => l \in changes /\ l <= Resume
=============================================================================
