--------------------------- MODULE IcebergReplica ---------------------------
(***************************************************************************)
(* The Iceberg sink as a replica of changelog tables: each delivery is one *)
(* source transaction, its changes of each table are one row delta, and    *)
(* the identity of the row delta is made of the source's coordinates.      *)
(*                                                                         *)
(* The one partition of the stream is the only writer.                     *)
(***************************************************************************)
EXTENDS SinkSession, IcebergCommit

CONSTANTS
    Replica,        \* the writer
    ChangedTables   \* message |-> the sequence of datasets it changes

VARIABLES
    received        \* a delivery is with write_deliveries

replicaVars == <<sessionVars, commitVars, received>>

\* Slip: the identity is made of the delivery id, which starts at 1 in each
\* session.
IdentityOfDelivery(m) == <<Replica, <<m - base>>>>
\* IcebergCommitIdentity::new: the partition and replica_source_identity, the
\* coordinates of the transaction.
IdentityOf(m) == <<Replica, <<m>>>>

Jobs(m) ==
    [i \in DOMAIN ChangedTables[m] |->
       [dataset |-> ChangedTables[m][i], identity |-> IdentityOf(m), delta |-> TRUE, rows |-> {m}]]

\* run_session: a replica writes every delivery on its own.
Receive ==
    /\ Runs /\ ~received
    /\ \E m \in Message :
          /\ Hand(m)
          /\ IF Jobs(m) = <<>>
             THEN /\ writer' = [writer EXCEPT ![Replica].stage = "done"]
                  /\ UNCHANGED <<tables, marked, flight>>
             ELSE Begin(Replica, Jobs(m))
    /\ received' = TRUE

Writes ==
    /\ Runs
    /\ WriterStep(Replica)
    /\ UNCHANGED <<sessionVars, received>>

WriteFails ==
    /\ Runs /\ Fault
    /\ WriterFault(Replica)
    /\ UNCHANGED <<committed, base, handed, input, session, received>>

\* CommittedThrough, and commit_offsets of the source when it gets the event.
Commits ==
    /\ At(Replica, "done")
    /\ Emit(1..LastHanded)
    /\ received' = FALSE
    /\ Abandon({Replica})

\* write_deliveries returns an error: of a call, or that the record and the
\* table disagree.
SessionFails ==
    /\ Runs
    /\ At(Replica, "failed") \/ At(Replica, "fatal")
    /\ session' = IF At(Replica, "fatal") THEN "fatal" ELSE "stopped"
    /\ UNCHANGED <<committed, base, handed, input, faults, commitVars, received>>

Ends ==
    /\ ~received /\ input # "open"
    /\ Returns
    /\ UNCHANGED <<commitVars, received>>

InputEnds ==
    /\ SourceFinishes \/ SourceFails
    /\ UNCHANGED <<commitVars, received>>

Stop ==
    /\ Stops
    /\ Abandon({Replica})
    /\ UNCHANGED received

Restart ==
    /\ Restarts
    /\ received' = FALSE
    /\ Abandon({Replica})

Late ==
    /\ LateUpdate
    /\ UNCHANGED <<sessionVars, received>>

ReplicaInit == SessionInit /\ CommitInit /\ received = FALSE

Loop == Receive \/ Writes \/ Commits \/ SessionFails \/ Ends \/ InputEnds \/ Restart

ReplicaNext == Loop \/ WriteFails \/ Stop \/ Late

ReplicaSpec == ReplicaInit /\ [][ReplicaNext]_replicaVars /\ WF_replicaVars(Loop)

-----------------------------------------------------------------------------

ReplicaTypeOK ==
    /\ SessionTypeOK
    /\ received \in BOOLEAN
    /\ CommitTypeOK

\* The transactions that change a table, in the order of the source.
Changing(d) == SelectSeq([m \in Message |-> m], LAMBDA m : \E i \in DOMAIN ChangedTables[m] :
                                                             ChangedTables[m][i] = d)

\* Each table has taken the row deltas of the transactions that change it once
\* each, in the order of the source, and those of all committed transactions
\* (run_session, apply_replica_delta, replica_source_identity).
ReplicaExact ==
    \A d \in Datasets :
        /\ \A i \in DOMAIN tables[d] : i <= Len(Changing(d)) /\ tables[d][i].rows = {Changing(d)[i]}
        /\ \A m \in 1..committed :
              (\E i \in DOMAIN Changing(d) : Changing(d)[i] = m) =>
                  \E i \in DOMAIN tables[d] : tables[d][i].rows = {m}

\* What is reached in the end, whatever fails: the durable records never
\* contradict the table.
AllCommitted == committed = NumMessages
=============================================================================
