--------------------------- MODULE DurableStorage ---------------------------
(***************************************************************************)
(* The records a delivery keeps across processes: LocalFileDurableStorage  *)
(* with its compare-and-exchange on a revision.  A record that was never   *)
(* written has revision -1, so that its first revision is 0.               *)
(***************************************************************************)
EXTENDS Integers

NoRevision == -1
Unwritten(value) == [revision |-> NoRevision, value |-> value]
Written(record) == record.revision # NoRevision

Outcome(record, result) == [record |-> record, result |-> result]

\* Slip: the bytes go straight to the file, and an error can leave it empty.
WriteFileInPlace(record, value) ==
    LET next == [revision |-> record.revision + 1, value |-> value]
    IN  {Outcome(next, "applied"), Outcome(Unwritten(record.value), "error")}

\* write_file syncs a temporary file, renames it and syncs the directory: an
\* error before the rename leaves the old record, one after it leaves the new
\* record on disk although the caller is told that the write failed.
WriteFile(record, value) ==
    LET next == [revision |-> record.revision + 1, value |-> value]
    IN  {Outcome(next, "applied"), Outcome(next, "error"), Outcome(record, "error")}

CompareExchangeBlindly(record, expected, value) == WriteFile(record, value)

\* The read, the comparison of revisions and the write happen under the file
\* lock of the record, so they are one step for other processes.
CompareExchange(record, expected, value) ==
    IF record.revision = expected
    THEN WriteFile(record, value)
    ELSE {Outcome(record, "conflict")}
=============================================================================
