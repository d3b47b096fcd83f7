--------------------------- MODULE IcebergCommit ----------------------------
(***************************************************************************)
(* How the Iceberg sink makes the commit of a group of rows idempotent.    *)
(* Each commit has an identity, which is stored in the table snapshot and  *)
(* in a durable record.  A writer looks for the identity, writes files,    *)
(* and lets the catalog replace the table state it has loaded; a commit    *)
(* without an answer may be carried out at any later time.                 *)
(*                                                                         *)
(* A job is [dataset, identity, delta, rows]: delta distinguishes          *)
(* apply_replica_delta, a row delta, from append, a fast append.           *)
(***************************************************************************)
EXTENDS Naturals, Sequences

CONSTANTS
    Writers,        \* the sink sessions, one for each partition
    Datasets,
    Identity,       \* commit identities
    Payload         \* what a commit may add to a table

VARIABLES
    tables,         \* [dataset -> its snapshots, the current one last]
    marked,         \* the <<dataset, identity>> pairs with a durable record
    flight,         \* commit requests that nobody waits for
    writer          \* [writer -> its stage, its jobs and the table state it has loaded]

commitVars == <<tables, marked, flight, writer>>

Job == [dataset : Datasets, identity : Identity, delta : BOOLEAN, rows : Payload]
Snapshot == [identity : Identity, rows : Payload]
Request == [dataset : Datasets, identity : Identity, rows : Payload, base : Nat]

Stage == {"idle", "load", "check", "files", "refresh", "request", "reload", "mark",
          "done", "failed", "fatal"}

Idle == [stage |-> "idle", jobs |-> <<>>, base |-> 0]

\* has_commit_identity over the snapshots of a table that was loaded when it
\* had n of them.
Lineage(d, n) == {tables[d][i].identity : i \in 1..n}
InLineage(j) == j.identity \in Lineage(j.dataset, Len(tables[j.dataset]))

At(w, stage) == writer[w].stage = stage
Current(w) == Head(writer[w].jobs)
Token(j) == <<j.dataset, j.identity>>

Goto(w, stage) == writer' = [writer EXCEPT ![w].stage = stage]

\* The job is done: the next dataset of the group, if there is one.
Advance(w) ==
    writer' = [writer EXCEPT ![w] =
                 [stage |-> IF Len(@.jobs) = 1 THEN "done" ELSE "load",
                  jobs |-> Tail(@.jobs), base |-> 0]]

\* write_deliveries: the datasets of a group are written one after another.
Begin(w, jobs) ==
    /\ At(w, "idle")
    /\ writer' = [writer EXCEPT ![w] = [stage |-> "load", jobs |-> jobs, base |-> 0]]
    /\ UNCHANGED <<tables, marked, flight>>

\* catalog.load_table
LoadTable(w) ==
    /\ At(w, "load")
    /\ writer' = [writer EXCEPT ![w].stage = "check",
                                ![w].base = Len(tables[Current(w).dataset])]
    /\ UNCHANGED <<tables, marked, flight>>

\* commit_is_durable and has_commit_identity
CheckCommitted(w) ==
    /\ At(w, "check")
    /\ LET j == Current(w)
           seen == j.identity \in Lineage(j.dataset, writer[w].base)
       IN  IF Token(j) \in marked
           THEN IF seen THEN Advance(w) ELSE Goto(w, "fatal")
           ELSE Goto(w, IF seen THEN "mark" ELSE "files")
    /\ UNCHANGED <<tables, marked, flight>>

\* write_data_files and write_equality_delete_files: no table refers to them yet.
WriteFiles(w) ==
    /\ At(w, "files")
    /\ Goto(w, "refresh")
    /\ UNCHANGED <<tables, marked, flight>>

\* Slip: the transaction is applied to the table again without looking.
RefreshBlindly(w) ==
    /\ At(w, "refresh")
    /\ writer' = [writer EXCEPT ![w].stage = "request",
                                ![w].base = Len(tables[Current(w).dataset])]
    /\ UNCHANGED <<tables, marked, flight>>

\* do_commit: the table is loaded again.  If it has this commit by now, a row
\* delta succeeds with nothing to do, and a fast append fails because its
\* files, whose names are derived from the identity, are there.
Refresh(w) ==
    /\ At(w, "refresh")
    /\ LET j == Current(w)
       IN  writer' = [writer EXCEPT
             ![w].stage = IF ~InLineage(j) THEN "request" ELSE IF j.delta THEN "mark" ELSE "reload",
             ![w].base = Len(tables[j.dataset])]
    /\ UNCHANGED <<tables, marked, flight>>

\* The catalog accepts the update if the table is still in the loaded state;
\* otherwise the transaction starts over until its retries are used up.
UpdateTable(w) ==
    /\ At(w, "request")
    /\ LET j == Current(w)
       IN  IF writer[w].base = Len(tables[j.dataset])
           THEN /\ tables' = [tables EXCEPT
                                ![j.dataset] = Append(@, [identity |-> j.identity, rows |-> j.rows])]
                /\ Goto(w, "mark")
           ELSE /\ writer' \in {[writer EXCEPT ![w].stage = s] : s \in {"refresh", "reload"}}
                /\ UNCHANGED tables
    /\ UNCHANGED <<marked, flight>>

\* Slip: an unknown outcome is taken for success.
ReloadTrusting(w) ==
    /\ At(w, "reload")
    /\ Goto(w, "mark")
    /\ UNCHANGED <<tables, marked, flight>>

\* After an error: the table tells whether the commit was carried out.
Reload(w) ==
    /\ At(w, "reload")
    /\ Goto(w, IF InLineage(Current(w)) THEN "mark" ELSE "failed")
    /\ UNCHANGED <<tables, marked, flight>>

\* mark_commit_durable: a record with the same content is as good.
MarkDurable(w) ==
    /\ At(w, "mark")
    /\ marked' = marked \cup {Token(Current(w))}
    /\ Advance(w)
    /\ UNCHANGED <<tables, flight>>

WriterStep(w) ==
    \/ LoadTable(w) \/ CheckCommitted(w) \/ WriteFiles(w) \/ Refresh(w)
    \/ UpdateTable(w) \/ Reload(w) \/ MarkDurable(w)

-----------------------------------------------------------------------------
(* What may go wrong.                                                      *)

RequestOf(w) ==
    [dataset |-> Current(w).dataset, identity |-> Current(w).identity,
     rows |-> Current(w).rows, base |-> writer[w].base]

CallFails(w) ==
    /\ \/ At(w, "load") \/ At(w, "check") \/ At(w, "files") \/ At(w, "reload")
    /\ Goto(w, "failed")
    /\ UNCHANGED <<tables, marked, flight>>

RefreshFails(w) ==
    /\ At(w, "refresh")
    /\ Goto(w, "reload")
    /\ UNCHANGED <<tables, marked, flight>>

\* The catalog has received the update or will, now or later, or never.
AnswerLost(w) ==
    /\ At(w, "request")
    /\ flight' = flight \cup {RequestOf(w)}
    /\ Goto(w, "reload")
    /\ UNCHANGED <<tables, marked>>

\* The durable record may have been written in spite of the error.
MarkFails(w) ==
    /\ At(w, "mark")
    /\ marked' \in {marked, marked \cup {Token(Current(w))}}
    /\ Goto(w, "failed")
    /\ UNCHANGED <<tables, flight>>

WriterFault(w) == CallFails(w) \/ RefreshFails(w) \/ AnswerLost(w) \/ MarkFails(w)

\* The session is over, or its process died.
Abandon(W) ==
    /\ flight' = flight \cup {RequestOf(w) : w \in {v \in W : At(v, "request")}}
    /\ writer' = [w \in Writers |-> IF w \in W THEN Idle ELSE writer[w]]
    /\ UNCHANGED <<tables, marked>>

LateUpdate ==
    /\ \E r \in flight :
          /\ flight' = flight \ {r}
          /\ IF r.base = Len(tables[r.dataset])
             THEN tables' = [tables EXCEPT
                               ![r.dataset] = Append(@, [identity |-> r.identity, rows |-> r.rows])]
             ELSE UNCHANGED tables
    /\ UNCHANGED <<marked, writer>>

-----------------------------------------------------------------------------

CommitInit ==
    /\ tables = [d \in Datasets |-> <<>>]
    /\ marked = {}
    /\ flight = {}
    /\ writer = [w \in Writers |-> Idle]

\* Any writers with any jobs, whoever starts and stops them.
CommitNext ==
    \/ LateUpdate
    \/ \E W \in SUBSET Writers : Abandon(W)
    \/ \E w \in Writers :
          \/ \E jobs \in Seq(Job) \ {<<>>} : Begin(w, jobs)
          \/ WriterStep(w)
          \/ WriterFault(w)

CommitSpec == CommitInit /\ [][CommitNext]_commitVars

-----------------------------------------------------------------------------

CommitTypeOK ==
    /\ tables \in [Datasets -> Seq(Snapshot)]
    /\ marked \subseteq Datasets \X Identity
    /\ flight \subseteq Request
    /\ writer \in [Writers -> [stage : Stage, jobs : Seq(Job), base : Nat]]

\* No commit is carried out twice, however often its writer fails, its answer
\* is lost or it is carried out late (append, apply_replica_delta, do_commit).
OncePerIdentity ==
    \A d \in Datasets : \A i, k \in DOMAIN tables[d] :
        tables[d][i].identity = tables[d][k].identity => i = k

\* A durable record and the end of a job vouch for a commit in the table.
MarkedIsCommitted ==
    /\ \A d \in Datasets, id \in Identity :
          <<d, id>> \in marked => id \in Lineage(d, Len(tables[d]))
    /\ \A w \in Writers : At(w, "mark") => InLineage(Current(w))

\* What makes OncePerIdentity inductive: a request, sent or to be sent, was
\* made for a state of the table that does not have its identity.
Fresh(d, id, n) == n <= Len(tables[d]) /\ id \notin Lineage(d, n)
Busy(w) == writer[w].stage \notin {"idle", "done"}
RequestsFresh ==
    /\ \A r \in flight : Fresh(r.dataset, r.identity, r.base)
    /\ \A w \in Writers :
          /\ Busy(w) => writer[w].jobs # <<>>
          /\ At(w, "check") => writer[w].base <= Len(tables[Current(w).dataset])
          /\ At(w, "request") => Fresh(Current(w).dataset, Current(w).identity, writer[w].base)

CommitInvariant == CommitTypeOK /\ OncePerIdentity /\ MarkedIsCommitted /\ RequestsFresh
=============================================================================
