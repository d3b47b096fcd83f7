-------------------------- MODULE YdbTopicSession ---------------------------
(***************************************************************************)
(* The replication source of YDB: a snapshot that overlaps the changefeed, *)
(* and then one read session over the topics of all the tables.  A session *)
(* serves partition sessions, which the server starts and stops, reads     *)
(* within a credit, and commits a range by waiting for its acknowledgement *)
(* while it keeps the batches that arrive meanwhile.                       *)
(*                                                                         *)
(* The positions of Replication are the offsets of the topic Busy, the     *)
(* other topics have no records; the record of the position to resume from *)
(* is the consumer's offset, which the server keeps, and the record of the *)
(* snapshot attempt is the key ydb-overlap.  YdbFence shows that there is  *)
(* one execution at a time.  The server conforms to the protocol, but may  *)
(* stop a partition session, or drop an old record, at any moment.         *)
(***************************************************************************)
EXTENDS Replication, Sequences, SequencesExt

CONSTANTS
    Topics,       \* the topics of the tables
    Busy,         \* the one with records
    MaxBatch,     \* records of one response
    Credit        \* responses that read_buffer_bytes allow

VARIABLES
    server,       \* the server's side of the session, the retained records, the stream
    client,       \* TopicSession
    source        \* the execution and the pipeline

ydbVars == <<sharedVars, server, client, source>>

Gone == [id |-> 0, phase |-> "none"]
NewServer(s) ==
    [open |-> TRUE, up |-> <<>>, down |-> <<>>, ids |-> 0, parts |-> [t \in Topics |-> Gone],
     next |-> 0, credit |-> 0, owed |-> <<>>, taken |-> FALSE,
     first |-> s.first, expired |-> s.expired]
NoClient == [sessions |-> <<>>, buffered |-> <<>>, available |-> 0, pending |-> 0,
             targets |-> <<>>, failure |-> "none"]
NewSource(state, baseline) ==
    [state |-> state, baseline |-> baseline, seen |-> None, out |-> <<>>, call |-> "none", count |-> 0]

Committed(t) == IF t = Busy /\ Written(offsetRec) THEN offsetRec.value.position ELSE 0
EndOf(t) == IF t = Busy THEN wal ELSE 0
FirstOf(t) == IF t = Busy THEN server.first ELSE 0
Baseline(t) == Min({source.baseline, EndOf(t)})
Uncommitted == Len(source.out) + Len(client.buffered)
At(state) == source.state = state

Rest == UNCHANGED <<mode, wal, phaseRec, offsetRec, destination, origin, faults>>
AtFault ==
    /\ faults < MaxFaults /\ faults' = faults + 1
    /\ UNCHANGED <<mode, wal, phaseRec, offsetRec, destination, origin>>

-----------------------------------------------------------------------------
(* The server.                                                             *)

Produces ==
    /\ wal < MaxLsn
    /\ wal' = wal + 1
    /\ UNCHANGED <<mode, phaseRec, offsetRec, destination, origin, faults, server, client, source>>

\* Retention drops the oldest record, read or not.
Expires ==
    /\ server.first < wal
    /\ server' = [server EXCEPT !.first = @ + 1,
                     !.expired = @ \/ Committed(Busy) <= server.first]
    /\ AtFault /\ UNCHANGED <<client, source>>

Assigns(t) ==
    /\ server.open /\ At("running") /\ server.parts[t].phase = "none"
    /\ LET id == server.ids + 1
       IN  server' = [server EXCEPT !.ids = id, !.parts[t] = [id |-> id, phase |-> "starting"],
              !.down = Append(@, [type |-> "start", id |-> id, topic |-> t,
                                  committed |-> Committed(t), first |-> FirstOf(t), end |-> EndOf(t)])]
    /\ Rest /\ UNCHANGED <<client, source>>

\* The server takes the next request; what is said of a partition session
\* that is over is ignored.
Receives ==
    /\ server.open /\ server.up # <<>>
    /\ LET m == Head(server.up)
           s == [server EXCEPT !.up = Tail(@)]
           mine == {t \in Topics : server.parts[t].id = m.id /\ server.parts[t].phase # "none"}
           commit == IF m.type \in {"started", "commit"} /\ Busy \in mine THEN m.commit ELSE None
       IN  /\ server' =
                CASE m.type = "credit"  -> [s EXCEPT !.credit = @ + m.amount]
                  [] m.type = "started" ->
                       [s EXCEPT !.parts = [t \in Topics |->
                                     IF t \in mine /\ @[t].phase = "starting"
                                     THEN [@[t] EXCEPT !.phase = "reading"] ELSE @[t]],
                                 !.next = IF Busy \in mine THEN m.offset ELSE @,
                                 !.owed = IF commit # None THEN Append(@, commit) ELSE @]
                  [] m.type = "commit"  -> [s EXCEPT !.owed = IF commit # None THEN Append(@, commit) ELSE @]
                  [] m.type = "stopped" ->
                       [s EXCEPT !.parts = [t \in Topics |-> IF t \in mine THEN Gone ELSE @[t]],
                                 !.owed = IF Busy \in mine THEN <<>> ELSE @]
           /\ offsetRec' = IF commit = None THEN offsetRec
                           ELSE [revision |-> 0, value |-> [position |-> commit]]
           /\ origin' = IF m.type = "started" /\ Busy \in mine /\ origin = None THEN m.offset ELSE origin
    /\ UNCHANGED <<mode, wal, phaseRec, destination, faults, client, source>>

\* One response for one unit of credit, from the oldest record that is left.
SendsData ==
    /\ server.open /\ server.parts[Busy].phase = "reading" /\ server.credit > 0
    /\ LET from == Max({server.next, server.first})
       IN  \E last \in from + 1..Min({wal, from + MaxBatch}) :
              server' = [server EXCEPT !.credit = @ - 1, !.next = last,
                 !.down = Append(@, [type |-> "data", id |-> server.parts[Busy].id,
                                     first |-> from + 1, last |-> last])]
    /\ Rest /\ UNCHANGED <<client, source>>

\* Commits are acknowledged in their order, together or one by one.
Acknowledges ==
    /\ server.open
    /\ \E n \in 1..Len(server.owed) :
          server' = [server EXCEPT !.owed = SubSeq(@, n + 1, Len(@)),
             !.down = Append(@, [type |-> "committed", id |-> server.parts[Busy].id,
                                 offset |-> server.owed[n]])]
    /\ Rest /\ UNCHANGED <<client, source>>

\* The balancer takes a partition away; it waits for a session that it stops
\* gracefully, and may lose its patience.
Stops(t, graceful) ==
    /\ server.open /\ server.parts[t].phase \in {"starting", "reading"} \cup (IF graceful THEN {} ELSE {"stopping"})
    /\ server' = [server EXCEPT !.taken = TRUE,
          !.parts[t] = IF graceful THEN [@ EXCEPT !.phase = "stopping"] ELSE Gone,
          !.owed = IF graceful \/ t # Busy THEN @ ELSE <<>>,
          !.down = Append(@, [type |-> "stop", id |-> server.parts[t].id, graceful |-> graceful,
                              committed |-> Committed(t)])]
    /\ AtFault /\ UNCHANGED <<client, source>>

Breaks ==
    /\ server.open /\ At("running")
    /\ server' = [server EXCEPT !.open = FALSE]
    /\ AtFault /\ UNCHANGED <<client, source>>

-----------------------------------------------------------------------------
(* TopicSession: what a message of the server does (process_message).      *)

Said(c, up, event) == [client |-> c, up |-> up, event |-> event]
Fatal(c) == Said([c EXCEPT !.failure = "fatal"], <<>>, "failed")
Live(c) == DOMAIN c.sessions
Stopped(id) == [type |-> "stopped", id |-> id]

\* graceful_stop_ready, settled_invalidated.
Drained(s) == s.acked >= s.through

\* release_gracefully_stopped_sessions: each of them is answered.
Released(c) ==
    LET ready == {id \in Live(c) : c.sessions[id].stopping /\ Drained(c.sessions[id])}
    IN  Said([c EXCEPT !.sessions = [id \in Live(c) |->
                 IF id \in ready THEN [@[id] EXCEPT !.stopping = FALSE, !.invalid = TRUE] ELSE @[id]]],
             SetToSeq({Stopped(id) : id \in ready}), "continue")

\* remove_settled_invalidated_sessions, with their bootstrap commits.
Settle(c) ==
    LET kept == {id \in Live(c) : ~(c.sessions[id].invalid /\ Drained(c.sessions[id]))}
    IN  [c EXCEPT !.sessions = [id \in kept |-> @[id]]]

\* validate_assigned_partition, overlap_read_offset, validate_retained_offset.
ReadFrom(m) == Max({m.committed, Baseline(m.topic)})

\* Slip: the retained range is not looked at.
AssignableUnretained(c, m) == \A id \in Live(c) : c.sessions[id].topic # m.topic

Assignable(c, m) ==
    /\ \A id \in Live(c) : c.sessions[id].topic # m.topic
    /\ m.first <= ReadFrom(m) /\ ReadFrom(m) <= m.end

HeardStart(c, m) ==
    LET from == ReadFrom(m)
        boot == IF Baseline(m.topic) > m.committed THEN Baseline(m.topic) ELSE None
        through == Max({from, m.first})
        state == [topic |-> m.topic, acked |-> from, through |-> through, boot |-> boot,
                  stopping |-> FALSE, invalid |-> FALSE]
    IN  IF ~Assignable(c, m) THEN Fatal(c)
        ELSE Said([c EXCEPT !.sessions = [id \in Live(c) \cup {m.id} |->
                                            IF id = m.id THEN state ELSE @[id]]],
                  <<[type |-> "started", id |-> m.id, offset |-> through, commit |-> boot]>>, "continue")

\* decode_response, within the credit (consume_read_response_credit).
HeardData(c, m) ==
    IF /\ c.available > 0 /\ m.id \in Live(c)
       /\ ~c.sessions[m.id].invalid /\ ~c.sessions[m.id].stopping
       /\ m.first = c.sessions[m.id].through + 1
    THEN Said([c EXCEPT !.available = @ - 1, !.pending = @ + 1, !.sessions[m.id].through = m.last],
              <<>>, "batch")
    ELSE Fatal(c)

\* Slip: every acknowledgement is an answer to commit_offsets.
HeardAnyCommitted(c, m) == Said(c, <<>>, "ack")

\* filter_bootstrap_acks: the acknowledgement of a bootstrap commit is no
\* answer to commit_offsets.
HeardCommitted(c, m) ==
    IF m.id \in Live(c) /\ c.sessions[m.id].boot = m.offset
    THEN Said([c EXCEPT !.sessions[m.id].boot = None], <<>>, "continue")
    ELSE Said(c, <<>>, "ack")

HeardStop(c, m) ==
    IF m.id \notin Live(c) THEN Said(c, <<Stopped(m.id)>>, "continue")
    ELSE LET s == c.sessions[m.id]
         IN  CASE \/ m.committed < s.acked \/ m.committed > s.through
                  \/ m.graceful /\ s.stopping -> Fatal(c)
               [] m.graceful -> Released([c EXCEPT !.sessions[m.id].stopping = TRUE])
               [] OTHER -> Said([c EXCEPT !.sessions[m.id] = [s EXCEPT !.stopping = FALSE, !.invalid = TRUE]],
                                <<Stopped(m.id)>>, "continue")

ProcessMessage(c, m) ==
    CASE m.type = "start"     -> HeardStart(c, m)
      [] m.type = "data"      -> HeardData(c, m)
      [] m.type = "committed" -> HeardCommitted(c, m)
      [] m.type = "stop"      -> HeardStop(c, m)

\* Slip: what was given again stays to be given.
ReplenishTwice(c) == [c EXCEPT !.available = @ + c.pending]

\* replenish_credit: the credit of the responses read so far is given again.
Replenish(c) == [c EXCEPT !.available = @ + c.pending, !.pending = 0]
CreditFor(c) == IF c.pending > 0 THEN <<[type |-> "credit", id |-> 0, amount |-> c.pending]>> ELSE <<>>

-----------------------------------------------------------------------------
(* The source, which the pipeline asks to read or to commit, one at a time. *)

Calling(call) == At("running") /\ source.call = call
Sends(up) == server' = [server EXCEPT !.up = @ \o up]
Hears(up) == server' = [server EXCEPT !.up = @ \o up, !.down = Tail(@)]

\* A fatal failure ends the delivery, after another one the source is rebuilt.
Fails(c, kind) ==
    /\ client' = [c EXCEPT !.failure = kind]
    /\ source' = NewSource(IF kind = "fatal" THEN "stopped" ELSE "failed", source.baseline)

\* read_batch: the batches that arrived during a commit come first; nothing
\* is waited for while a batch is not committed.
ReadBuffered ==
    /\ Calling("none") /\ client.buffered # <<>>
    /\ source' = [source EXCEPT !.out = Append(@, Head(client.buffered))]
    /\ client' = [Settle(client) EXCEPT !.buffered = Tail(@)]
    /\ Rest /\ UNCHANGED server

BeginRead ==
    /\ Calling("none") /\ client.buffered = <<>>
    /\ \E c \in {Settle(client)} :
          IF source.out # <<>> THEN client' = c /\ UNCHANGED <<server, source>>
          ELSE /\ client' = Replenish(c) /\ Sends(CreditFor(c))
               /\ source' = [source EXCEPT !.call = "read"]
    /\ Rest

Batch(m) == [id |-> m.id, first |-> m.first, last |-> m.last]

HearsInRead ==
    /\ Calling("read") /\ server.down # <<>>
    /\ \E m \in {Head(server.down)} : \E r \in {ProcessMessage(client, m)} : \E c \in {Settle(r.client)} :
          CASE r.event = "batch" ->
                 /\ client' = r.client /\ Hears(r.up)
                 /\ source' = [source EXCEPT !.call = "none", !.out = <<Batch(m)>>]
            [] r.event = "continue" ->
                 client' = Replenish(c) /\ Hears(r.up \o CreditFor(c)) /\ UNCHANGED source
            [] OTHER -> Fails(r.client, "fatal") /\ Hears(<<>>)
    /\ Rest

Offsets(batch) == (batch.first..batch.last) \ Empty

SinkWrites ==
    /\ \E k \in 1..Len(source.out) : \E l \in Offsets(source.out[k]) : changes' = changes \cup {l}
    /\ UNCHANGED <<mode, wal, phaseRec, offsetRec, rows, complete, origin, faults,
                   server, client, source>>

\* ensure_targets_live.
TargetsLive(c, targets) ==
    \A id \in DOMAIN targets : id \in Live(c) /\ ~c.sessions[id].invalid

\* build_commit_request: one range for each session, up to its last record in
\* the batches; the ranges follow each other, which decode_response saw to.
Target(n, id) == Max({source.out[k].last : k \in {j \in 1..n : source.out[j].id = id}})

CommitOffsets ==
    /\ Calling("none")
    /\ \E n \in 1..Len(source.out) :
          /\ \A k \in 1..n : Offsets(source.out[k]) \subseteq changes
          /\ \E ids \in {{source.out[k].id : k \in 1..n}} :
             \E targets \in {[id \in ids |-> IF id \in Live(client) THEN Target(n, id) ELSE 0]} :
                IF ~TargetsLive(client, targets) THEN Fails(client, "retryable") /\ UNCHANGED server
                ELSE /\ client' = [client EXCEPT !.targets = targets]
                     /\ source' = [source EXCEPT !.call = "commit", !.count = n]
                     /\ Sends(SetToSeq({[type |-> "commit", id |-> id, commit |-> targets[id]] : id \in ids}))
    /\ Rest

\* apply_commit_ack, then the sessions that waited for it are released.
Applied(c, m) ==
    IF /\ m.id \in DOMAIN c.targets /\ m.id \in Live(c)
       /\ c.sessions[m.id].acked <= m.offset /\ m.offset <= c.sessions[m.id].through
       /\ m.offset <= c.targets[m.id]
    THEN Released([c EXCEPT !.sessions[m.id].acked = m.offset])
    ELSE Fatal(c)

Acked(c) == \A id \in DOMAIN c.targets : id \in Live(c) /\ c.sessions[id].acked >= c.targets[id]

\* The wait of commit_offsets: data is kept for later, and the commit is over
\* when every target is acknowledged, or a session of it is gone.
HearsInCommit ==
    /\ Calling("commit") /\ server.down # <<>>
    /\ \E m \in {Head(server.down)} : \E r \in {ProcessMessage(client, m)} :
       \E a \in {IF r.event = "ack" THEN Applied(r.client, m) ELSE r} :
       \E c \in {IF r.event = "batch" THEN [r.client EXCEPT !.buffered = Append(@, Batch(m))] ELSE a.client} :
          /\ Hears(a.up)
          /\ CASE a.event = "failed" -> Fails(c, "fatal")
               [] a.event # "failed" /\ Acked(c) ->
                    /\ client' = [Settle(c) EXCEPT !.targets = <<>>]
                    /\ source' = [source EXCEPT !.call = "none", !.count = 0,
                                     !.out = SubSeq(@, source.count + 1, Len(@))]
               [] a.event # "failed" /\ ~Acked(c) /\ ~TargetsLive(c, c.targets) -> Fails(c, "retryable")
               [] OTHER -> client' = c /\ UNCHANGED source
    /\ Rest

\* The stream is closed, and everything that came before was heard.
StreamEnds ==
    /\ At("running") /\ source.call # "none" /\ ~server.open /\ server.down = <<>>
    /\ Fails(client, "retryable")
    /\ Rest /\ UNCHANGED server

\* The fence is lost, or the acknowledgement does not come in time.
Interrupted ==
    /\ At("running")
    /\ Fails(client, "retryable")
    /\ AtFault /\ UNCHANGED server

\* TopicSession::connect, for the stream phase and after a failure: a new
\* stream, with all of the credit.
Connects ==
    /\ source.state \in {"connect", "failed"}
    /\ server' = [NewServer(server) EXCEPT !.up = <<[type |-> "credit", id |-> 0, amount |-> Credit]>>]
    /\ client' = [NoClient EXCEPT !.available = Credit]
    /\ source' = NewSource("running", source.baseline)
    /\ Rest

-----------------------------------------------------------------------------
(* The overlapping snapshot: OverlapExecution and OverlapSnapshot.         *)

Attempt(baseline, streaming) == [baseline |-> baseline, streaming |-> streaming]
RecordRest == UNCHANGED <<mode, wal, offsetRec, destination, origin, server, client>>

\* A write to the record: an error, after which its state is not known, ends
\* the delivery, and so does a conflict.
Persists(expected, value, next) ==
    \E o \in CompareExchange(phaseRec, expected, value) :
       /\ phaseRec' = o.record
       /\ source' = IF o.result = "applied" THEN next ELSE NewSource("stopped", None)
       /\ IF o.result = "error" THEN faults < MaxFaults /\ faults' = faults + 1 ELSE UNCHANGED faults

\* Slip: the recorded baseline is enough to stream.
ResumableAtOnce == Written(phaseRec)

\* prepare: an attempt that is recorded is resumed only in its stream phase
\* (require_streaming); otherwise the ends of the topics are the baseline.
Resumable == phaseRec.value.streaming
Prepares ==
    /\ At("new")
    /\ source' = CASE mode = "stream" -> NewSource("connect", None)
                   [] mode # "stream" /\ ~Written(phaseRec) -> NewSource("captured", wal)
                   [] mode # "stream" /\ Written(phaseRec) ->
                        IF Resumable THEN NewSource("connect", phaseRec.value.baseline)
                        ELSE NewSource("stopped", None)
    /\ Rest /\ UNCHANGED <<server, client>>

\* The baseline is recorded before a row is read.
RecordsAttempt ==
    /\ At("captured")
    /\ Persists(NoRevision, Attempt(source.baseline, FALSE), [source EXCEPT !.state = "snapshot"])
    /\ RecordRest

\* claim_snapshot and next: a table is read as it is at some later moment.
SnapshotReads ==
    /\ At("snapshot") /\ source.seen = None
    /\ source' = [source EXCEPT !.seen = wal]
    /\ Rest /\ UNCHANGED <<server, client>>

SnapshotWrites ==
    /\ At("snapshot") /\ source.seen # None
    /\ rows' = rows \cup {source.seen}
    /\ UNCHANGED <<mode, wal, phaseRec, offsetRec, complete, changes, origin, faults, server, client, source>>

\* snapshot_finished, and the pipeline of the phase is drained.
SnapshotFinishes ==
    /\ At("snapshot") /\ source.seen \in rows
    /\ complete' = complete \cup {source.seen}
    /\ source' = [source EXCEPT !.state = "finished"]
    /\ UNCHANGED <<mode, wal, phaseRec, offsetRec, rows, changes, origin, faults, server, client>>

\* complete_snapshot, with the fence still held.
CompletePhase ==
    /\ At("finished")
    /\ Persists(phaseRec.revision, Attempt(source.baseline, TRUE), [source EXCEPT !.state = "connect"])
    /\ RecordRest

\* Every failure of the snapshot ends the delivery, a lost fence included.
SnapshotFails ==
    /\ source.state \in {"captured", "snapshot", "finished"}
    /\ source' = NewSource("stopped", None)
    /\ AtFault /\ UNCHANGED <<server, client>>

\* The delivery is started again by its operator, or its process crashed.
Restarts ==
    /\ source.state # "new"
    /\ source' = NewSource("new", None) /\ client' = NoClient
    /\ AtFault /\ UNCHANGED server

-----------------------------------------------------------------------------
YdbInit ==
    /\ SharedInit
    /\ phaseRec = Unwritten(Attempt(None, FALSE)) /\ offsetRec = Unwritten([position |-> None])
    /\ server = NewServer([first |-> 0, expired |-> FALSE])
    /\ client = NoClient /\ source = NewSource("new", None)

Serves == Receives \/ SendsData \/ Acknowledges \/ \E t \in Topics : Assigns(t)
Listens == HearsInRead \/ HearsInCommit \/ StreamEnds
Pipes == ReadBuffered \/ BeginRead \/ SinkWrites \/ CommitOffsets \/ Connects
Overlaps ==
    \/ Prepares \/ RecordsAttempt \/ SnapshotReads \/ SnapshotWrites \/ SnapshotFinishes \/ CompletePhase

\* The server answers, and the source and the pipeline go on.
Progress == Serves \/ Listens \/ Pipes \/ Overlaps

YdbNext ==
    \/ Progress \/ Produces \/ Expires \/ Breaks \/ Interrupted \/ SnapshotFails \/ Restarts
    \/ \E t \in Topics, graceful \in BOOLEAN : Stops(t, graceful)

-----------------------------------------------------------------------------
YdbTypeOK ==
    /\ SharedTypeOK
    /\ source.state \in {"new", "captured", "snapshot", "finished", "connect", "running", "failed", "stopped"}
    /\ source.call \in {"none", "read", "commit"}
    /\ client.failure \in {"none", "retryable", "fatal"}
    /\ client.pending \in 0..Credit /\ client.available \in 0..Credit

\* The stream starts at a position that the complete snapshot has seen: what
\* follows it is in the stream, what precedes it in the snapshot (prepare,
\* complete_snapshot, overlap_read_offset).
OverlapCovers ==
    mode = "batch_and_stream" /\ origin # None => rows # {} /\ complete = rows /\ \A p \in rows : origin <= p

\* The credit is neither lost nor spent twice, the consumer's offset never
\* passes a record that was not delivered, and as long as no partition is
\* taken away and no unread record expires, a server that keeps to the
\* protocol never meets a fatal failure (consume_read_response_credit,
\* overlap_read_offset, filter_bootstrap_acks, apply_commit_ack).
Granted(up) ==
    LET sum[i \in 0..Len(up)] ==
            IF i = 0 THEN 0 ELSE sum[i - 1] + (IF up[i].type = "credit" THEN up[i].amount ELSE 0)
    IN  sum[Len(up)]
CreditKept ==
    client.available =
        server.credit + Granted(server.up) + Len(SelectSeq(server.down, LAMBDA m : m.type = "data"))
TopicSound ==
    /\ origin # None => \A l \in Lsn : origin < l /\ l <= Resume => l \in changes
    /\ client.failure = "fatal" => server.taken \/ server.expired
    /\ At("running") => CreditKept /\ client.available + client.pending = Credit
=============================================================================
