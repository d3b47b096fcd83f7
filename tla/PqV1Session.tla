---------------------------- MODULE PqV1Session -----------------------------
(***************************************************************************)
(* The PQv1 source of Logbroker: one bidirectional stream for a partition, *)
(* served by three tasks (responses, read credit, data admission) that     *)
(* meet in channels of capacity one, and a source that reads batches and   *)
(* waits for the acknowledgement of commit cookies.                        *)
(*                                                                         *)
(* The positions of Replication are the offsets of the partition, and the  *)
(* record of the position to resume from is the consumer's offset, which   *)
(* the server keeps.  The server conforms to the protocol: it answers one  *)
(* Read with one batch, in the order of the offsets, and acknowledges      *)
(* every committed cookie once.                                            *)
(***************************************************************************)
EXTENDS Replication, Sequences, FiniteSetsExt

CONSTANTS
    MaxBatch,     \* messages of one batch
    MaxOut        \* batches that the pipeline holds

VARIABLES
    server,       \* the server's side of the session, and the two directions of the stream
    client,       \* what the tasks of the session share
    source        \* the pipeline's side

pqVars == <<sharedVars, server, client, source>>

NoWaiter == [state |-> "none", remaining |-> 0]

\* InitRequest is the first thing sent.
NewServer == [phase |-> "new", open |-> TRUE, up |-> <<[type |-> "init"]>>, down |-> <<>>,
              next |-> 0, reads |-> 0, ends |-> <<>>, owed |-> {}]
NewClient == [init |-> FALSE, active |-> FALSE, expected |-> 0, responding |-> TRUE,
              leaving |-> FALSE, credit |-> FALSE, outstanding |-> FALSE,
              data |-> <<>>, admitting |-> <<>>, parts |-> <<>>,
              pending |-> {}, waiter |-> NoWaiter, failure |-> "none", cancelled |-> FALSE]
NewSource == [state |-> "running", out |-> <<>>, committing |-> 0]

SendUp(m) == server' = [server EXCEPT !.up = Append(@, m)]
Committed == IF Written(offsetRec) THEN offsetRec.value.position ELSE 0
RecordOffset(p) == offsetRec' = [revision |-> 0, value |-> [position |-> p]]

\* broadcast_failure: a fatal failure is kept, and the session is cancelled.
Broadcast(c, kind) ==
    [c EXCEPT !.failure = IF @ = "fatal" THEN @ ELSE kind, !.cancelled = TRUE]

\* The response task ends with a failure.
Ended(c, kind) == [Broadcast(c, kind) EXCEPT !.responding = FALSE, !.leaving = FALSE]

Rest == UNCHANGED <<mode, wal, phaseRec, offsetRec, destination, origin, faults>>
AtFault ==
    /\ faults < MaxFaults /\ faults' = faults + 1
    /\ UNCHANGED <<mode, wal, phaseRec, offsetRec, destination, origin>>

-----------------------------------------------------------------------------
(* The server.                                                             *)

Produces ==
    /\ wal < MaxLsn
    /\ wal' = wal + 1
    /\ UNCHANGED <<mode, phaseRec, offsetRec, destination, origin, faults, server, client, source>>

\* The server takes the next request.  StartRead carries the offset to record
\* as committed; a commit counts while the partition is assigned.
Receives ==
    /\ server.open /\ server.up # <<>>
    /\ LET m == Head(server.up)
           s == [server EXCEPT !.up = Tail(@)]
           counts == server.phase \in {"reading", "releasing"}
       IN  /\ server' =
                CASE m.type = "init"     -> [s EXCEPT !.phase = "ready", !.down = Append(@, m)]
                  [] m.type = "start"    -> [s EXCEPT !.phase = IF @ = "assigned" THEN "reading" ELSE @,
                                                      !.next = m.offset + 1]
                  [] m.type = "read"     -> [s EXCEPT !.reads = @ + 1]
                  [] m.type = "commit"   -> [s EXCEPT !.owed = IF counts THEN @ \cup m.cookies ELSE @]
                  [] m.type = "released" -> [s EXCEPT !.phase = "released"]
           /\ CASE m.type = "start" ->
                     /\ RecordOffset(m.offset)
                     /\ origin' = IF origin = None THEN m.offset ELSE origin
                [] m.type = "commit" /\ counts ->
                     RecordOffset(server.ends[Max(m.cookies)]) /\ UNCHANGED origin
                [] OTHER -> UNCHANGED <<offsetRec, origin>>
    /\ UNCHANGED <<mode, wal, phaseRec, destination, faults, client, source>>

Assigns ==
    /\ server.open /\ server.phase = "ready"
    /\ server' = [server EXCEPT !.phase = "assigned",
                     !.down = Append(@, [type |-> "assigned", offset |-> Committed])]
    /\ Rest /\ UNCHANGED <<client, source>>

\* One batch for one Read.
SendsData ==
    /\ server.open /\ server.phase = "reading" /\ server.reads > 0
    /\ \E last \in server.next..wal :
          /\ last < server.next + MaxBatch
          /\ server' = [server EXCEPT !.reads = @ - 1, !.next = last + 1, !.ends = Append(@, last),
                !.down = Append(@, [type |-> "data", cookie |-> Len(server.ends) + 1,
                                    first |-> server.next, last |-> last])]
    /\ Rest /\ UNCHANGED <<client, source>>

\* Cookies are acknowledged in their order, together or one by one.
Acknowledges ==
    /\ server.open
    /\ \E last \in server.owed :
          LET cookies == {k \in server.owed : k <= last}
          IN  server' = [server EXCEPT !.owed = @ \ cookies,
                            !.down = Append(@, [type |-> "committed", cookies |-> cookies])]
    /\ Rest /\ UNCHANGED <<client, source>>

\* The balancer takes the partition away.
Releases(forceful) ==
    /\ server.open /\ server.phase \in {"assigned", "reading"}
    /\ server' = [server EXCEPT !.phase = IF forceful THEN "released" ELSE "releasing",
                     !.down = Append(@, [type |-> "release", forceful |-> forceful])]
    /\ AtFault /\ UNCHANGED <<client, source>>

Breaks ==
    /\ server.open
    /\ server' = [server EXCEPT !.open = FALSE]
    /\ AtFault /\ UNCHANGED <<client, source>>

-----------------------------------------------------------------------------
(* The response task: run_response_stream.                                 *)

\* request_next_read: the channel holds one signal.
NextRead(c) == IF c.credit THEN Broadcast(c, "retryable") ELSE [c EXCEPT !.credit = TRUE]

\* acknowledge_committed: the cookies of the waiting commit; its last one
\* decides, unless the commit was abandoned.
Acknowledged(c, cookies) ==
    LET left == c.waiter.remaining - Cardinality(cookies)
    IN  [c EXCEPT !.pending = @ \ cookies,
                  !.waiter = IF @.state = "abandoned" THEN @
                             ELSE [state |-> IF left = 0 THEN "acknowledged" ELSE @.state,
                                   remaining |-> left]]

\* Slip: an abandoned commit leaves no trace in the queues of cookies.
AbandonForgotten(c) == [c EXCEPT !.waiter.state = "abandoned", !.pending = {}]

\* abandon_pending_commit: the cookies stay, for a late acknowledgement.
Abandoned(c) == [c EXCEPT !.waiter.state = "abandoned"]

\* What a response does to the shared state.
Heard(c, m) ==
    CASE m.type = "init" /\ ~c.init -> NextRead([c EXCEPT !.init = TRUE])
      [] m.type = "assigned" /\ c.init /\ ~c.active ->
           [c EXCEPT !.active = TRUE, !.expected = m.offset + 1]
      [] /\ m.type = "data" /\ c.init /\ c.outstanding /\ c.active
         /\ m.first = c.expected /\ c.data = <<>> ->
           [c EXCEPT !.outstanding = FALSE, !.expected = m.last + 1, !.data = <<m>>]
      [] m.type = "committed" /\ c.init /\ m.cookies \subseteq c.pending -> Acknowledged(c, m.cookies)
      [] m.type = "release" /\ c.init /\ c.active ->
           IF m.forceful THEN Ended(c, "retryable") ELSE [c EXCEPT !.active = FALSE, !.leaving = TRUE]
      [] OTHER -> Ended(c, "fatal")

\* The select is not biased: a response may be taken after the cancellation.
Responds ==
    /\ client.responding /\ ~client.leaving /\ server.down # <<>>
    /\ LET m == Head(server.down)
           c == Heard(client, m)
           s == [server EXCEPT !.down = Tail(@)]
       IN  /\ client' = IF c.failure # client.failure THEN [c EXCEPT !.responding = FALSE] ELSE c
           /\ server' =
                CASE m.type = "assigned" /\ c.responding ->
                       [s EXCEPT !.up = Append(@, [type |-> "start", offset |-> m.offset])]
                  [] m.type = "release" /\ c.leaving ->
                       [s EXCEPT !.up = Append(@, [type |-> "released"])]
                  [] OTHER -> s
    /\ Rest /\ UNCHANGED source

\* The Released request was handed to the transport, or was not in time.
Leaves ==
    /\ client.leaving
    /\ client' = Ended(client, "retryable")
    /\ Rest /\ UNCHANGED <<server, source>>

ResponsesEnd ==
    /\ client.responding /\ ~client.leaving
    /\ \/ client.cancelled /\ client' = [client EXCEPT !.responding = FALSE]
       \/ ~server.open /\ server.down = <<>> /\ client' = Ended(client, "retryable")
    /\ Rest /\ UNCHANGED <<server, source>>

\* No InitResponse in time, or a task of the session panics (spawn_session_task).
SessionFails ==
    /\ \/ client.responding /\ ~client.init
       \/ ~client.cancelled /\ client.init
    /\ client' = Ended(client, "retryable")
    /\ AtFault /\ UNCHANGED <<server, source>>

-----------------------------------------------------------------------------
(* The tasks of read credit and of data admission.                         *)

\* send_read_request_with_credit: one Read is outstanding at a time.
SendsRead ==
    /\ ~client.cancelled /\ client.credit
    /\ IF client.outstanding
       THEN client' = Broadcast([client EXCEPT !.credit = FALSE], "retryable") /\ UNCHANGED server
       ELSE /\ client' = [client EXCEPT !.credit = FALSE, !.outstanding = TRUE]
            /\ SendUp([type |-> "read"])
    /\ Rest /\ UNCHANGED source

Admits ==
    /\ ~client.cancelled /\ client.data # <<>> /\ client.admitting = <<>>
    /\ client' = [client EXCEPT !.data = <<>>, !.admitting = @ \o client.data]
    /\ Rest /\ UNCHANGED <<server, source>>

\* Slip: the next batch is asked for before this one is dispatched.
DispatchesEarly ==
    /\ ~client.cancelled /\ client.admitting # <<>>
    /\ \/ /\ client.parts = <<>>
          /\ client' = [client EXCEPT !.admitting = <<>>, !.parts = client.admitting]
       \/ client' = NextRead(client)
    /\ Rest /\ UNCHANGED <<server, source>>

\* dispatch_parts waits for room in the channel; then the next Read.
Dispatches ==
    /\ ~client.cancelled /\ client.admitting # <<>> /\ client.parts = <<>>
    /\ client' = NextRead([client EXCEPT !.admitting = <<>>, !.parts = client.admitting])
    /\ Rest /\ UNCHANGED <<server, source>>

-----------------------------------------------------------------------------
(* The source, which the pipeline asks to read or to commit, one at a time. *)

Idling == source.state = "running" /\ source.committing = 0

\* A fatal failure ends the delivery, another one the session.
Fails(kind) ==
    source' = [source EXCEPT !.state = IF kind = "fatal" THEN "stopped" ELSE "failed",
                             !.committing = 0]

ReadBatch ==
    /\ Idling
    /\ \/ /\ client.failure # "none"
          /\ Fails(client.failure) /\ UNCHANGED client
       \/ /\ client.failure = "none" /\ client.parts # <<>> /\ Len(source.out) < MaxOut
          /\ source' = [source EXCEPT !.out = @ \o client.parts]
          /\ client' = [client EXCEPT !.parts = <<>>]
    /\ Rest /\ UNCHANGED server

Offsets(batch) == (batch.first..batch.last) \ Empty

SinkWrites ==
    /\ \E k \in 1..Len(source.out) : \E l \in Offsets(source.out[k]) : changes' = changes \cup {l}
    /\ UNCHANGED <<mode, wal, phaseRec, offsetRec, rows, complete, origin, faults,
                   server, client, source>>

\* commit: the cookies of a durable prefix.  A session that was cancelled
\* accepts no commit.
CommitOffsets ==
    /\ Idling
    /\ \E n \in 1..Len(source.out) :
          LET cookies == {source.out[k].cookie : k \in 1..n}
          IN  /\ \A k \in 1..n : Offsets(source.out[k]) \subseteq changes
              /\ IF client.cancelled
                 THEN Fails(client.failure) /\ UNCHANGED <<server, client>>
                 ELSE /\ source' = [source EXCEPT !.committing = n]
                      /\ client' = [client EXCEPT !.pending = @ \cup cookies,
                             !.waiter = [state |-> "waiting", remaining |-> n]]
                      /\ SendUp([type |-> "commit", cookies |-> cookies])
    /\ Rest

\* The acknowledgement wins whenever it came before the abandonment.
CommitAcknowledged ==
    /\ source.committing > 0 /\ client.waiter.state = "acknowledged"
    /\ source' = [source EXCEPT !.committing = 0,
                     !.out = SubSeq(@, source.committing + 1, Len(@))]
    /\ client' = [client EXCEPT !.waiter = NoWaiter]
    /\ Rest /\ UNCHANGED server

CommitStopped ==
    /\ source.committing > 0 /\ client.waiter.state = "waiting" /\ client.cancelled
    /\ client' = Abandoned(client)
    /\ Fails(client.failure)
    /\ Rest /\ UNCHANGED server

CommitTimesOut ==
    /\ source.committing > 0 /\ client.waiter.state = "waiting"
    /\ client' = Broadcast(Abandoned(client), "retryable")
    /\ Fails("retryable")
    /\ AtFault /\ UNCHANGED server

\* The runner builds the source again, and the process starts again after a
\* crash: a new stream, with what the server has recorded.
Reconnect == server' = NewServer /\ client' = NewClient /\ source' = NewSource

Rebuilds == source.state = "failed" /\ Reconnect /\ Rest
Crashes == source.state # "stopped" /\ Reconnect /\ AtFault

-----------------------------------------------------------------------------
PqInit ==
    /\ SharedInit
    /\ phaseRec = Unwritten(0) /\ offsetRec = Unwritten([position |-> None])
    /\ server = NewServer /\ client = NewClient /\ source = NewSource

Serves == Receives \/ Assigns \/ SendsData \/ Acknowledges
Listens == Responds \/ Leaves \/ ResponsesEnd
Feeds == SendsRead \/ Admits \/ Dispatches
Commits == CommitOffsets \/ CommitAcknowledged \/ CommitStopped
Reads == ReadBatch \/ Rebuilds

\* The server answers, and the tasks of the session and the pipeline go on.
Progress == Serves \/ Listens \/ Feeds \/ Reads \/ SinkWrites \/ Commits

PqNext ==
    \/ Progress \/ Produces \/ (\E forceful \in BOOLEAN : Releases(forceful)) \/ Breaks
    \/ SessionFails \/ CommitTimesOut \/ Crashes

-----------------------------------------------------------------------------
PqTypeOK ==
    /\ SharedTypeOK
    /\ server.phase \in {"new", "ready", "assigned", "reading", "releasing", "released"}
    /\ client.failure \in {"none", "retryable", "fatal"}
    /\ client.waiter.state \in {"none", "waiting", "acknowledged", "abandoned"}
    /\ source.state \in {"running", "failed", "stopped"}
    /\ Len(client.data) <= 1 /\ Len(client.admitting) <= 1 /\ Len(client.parts) <= 1

\* A server that keeps to the protocol never meets a fatal failure, whatever
\* is cancelled, abandoned or late; and the right to ask for the next batch is
\* with one task at a time and is never lost (consume_read_credit,
\* request_next_read, acknowledge_committed).
Rights ==
    Len(client.data) + Len(client.admitting)
      + Cardinality({flag \in {"credit", "outstanding"} : client[flag]})
SessionSound ==
    /\ client.failure # "fatal"
    /\ client.init /\ ~client.cancelled => Rights = 1
=============================================================================
