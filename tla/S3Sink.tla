------------------------------- MODULE S3Sink -------------------------------
(***************************************************************************)
(* The S3 sink actor of one partition: rows are routed into the objects of *)
(* an epoch, an epoch is closed by deterministic limits (or by the wall    *)
(* clock, or by the end of the input), recorded as OPEN in durable         *)
(* storage, uploaded, recorded as CLOSED, and then acknowledged.           *)
(*                                                                         *)
(* An epoch is the set of its messages.  A message has one row on each of  *)
(* its routes (table and partition path), so sizes are counted in rows.    *)
(* The content of an object is the set of messages with a row in it.  A    *)
(* PUT that fails is retried with the same bytes: an object in flight has  *)
(* been stored or not when the session stops.                              *)
(***************************************************************************)
EXTENDS SinkSession, DurableStorage, SequencesExt

CONSTANTS
    Setups,           \* the deliveries considered: [routes, rotate, interval, wallClock,
                      \* fails], interval the record_time_interval, 0 if there is none
    MainRoutes,       \* the routes of main tables; the others belong to the DLQ
    Times,            \* the record time of each message
    MaxRows,          \* rotation.max_rows and max_bytes
    MaxEpochRows,     \* buffering.max_epoch_bytes
    MaxEpochBuffers,  \* buffering.max_epoch_buffers
    MaxBuffered,      \* buffering.max_buffered_bytes; at least MaxEpochRows
    MaxPending,       \* buffering.max_pending_upload_objects
    MaxInFlight       \* upload.max_in_flight_objects

VARIABLES
    setup,            \* the delivery
    inputClosed,      \* the actor has seen the end of its input
    todo,             \* pending_delivery: its messages not yet routed
    actor,            \* the epochs, see Idle
    inflight,         \* the objects of active uploads
    barrier,          \* memory_barrier_epoch
    bucket,           \* S3: the content of each key
    journal           \* durable storage: the record of each set of object keys

s3Vars == <<sessionVars, setup, inputClosed, todo, actor, inflight, barrier, bucket, journal>>

Idle == [open   |-> {},    \* epoch
         closed |-> {},    \* closed_epochs: [epoch, left], left the objects to upload
         ready  |-> <<>>,  \* objects to upload, in order
         done   |-> {},    \* messages of finalized epochs
         shut   |-> {},    \* the epoch the last step closed
         result |-> "ok"]

-----------------------------------------------------------------------------
(* Objects and the rotation of epochs.                                     *)

Rows(epoch, route) == {m \in epoch : route \in setup.routes[m]}
RoutesOf(epoch) == UNION {setup.routes[m] : m \in epoch}
RowCount(epoch) == Cardinality({p \in epoch \X RoutesOf(epoch) : p[2] \in setup.routes[p[1]]})

\* ObjectKey::for_json_object: the route and the first offset.
Objects(epoch) ==
    {[key |-> <<r, Min(Rows(epoch, r))>>, content |-> Rows(epoch, r)] : r \in RoutesOf(epoch)}
Keys(objects) == {o.key : o \in objects}

\* accept_message_group: message m does not belong into the open epoch.
MainOf(m) == setup.routes[m] \cap MainRoutes
PathChanged(epoch, m) ==
    LET mains == {n \in epoch : MainOf(n) # {}}
    IN  setup.rotate /\ MainOf(m) # {} /\ mains # {} /\ MainOf(Max(mains)) # MainOf(m)
TimeRotated(epoch, m) ==
    /\ setup.interval > 0 /\ epoch # {}
    /\ Times[m] - Times[Min(epoch)] >= setup.interval
Rotates(epoch, m) == PathChanged(epoch, m) \/ TimeRotated(epoch, m)

\* The same function: the epoch is full with its last message m.
ObjectLimitReached(epoch, m) ==
    \E r \in setup.routes[m] : Cardinality(Rows(epoch, r)) >= MaxRows
BudgetReached(epoch) ==
    \/ Cardinality(RoutesOf(epoch)) > MaxEpochBuffers
    \/ RowCount(epoch) >= MaxEpochRows
PendingObjects(s) == Len(s.ready) + Cardinality(inflight)

\* Slip: uploads under way close the epoch as well.
FullIfUploadsPend(s, m) ==
    ObjectLimitReached(s.open, m) \/ BudgetReached(s.open) \/ PendingObjects(s) > 0
Full(s, m) == ObjectLimitReached(s.open, m) \/ BudgetReached(s.open)

-----------------------------------------------------------------------------
(* EpochJournal: its functions give the possible [record, result], where   *)
(* the result is what the caller does next.  Nobody else writes the record *)
(* of an epoch, so that there are no conflicts.                            *)

Record(j, objects) ==
    IF Keys(objects) \in DOMAIN j THEN j[Keys(objects)] ELSE Unwritten(<<>>)
Manifest(state, objects) == [state |-> state, objects |-> objects]

\* decode_and_validate
Matches(record, objects) == record.value.objects = objects

EnsureOpen(record, objects) ==
    IF ~Written(record)
    THEN {Outcome(o.record, IF o.result = "applied" THEN "upload" ELSE "fatal") :
            o \in CompareExchange(record, NoRevision, Manifest("open", objects))}
    ELSE {Outcome(record, IF ~Matches(record, objects) THEN "mismatch"
                          ELSE IF record.value.state = "open" THEN "upload" ELSE "closed")}

MarkClosed(record, objects) ==
    IF ~Matches(record, objects) THEN {Outcome(record, "mismatch")}
    ELSE IF record.value.state = "closed" THEN {Outcome(record, "closed")}
    ELSE {Outcome(o.record, IF o.result = "applied" THEN "closed" ELSE "fatal") :
            o \in CompareExchange(record, record.revision, Manifest("closed", objects))}

-----------------------------------------------------------------------------
(* What the operations of the actor make of [actor, journal].              *)

State(s, j) == [actor |-> s, journal |-> j]

\* close_epoch.  An epoch that the journal knows as CLOSED is finalized at
\* once (complete_durable_object, finalize_epoch).
CloseEpoch(s, j) ==
    LET objects == Objects(s.open)
        taken == [s EXCEPT !.open = {}, !.shut = s.open]
        next(result) ==
            CASE result = "upload" -> [taken EXCEPT !.ready = @ \o SetToSeq(objects),
                                                    !.closed = @ \cup {[epoch |-> s.open, left |-> objects]}]
              [] result = "closed" -> [taken EXCEPT !.done = @ \cup s.open]
              [] OTHER -> [taken EXCEPT !.result = result]
    IN  IF s.open = {} THEN {State(s, j)}
        ELSE {State(next(o.result), (Keys(objects) :> o.record) @@ j) :
                o \in EnsureOpen(Record(j, objects), objects)}

\* accept_message_group: close before the message, add it, close after it.
AcceptMessageGroup(s, j, m) ==
    LET add(t) ==
            LET with == [t.actor EXCEPT !.open = @ \cup {m}]
            IN  IF t.actor.result # "ok" THEN {t}
                ELSE IF Full(with, m) THEN CloseEpoch(with, t.journal)
                ELSE {State(with, t.journal)}
    IN  UNION {add(t) : t \in IF Rotates(s.open, m) THEN CloseEpoch(s, j) ELSE {State(s, j)}}

\* complete_upload
CompleteObject(s, o) ==
    [s EXCEPT !.closed = {[e EXCEPT !.left = @ \ {o}] : e \in s.closed}]

\* Slip: an epoch counts as uploaded when its first object is.
CompletedByFirst(s) == {e \in s.closed : e.left # Objects(e.epoch)}
\* The epochs whose journal record is due.
Completed(s) == {e \in s.closed : e.left = {}}

\* finalize_epoch
Finalize(s, e) == [s EXCEPT !.closed = @ \ {e}, !.done = @ \cup e.epoch]

-----------------------------------------------------------------------------
(* The loop of run_actor.                                                  *)

\* The rows of a delivery are durable when their epochs are finalized; a
\* message without rows is complete when its delivery is accepted.
Durable ==
    actor.done \cup {m \in Message : m <= LastHanded /\ setup.routes[m] = {}}

Buffered ==
    LET sizes(objects) == MapThenSumSet(LAMBDA o : Cardinality(o.content), objects)
    IN  RowCount(actor.open) + sizes(Range(actor.ready)) + sizes(inflight)
BelowLimits == Buffered < MaxBuffered /\ PendingObjects(actor) < MaxPending
Blocked == \E e \in actor.closed : e.epoch = barrier

AtEnd == inputClosed /\ todo = {}
FlushDue == AtEnd /\ actor.open # {}
UploadDue == actor.ready # <<>> /\ Cardinality(inflight) < MaxInFlight
\* The loop has reached the admission of messages ...
Admitting == Runs /\ Completed(actor) = {} /\ ~FlushDue /\ ~UploadDue
CanResume == todo # {} /\ BelowLimits /\ ~Blocked
\* ... and its select, with or without room for a delivery.
Selecting == Admitting /\ ~CanResume
CanAccept == todo = {} /\ ~inputClosed /\ ~Blocked /\ BelowLimits

\* A step of the actor that may touch the journal takes effect.
Take(t) ==
    /\ actor' = t.actor
    /\ journal' = t.journal
    /\ session' = IF t.actor.result = "ok" THEN session ELSE t.actor.result
    /\ IF t.actor.result = "fatal" THEN Fault ELSE NoFault
    /\ UNCHANGED <<committed, base, handed, input, setup>>

Fresh == [actor EXCEPT !.shut = {}]

EmitCommitted ==
    /\ Emit(Durable)
    /\ UNCHANGED <<setup, inputClosed, todo, actor, inflight, barrier, bucket, journal>>

\* close_completed_epoch_journal
CloseJournal ==
    /\ Runs
    /\ \E e \in Completed(actor) :
          LET objects == Objects(e.epoch)
          IN  \E o \in MarkClosed(Record(journal, objects), objects) :
                 Take(State(IF o.result = "closed" THEN Finalize(Fresh, e)
                            ELSE [Fresh EXCEPT !.result = o.result],
                            (Keys(objects) :> o.record) @@ journal))
    /\ UNCHANGED <<inputClosed, todo, inflight, barrier, bucket>>

\* The end of the input closes the open epoch.
Flush ==
    /\ Runs /\ Completed(actor) = {} /\ FlushDue
    /\ \E t \in CloseEpoch(Fresh, journal) : Take(t)
    /\ UNCHANGED <<inputClosed, todo, inflight, barrier, bucket>>

StartUpload ==
    /\ Runs /\ Completed(actor) = {} /\ ~FlushDue /\ UploadDue
    /\ inflight' = inflight \cup {Head(actor.ready)}
    /\ actor' = [actor EXCEPT !.ready = Tail(@)]
    /\ UNCHANGED <<sessionVars, setup, inputClosed, todo, barrier, bucket, journal>>

\* accept_next_message_group: when memory is short, the next message waits
\* for the epoch that this one closed.
AcceptGroup ==
    /\ Admitting /\ CanResume
    /\ \E t \in AcceptMessageGroup(Fresh, journal, Min(todo)) :
          /\ Take(t)
          /\ barrier' \in {{}, t.actor.shut}
    /\ todo' = todo \ {Min(todo)}
    /\ UNCHANGED <<inputClosed, inflight, bucket>>

\* is_transform_pressured turned false.
MemoryReleased ==
    /\ Runs /\ Blocked
    /\ barrier' = {}
    /\ UNCHANGED <<sessionVars, setup, inputClosed, todo, actor, inflight, bucket, journal>>

\* complete_upload
UploadCompletes ==
    /\ Selecting
    /\ \E o \in inflight :
          /\ inflight' = inflight \ {o}
          /\ bucket' = (o.key :> o.content) @@ bucket
          /\ actor' = CompleteObject(actor, o)
    /\ UNCHANGED <<sessionVars, setup, inputClosed, todo, barrier, journal>>

\* prepare_delivery
AcceptDelivery ==
    /\ Selecting /\ CanAccept
    /\ \E last \in Message :
          /\ Hand(last)
          /\ todo' = {m \in (LastHanded + 1)..last : setup.routes[m] # {}}
    /\ UNCHANGED <<setup, inputClosed, actor, inflight, barrier, bucket, journal>>

SeesEndOfInput ==
    /\ Selecting /\ CanAccept
    /\ input # "open"
    /\ inputClosed' = TRUE
    /\ UNCHANGED <<sessionVars, setup, todo, actor, inflight, barrier, bucket, journal>>

WallClock ==
    /\ Selecting
    /\ setup.wallClock /\ todo = {} /\ actor.open # {}
    /\ \E t \in CloseEpoch(Fresh, journal) : Take(t)
    /\ UNCHANGED <<inputClosed, todo, inflight, barrier, bucket>>

Ends ==
    /\ Admitting
    /\ AtEnd /\ inflight = {} /\ actor.ready = <<>>
    /\ Through(Durable) = committed
    /\ Returns
    /\ UNCHANGED <<setup, inputClosed, todo, actor, inflight, barrier, bucket, journal>>

InputFinishes ==
    /\ SourceFinishes
    /\ UNCHANGED <<setup, inputClosed, todo, actor, inflight, barrier, bucket, journal>>

InputFails ==
    /\ setup.fails
    /\ SourceFails
    /\ UNCHANGED <<setup, inputClosed, todo, actor, inflight, barrier, bucket, journal>>

\* Uploads are cancelled (cancel_and_drain_uploads); each was stored or not.
Stop ==
    /\ Stops
    /\ \E stored \in SUBSET inflight :
          bucket' = [k \in Keys(stored) |-> (CHOOSE o \in stored : o.key = k).content] @@ bucket
    /\ UNCHANGED <<setup, inputClosed, todo, actor, inflight, barrier, journal>>

\* S3Sink::new
Restart ==
    /\ Restarts
    /\ inputClosed' = FALSE /\ todo' = {} /\ actor' = Idle /\ inflight' = {} /\ barrier' = {}
    /\ UNCHANGED <<setup, bucket, journal>>

S3Init ==
    /\ SessionInit
    /\ setup \in Setups
    /\ inputClosed = FALSE /\ todo = {} /\ actor = Idle /\ inflight = {} /\ barrier = {}
    /\ bucket = <<>> /\ journal = <<>>

Loop ==
    \/ EmitCommitted \/ CloseJournal \/ Flush \/ StartUpload \/ AcceptGroup
    \/ UploadCompletes \/ AcceptDelivery \/ SeesEndOfInput \/ Ends
    \/ InputFinishes \/ Restart

S3Next == Loop \/ MemoryReleased \/ WallClock \/ InputFails \/ Stop

S3Spec == S3Init /\ [][S3Next]_s3Vars /\ WF_s3Vars(Loop)

-----------------------------------------------------------------------------

S3TypeOK ==
    /\ SessionTypeOK
    /\ todo \subseteq Message /\ actor.open \subseteq Message /\ actor.done \subseteq Message
    /\ Cardinality(inflight) <= MaxInFlight
    /\ \A e \in actor.closed : e.left \subseteq Objects(e.epoch)

\* Every row of a committed message is in an object of its route: the source
\* moves on only behind objects that are durable (finalize_epoch).
CommittedIsStored ==
    \A m \in 1..committed : \A r \in setup.routes[m] :
        \E k \in DOMAIN bucket : k[1] = r /\ m \in bucket[k]

\* Everything is committed, or a write of the journal failed, or the replay
\* disagrees with the journal (decode_and_validate).  With limits that depend
\* on the messages alone it does not.
CommittedOrRefused ==
    \/ committed = NumMessages \/ session = "fatal"
    \/ session = "mismatch" /\ (setup.wallClock \/ setup.fails)
=============================================================================
