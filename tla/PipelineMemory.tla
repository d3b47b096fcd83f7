--------------------------- MODULE PipelineMemory ---------------------------
(***************************************************************************)
(* The admission budget of one partition (transferia-core memory.rs) and   *)
(* the three actors that use it: the reader reserves source bytes, the     *)
(* parser exchanges them for transform bytes, the sink releases those.     *)
(* The budget is a set of atomic counters and a Notify, so every atomic    *)
(* operation is a step of its own.  `registered` holds the actors whose    *)
(* Notified future was created after the last notify_waiters.              *)
(*                                                                         *)
(* Batch i is one entry of Source (its bytes), Bound (the estimate of its  *)
(* output) and Output (the bytes of its output, 0 if it has none).  A      *)
(* progress source reserves what it receives (Wire), grows the lease while *)
(* received and decoded bytes overlap, and shrinks it to the decoded ones. *)
(***************************************************************************)
EXTENDS Integers, Sequences, FiniteSets, FiniteSetsExt

CONSTANTS
    Limit,      \* pipeline memory limit
    Source,     \* sequence of source batch sizes
    Wire,       \* sequence of the sizes a progress source receives, to decode
    Bound,      \* sequence of output_memory_bound results
    Output,     \* sequence of exact output sizes
    Capacity,   \* CHANNEL_CAPACITY
    Setups      \* the sources and sinks: a set of [progress, timer] records

Batches == DOMAIN Source

VARIABLES
    setup,                              \* the kind of source and sink, chosen once
    used, source_used, transform_used,  \* the byte counters
    progress_source_active,             \* 0 or 1
    active_transform,                   \* estimate of the running transform
    registered,                         \* actors with a live Notified
    rpc, seen, rnext,                   \* reader: step, loaded `used`, batch
    readCh,                             \* reader -> parser
    ppc, cur,                           \* parser: step and batch
    deliveryCh,                         \* parser -> sink
    spc, flushing, retained             \* sink: step, batch, batches held

counters == <<used, source_used, transform_used, progress_source_active, active_transform>>
readerVars == <<rpc, seen, rnext>>
parserVars == <<ppc, cur>>
sinkVars == <<spc, flushing, retained>>
vars == <<setup, counters, registered, readerVars, readCh, parserVars, deliveryCh, sinkVars>>

\* The source uses reserve_progress_source, not reserve; the sink also
\* flushes when a deadline passes.
Progress == setup.progress
Timer == setup.timer

Register(a) == registered' = registered \cup {a}
NotifyWaiters == registered' = {}
Notified(a) == a \notin registered

\* Slip: retained output that is exactly the limit is no pressure.
PressuredAbove == transform_used > Limit

\* is_transform_pressured; admit_active_transform compares the same counter.
Pressured == transform_used >= Limit

-----------------------------------------------------------------------------
(* The reader: reserve, or reserve_progress_source *)

ReaderUnchanged == UNCHANGED <<transform_used, active_transform, parserVars,
                               deliveryCh, sinkVars>>

ReaderRegisters ==
    /\ rpc = "register" /\ rnext \in Batches
    /\ Register("reader")
    /\ rpc' = IF Progress THEN "claim" ELSE "load"
    /\ UNCHANGED <<used, source_used, progress_source_active, seen, rnext, readCh>>
    /\ ReaderUnchanged

\* Slip: an oversized batch is admitted beside others.
FitsLoose(u, bytes) == IF bytes > Limit THEN u < Limit ELSE u + bytes <= Limit

\* reserve: an oversized batch needs the whole budget.
Fits(u, bytes) == IF bytes > Limit THEN u = 0 ELSE u + bytes <= Limit

ReaderLoads ==
    /\ rpc = "load"
    /\ seen' = used
    /\ rpc' = IF Fits(used, Source[rnext]) THEN "exchange" ELSE "sleep"
    /\ UNCHANGED <<used, source_used, progress_source_active, registered, rnext, readCh>>
    /\ ReaderUnchanged

\* compare_exchange_weak may also fail for no reason.
ReaderExchanges ==
    /\ rpc = "exchange"
    /\ \/ /\ used = seen /\ used' = used + Source[rnext] /\ rpc' = "account"
       \/ /\ rpc' = "register" /\ UNCHANGED used
    /\ UNCHANGED <<source_used, progress_source_active, registered, seen, rnext, readCh>>
    /\ ReaderUnchanged

\* Slip: a progress read does not wait for the lease of the previous one.
ReaderClaimsFreely ==
    /\ rpc = "claim"
    /\ progress_source_active' = 1 /\ rpc' = "charge"
    /\ UNCHANGED <<used, source_used, registered, seen, rnext, readCh>>
    /\ ReaderUnchanged

ReaderClaims ==
    /\ rpc = "claim"
    /\ IF progress_source_active = 0
       THEN progress_source_active' = 1 /\ rpc' = "charge"
       ELSE rpc' = "sleep" /\ UNCHANGED progress_source_active
    /\ UNCHANGED <<used, source_used, registered, seen, rnext, readCh>>
    /\ ReaderUnchanged

ReaderCharges ==
    /\ rpc = "charge"
    /\ used' = used + Wire[rnext] /\ rpc' = "account"
    /\ UNCHANGED <<source_used, progress_source_active, registered, seen, rnext, readCh>>
    /\ ReaderUnchanged

ReaderAccounts ==
    /\ rpc = "account"
    /\ IF Progress THEN source_used' = source_used + Wire[rnext] /\ rpc' = "grow"
                   ELSE source_used' = source_used + Source[rnext] /\ rpc' = "send"
    /\ UNCHANGED <<used, progress_source_active, registered, seen, rnext, readCh>>
    /\ ReaderUnchanged

\* Slip: the new size is added, not the difference.
GrownWhole == Wire[rnext] + Source[rnext]

\* grow_progress_source_to(received + decoded): what is added to the counters.
Grown == (Wire[rnext] + Source[rnext]) - Wire[rnext]

ReaderGrows ==
    \/ /\ rpc = "grow"
       /\ used' = used + Grown /\ rpc' = "grow source"
       /\ UNCHANGED <<source_used, progress_source_active, registered, seen, rnext, readCh>>
       /\ ReaderUnchanged
    \/ /\ rpc = "grow source"
       /\ source_used' = source_used + Grown /\ rpc' = "shrink"
       /\ UNCHANGED <<used, progress_source_active, registered, seen, rnext, readCh>>
       /\ ReaderUnchanged

\* shrink_to(decoded): the counters, then the wake-up.
ReaderShrinks ==
    \/ /\ rpc = "shrink"
       /\ used' = used - Wire[rnext] /\ rpc' = "shrink source"
       /\ UNCHANGED <<source_used, progress_source_active, registered, seen, rnext, readCh>>
       /\ ReaderUnchanged
    \/ /\ rpc = "shrink source"
       /\ source_used' = source_used - Wire[rnext] /\ rpc' = "shrink notify"
       /\ UNCHANGED <<used, progress_source_active, registered, seen, rnext, readCh>>
       /\ ReaderUnchanged
    \/ /\ rpc = "shrink notify"
       /\ NotifyWaiters /\ rpc' = "send"
       /\ UNCHANGED <<used, source_used, progress_source_active, seen, rnext, readCh>>
       /\ ReaderUnchanged

ReaderWakes ==
    /\ rpc = "sleep" /\ Notified("reader")
    /\ rpc' = "register"
    /\ UNCHANGED <<used, source_used, progress_source_active, registered, seen, rnext,
                   readCh>>
    /\ ReaderUnchanged

ReaderSends ==
    /\ rpc = "send" /\ Len(readCh) < Capacity
    /\ readCh' = Append(readCh, rnext)
    /\ rnext' = rnext + 1 /\ rpc' = "register" /\ seen' = 0
    /\ UNCHANGED <<used, source_used, progress_source_active, registered>>
    /\ ReaderUnchanged

Reader ==
    /\ UNCHANGED setup
    /\ \/ ReaderRegisters \/ ReaderLoads \/ ReaderExchanges \/ ReaderClaims
       \/ ReaderCharges \/ ReaderAccounts \/ ReaderGrows \/ ReaderShrinks
       \/ ReaderWakes \/ ReaderSends

\* The sources are read to the end and their senders dropped.
ReadClosed == rnext \notin Batches

-----------------------------------------------------------------------------
(* The parser: admit_active_transform, drop of the source lease, finish *)

ParserUnchanged == UNCHANGED <<readerVars, sinkVars>>

ParserRecv ==
    /\ ppc = "recv" /\ readCh # <<>>
    /\ cur' = Head(readCh) /\ readCh' = Tail(readCh)
    /\ ppc' = "register"
    /\ UNCHANGED <<counters, registered, deliveryCh>> /\ ParserUnchanged

\* "pressured" registers for wait_transform_below_limit, "register" for
\* admit_active_transform.
ParserRegisters ==
    /\ ppc \in {"pressured", "register"}
    /\ Register("parser")
    /\ ppc' = IF ppc = "register" THEN "admit" ELSE "below"
    /\ UNCHANGED <<counters, readCh, cur, deliveryCh>> /\ ParserUnchanged

ParserBelow ==
    /\ ppc = "below"
    /\ ppc' = IF Pressured THEN "sleep below" ELSE "recv"
    /\ UNCHANGED <<counters, registered, readCh, cur, deliveryCh>> /\ ParserUnchanged

ParserAdmits ==
    /\ ppc = "admit"
    /\ IF ~Pressured /\ active_transform = 0
       THEN active_transform' = Bound[cur] /\ ppc' = "charge"
       ELSE ppc' = "sleep admit" /\ UNCHANGED active_transform
    /\ UNCHANGED <<used, source_used, transform_used, progress_source_active,
                   registered, readCh, cur, deliveryCh>>
    /\ ParserUnchanged

ParserWakes ==
    /\ ppc \in {"sleep below", "sleep admit"} /\ Notified("parser")
    /\ ppc' = IF ppc = "sleep admit" THEN "register" ELSE "pressured"
    /\ UNCHANGED <<counters, registered, readCh, cur, deliveryCh>> /\ ParserUnchanged

ParserCharges ==
    /\ ppc = "charge"
    /\ used' = used + Bound[cur] /\ ppc' = "drop"
    /\ UNCHANGED <<source_used, transform_used, progress_source_active,
                   active_transform, registered, readCh, cur, deliveryCh>>
    /\ ParserUnchanged

\* MemoryLease::drop of the source lease: counters, flag, then the wake-up.
ParserDrops ==
    \/ /\ ppc = "drop"
       /\ used' = used - Source[cur] /\ ppc' = "drop source"
       /\ UNCHANGED <<source_used, transform_used, progress_source_active,
                      active_transform, registered, readCh, cur, deliveryCh>>
       /\ ParserUnchanged
    \/ /\ ppc = "drop source"
       /\ source_used' = source_used - Source[cur]
       /\ progress_source_active' = IF Progress THEN 0 ELSE progress_source_active
       /\ ppc' = "drop notify"
       /\ UNCHANGED <<used, transform_used, active_transform, registered, readCh, cur,
                      deliveryCh>>
       /\ ParserUnchanged
    \/ /\ ppc = "drop notify"
       /\ NotifyWaiters /\ ppc' = "finish"
       /\ UNCHANGED <<counters, readCh, cur, deliveryCh>>
       /\ ParserUnchanged

\* Slip: the estimate stays charged beside the exact output.
UsedTwice == used + Output[cur]

\* finish: the estimate in `used` is exchanged for the exact output.
UsedExactly == used + Output[cur] - Bound[cur]

TransformCharged == transform_used + Output[cur]

\* finish(bytes): the estimate becomes the exact output.  A batch without
\* output drops the reservation instead, which is the same with 0 bytes.
ParserFinishes ==
    \/ /\ ppc = "finish"
       /\ used' = UsedExactly /\ ppc' = "finish transform"
       /\ UNCHANGED <<source_used, transform_used, progress_source_active,
                      active_transform, registered, readCh, cur, deliveryCh>>
       /\ ParserUnchanged
    \/ /\ ppc = "finish transform"
       /\ transform_used' = TransformCharged
       /\ active_transform' = 0 /\ ppc' = "finish notify"
       /\ UNCHANGED <<used, source_used, progress_source_active, registered, readCh,
                      cur, deliveryCh>>
       /\ ParserUnchanged
    \/ /\ ppc = "finish notify" /\ NotifyWaiters /\ ppc' = "send"
       /\ UNCHANGED <<counters, readCh, cur, deliveryCh>>
       /\ ParserUnchanged

ParserSends ==
    /\ ppc = "send" /\ Len(deliveryCh) < Capacity
    /\ deliveryCh' = Append(deliveryCh, cur) /\ cur' = 0
    /\ ppc' = IF Pressured THEN "pressured" ELSE "recv"
    /\ UNCHANGED <<counters, registered, readCh>> /\ ParserUnchanged

Parser ==
    /\ UNCHANGED setup
    /\ \/ ParserRecv \/ ParserRegisters \/ ParserBelow \/ ParserAdmits \/ ParserWakes
       \/ ParserCharges \/ ParserDrops \/ ParserFinishes \/ ParserSends

ParserClosed == ReadClosed /\ readCh = <<>> /\ ppc = "recv"

-----------------------------------------------------------------------------
(* The sink: keeps what it buffers, releases it after the write *)

SinkUnchanged == UNCHANGED <<source_used, progress_source_active, active_transform,
                             readerVars, readCh, parserVars>>

SinkRecv ==
    /\ spc = "wait" /\ deliveryCh # <<>>
    /\ deliveryCh' = Tail(deliveryCh)
    /\ retained' = retained \cup {i \in {Head(deliveryCh)} : Output[i] > 0}
    /\ spc' = "turn"
    /\ UNCHANGED <<used, transform_used, registered, flushing>> /\ SinkUnchanged

\* One turn of the actor: flush under pressure, or wait.
SinkTurns ==
    /\ spc = "turn"
    /\ IF Pressured /\ retained # {}
       THEN \E i \in retained : flushing' = i /\ spc' = "drop"
       ELSE flushing' = 0 /\ spc' = "wait"
    /\ UNCHANGED <<used, transform_used, registered, deliveryCh, retained>> /\ SinkUnchanged

\* The flush deadline, or the end of the input.
SinkFlushes ==
    /\ spc = "wait" /\ retained # {}
    /\ Timer \/ (ParserClosed /\ deliveryCh = <<>>)
    /\ \E i \in retained : flushing' = i
    /\ spc' = "drop"
    /\ UNCHANGED <<used, transform_used, registered, deliveryCh, retained>> /\ SinkUnchanged

\* Slip: the release wakes nobody.
SinkDropsSilently ==
    \/ /\ spc = "drop"
       /\ used' = used - Output[flushing] /\ retained' = retained \ {flushing}
       /\ spc' = "drop transform"
       /\ UNCHANGED <<transform_used, registered, deliveryCh, flushing>> /\ SinkUnchanged
    \/ /\ spc = "drop transform"
       /\ transform_used' = transform_used - Output[flushing]
       /\ spc' = "turn" /\ flushing' = 0
       /\ UNCHANGED <<used, registered, deliveryCh, retained>> /\ SinkUnchanged

\* MemoryLease::drop of a transform lease.
SinkDrops ==
    \/ /\ spc = "drop"
       /\ used' = used - Output[flushing] /\ retained' = retained \ {flushing}
       /\ spc' = "drop transform"
       /\ UNCHANGED <<transform_used, registered, deliveryCh, flushing>> /\ SinkUnchanged
    \/ /\ spc = "drop transform"
       /\ transform_used' = transform_used - Output[flushing] /\ spc' = "drop notify"
       /\ UNCHANGED <<used, registered, deliveryCh, flushing, retained>> /\ SinkUnchanged
    \/ /\ spc = "drop notify"
       /\ NotifyWaiters /\ spc' = "turn" /\ flushing' = 0
       /\ UNCHANGED <<used, transform_used, deliveryCh, retained>> /\ SinkUnchanged

Sink == UNCHANGED setup /\ (SinkRecv \/ SinkTurns \/ SinkFlushes \/ SinkDrops)

AllReleased == ParserClosed /\ deliveryCh = <<>> /\ retained = {} /\ spc = "wait"

-----------------------------------------------------------------------------
Init ==
    /\ setup \in Setups
    /\ used = 0 /\ source_used = 0 /\ transform_used = 0
    /\ progress_source_active = 0 /\ active_transform = 0 /\ registered = {}
    /\ rpc = "register" /\ seen = 0 /\ rnext = 1 /\ readCh = <<>>
    /\ ppc = "recv" /\ cur = 0 /\ deliveryCh = <<>>
    /\ spc = "wait" /\ flushing = 0 /\ retained = {}

Next == Reader \/ Parser \/ Sink

Exchanged == UNCHANGED setup /\ ReaderExchanges /\ rpc' = "account"

\* Each actor is scheduled; compare_exchange_weak does not fail for ever.
Spec == Init /\ [][Next]_vars /\ WF_vars(Reader) /\ WF_vars(Parser) /\ WF_vars(Sink)
        /\ SF_vars(Exchanged)

-----------------------------------------------------------------------------
\* The steps of the reader between its reservation and the end of the decoding.
Reserving == {"account", "grow", "grow source", "shrink", "shrink source", "shrink notify"}

\* The bytes of the reader's lease beside the decoded ones: a progress source
\* holds the received bytes, and only those until it grows the lease.
Undecoded ==
    CASE Progress /\ rpc \in {"account", "grow"} -> Wire[rnext] - Source[rnext]
      [] rpc \in {"grow source", "shrink"} -> Wire[rnext]
      [] OTHER -> 0

\* The batches whose source lease, whose transform lease, is alive.
SourceLeases ==
    {i \in Batches : \/ i < rnext /\ \E k \in DOMAIN readCh : readCh[k] = i
                     \/ i = rnext /\ rpc \in Reserving \cup {"send"}
                     \/ i = cur /\ ppc \in {"register", "admit", "sleep admit", "charge", "drop"}}
TransformLeases ==
    {i \in Batches : \/ i = cur /\ ppc \in {"finish transform", "finish notify", "send"}
                     \/ \E k \in DOMAIN deliveryCh : deliveryCh[k] = i
                     \/ i \in retained}
Bytes(size, leases) == MapThenSumSet(LAMBDA i : size[i], leases)

\* Types of the state.
TypeOK ==
    /\ setup \in Setups
    /\ progress_source_active \in {0, 1}
    /\ registered \subseteq {"reader", "parser"}
    /\ rnext \in 1..(Len(Source) + 1) /\ cur \in Batches \cup {0}
    /\ readCh \in Seq(Batches) /\ Len(readCh) <= Capacity
    /\ deliveryCh \in Seq(Batches) /\ Len(deliveryCh) <= Capacity
    /\ retained \subseteq Batches /\ flushing \in Batches \cup {0}
    /\ used \in Nat /\ source_used \in Nat /\ transform_used \in Nat

\* "Reservations follow owned buffers through the pipeline": at every step
\* `used` is the bytes of the leases alive and of the running transform.
\* In particular no subtraction wraps and nothing leaks.
Accounted ==
    used = Bytes(Source, SourceLeases) + Undecoded + Bytes(Output, TransformLeases)
           + (IF ppc \in {"drop", "drop source", "drop notify", "finish"}
              THEN Bound[cur] ELSE 0)

\* reserve: "A single oversized allocation is admitted only when the budget is
\* otherwise empty": the source leases together stay within the limit, unless
\* there is just one.
SourceBounded ==
    Progress \/ Bytes(Source, SourceLeases) <= Limit \/ Cardinality(SourceLeases) = 1

\* reserve_progress_source: "another call waits until every clone is dropped".
ProgressSerialized == Progress => Cardinality(SourceLeases) <= 1

\* reserve_transform, admit_active_transform: the retained output may cross
\* the limit once, "so the overage cannot cascade": without one of the leases
\* it is below the limit.
OverageOnce ==
    TransformLeases = {} \/ \E i \in TransformLeases :
        Bytes(Output, TransformLeases \ {i}) < Limit

\* Every batch is read, transformed and released in the end: no wake-up is
\* lost and no actor waits for bytes that only it could release.
AllProcessed == <>AllReleased
=============================================================================
