------------------------- MODULE PipelineInvariant -------------------------
(***************************************************************************)
(* The inductive invariant behind the safety properties of Pipeline, as a  *)
(* conjunction of named parts.                                             *)
(***************************************************************************)
EXTENDS Pipeline

\* Outside an attempt there are no actors and no channels.
Fresh ==
    task # "run" =>
        /\ reader = "read" /\ batch = "idle" /\ ledger = {} /\ nextId = 1
        /\ readCh = <<>> /\ deliveryCh = <<>> /\ eventCh = <<>>
        /\ parser = "recv" /\ held = 0
        /\ observed = {} /\ counted = {}
        /\ sink = "run" /\ tracker = NewTracker
        /\ buffer = {} /\ written = {} /\ sinkEvent = 0
        /\ first = "none"

\* Every id in flight was handed out by the reader, for a batch of the log.
Issued == 1..(nextId - 1)
IdsIssued ==
    /\ base + nextId <= NumBatches + 1
    /\ reader = "reserve" \/ (reader = "drain" /\ batch = "data") =>
          base + nextId <= NumBatches
    /\ reader = "send" => nextId > 1
    /\ readCh \in Seq(Issued) /\ deliveryCh \in Seq(Issued)
    /\ held \in Issued \cup {0}
    /\ parser \in {"parse", "send"} => held # 0
    /\ observed \subseteq Issued
    /\ tracker.next_received <= nextId

\* Events only speak of deliveries the tracker has released.
Released == 1..(tracker.next_commit - 1)
EventsReleased ==
    /\ eventCh \in Seq(Released)
    /\ sinkEvent \in Released \cup {0}

\* The outputs among pairs that belong to delivery id.
Of(id, pairs) == {w \in pairs : w[1] = id}

\* Tracker t counts exactly the outputs the sink holds (in buf or in wr), and
\* an output of an accepted delivery is buffered or durable.
Accounts(t, buf, wr, dur) ==
    /\ buf \cap wr = {}
    /\ IsFiniteSet(buf \cup wr)
    /\ \A w \in buf \cup wr : w[1] \in DOMAIN t.entries /\ w[2] \in Outputs[base + w[1]]
    /\ \A w \in wr : <<base + w[1], w[2]>> \in dur
    /\ \A id \in DOMAIN t.entries : t.entries[id] = Cardinality(Of(id, buf \cup wr))
    /\ \A id \in 1..(t.next_received - 1) : \A u \in Outputs[base + id] :
          <<id, u>> \in buf \/ <<base + id, u>> \in dur
SinkAccounts == Accounts(tracker, buffer, written, durable)

\* What the attempt skipped is durable.
BaseDurable == \A p \in 1..base : Durable(p)

\* The ledger: its markers belong to its deliveries; what is no longer in it
\* was released by the tracker.
LedgerAccounts ==
    /\ \A e \in ledger : e.id \in Issued /\ e.marker \in {0, base + e.id}
    /\ \A id \in Issued : (\E e \in ledger : e.id = id) \/ id \in Released

\* Markers still in the ledger are ahead of the source, and no marker is lost.
MarkersAhead ==
    task = "run" /\ Resumable =>
        /\ base <= srcCommitted /\ srcCommitted < base + nextId
        /\ ~Ended(reader) => \A e \in ledger : e.marker # 0 => srcCommitted < e.marker
        /\ \A p \in Marked : p < base + nextId =>
              p <= srcCommitted \/ \E e \in ledger : e.marker = p

\* EOF is only seen, and only reported, at the end of the log.
EndReached ==
    /\ reader = "finish" \/ (reader = "drain" /\ batch = "finished") =>
          Finite /\ base + nextId = NumBatches + 1
    /\ drained => /\ Finite
                  /\ \A p \in Positions : Durable(p)
                  /\ Resumable => \A p \in Marked : p <= srcCommitted
    /\ task = "drained" => drained

IInv ==
    /\ TypeOK /\ Fresh /\ IdsIssued /\ EventsReleased /\ SinkAccounts
    /\ BaseDurable /\ CommittedIsDurable /\ LedgerAccounts /\ MarkersAhead
    /\ EndReached
============================================================================
