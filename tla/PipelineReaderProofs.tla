------------------------ MODULE PipelineReaderProofs ------------------------
(***************************************************************************)
(* The steps of the reader and of the parser preserve the invariant IInv   *)
(* of PipelineInvariant, and what the reader does to the source.           *)
(***************************************************************************)
EXTENDS PipelineInvariant, DeliveryTrackerProofs

USE NumBatchesAssumption, MarkedAssumption, FlagsAssumption, BoundsAssumption
USE DEF worldVars, taskVars, readerVars, parserVars, rowVars, sinkVars,
        channelVars, Positions, Ids, Issued, Released, Terminal, Outcomes,
        Failures, Ended, ReaderPcs

\* Sequences of ids: a wider range of ids.
LEMMA SeqWiden == \A S, T : S \subseteq T => Seq(S) \subseteq Seq(T)
  OBVIOUS

\* Receiving from a channel.
LEMMA SeqRecv ==
    ASSUME NEW S, NEW s \in Seq(S), s # <<>> PROVE Head(s) \in S /\ Tail(s) \in Seq(S)
  OBVIOUS

\* Sending to a channel.
LEMMA SeqSend ==
    ASSUME NEW S, NEW s \in Seq(S), NEW x \in S PROVE Append(s, x) \in Seq(S)
  OBVIOUS

\* Ranges of ids grow with their bound.
LEMMA RangeWiden ==
    /\ \A a, b \in Nat : a <= b => 1..(a - 1) \subseteq 1..(b - 1)
    /\ \A n, b \in Nat : b <= n + 1 => 1..(b - 1) \subseteq 1..n
  OBVIOUS

\* The window of the tracker.
LEMMA TrackerWindow ==
    ASSUME IInv
    PROVE  /\ tracker.next_received \in Nat /\ tracker.next_commit \in Nat
           /\ 1 <= tracker.next_commit /\ tracker.next_commit <= tracker.next_received
           /\ DOMAIN tracker.entries = tracker.next_commit..(tracker.next_received - 1)
  BY DEF IInv, TypeOK, SinkTypes, TrackerOK

\* What the tracker has released is durable.
LEMMA ReleasedDurable ==
    ASSUME IInv PROVE \A id \in Released : base + id \in Positions /\ Durable(base + id)
  <1>1. /\ TrackerOK(tracker) /\ base \in Nat /\ nextId \in Nat
        /\ tracker.next_received <= nextId /\ base + nextId <= NumBatches + 1
    BY DEF IInv, TypeOK, SinkTypes, TaskTypes, ReaderTypes, IdsIssued
  <1>2. /\ tracker.next_received \in Nat /\ tracker.next_commit \in 1..tracker.next_received
        /\ DOMAIN tracker.entries = tracker.next_commit..(tracker.next_received - 1)
    BY <1>1 DEF TrackerOK
  <1> SUFFICES ASSUME NEW id \in Released
               PROVE  base + id \in Positions /\ Durable(base + id)
    OBVIOUS
  <1>3. base + id \in Positions /\ id \in 1..(tracker.next_received - 1)
    BY <1>1, <1>2
  <1>4. ASSUME NEW u \in Outputs[base + id] PROVE <<base + id, u>> \in durable
    <2>1. <<id, u>> \in buffer \/ <<base + id, u>> \in durable
      BY <1>3 DEF IInv, SinkAccounts, Accounts
    <2>2. <<id, u>> \notin buffer
      BY <1>2 DEF IInv, SinkAccounts, Accounts
    <2> QED
      BY <2>1, <2>2
  <1> QED
    BY <1>3, <1>4 DEF Durable

\* The markers commit_through acknowledges for a released id c belong to
\* durable batches, and so do all batches before them.
LEMMA AckedDurable ==
    ASSUME IInv, NEW c \in Released, NEW m \in AckedMarkers(c)
    PROVE  /\ m \in 1..NumBatches
           /\ \E e \in ledger : e.id <= c /\ e.marker = m /\ m = base + e.id
           /\ \A q \in 1..m : Durable(q)
  <1>0. base \in 0..NumBatches
    BY DEF IInv, TypeOK, TaskTypes
  <1>1. PICK e \in ledger : e.id <= c /\ e.marker = m /\ m # 0
    BY DEF AckedMarkers, AckedEntries
  <1>2. e.id \in Issued /\ m = base + e.id
    BY <1>1 DEF IInv, LedgerAccounts
  <1>3. e.id \in Released
    BY <1>1, <1>2, TrackerWindow
  <1>4. m \in 1..NumBatches
    BY <1>2, <1>3, ReleasedDurable
  <1>5. ASSUME NEW q \in 1..m PROVE Durable(q)
    <2>1. CASE q <= base
      BY <2>1, <1>0, <1>4 DEF IInv, BaseDurable
    <2>2. CASE base < q
      <3>1. q - base \in Released /\ base + (q - base) = q
        BY <2>2, <1>0, <1>2, <1>3, <1>4, TrackerWindow, SMTT(30)
      <3> QED
        BY <3>1, ReleasedDurable
    <2> QED
      BY <2>1, <2>2, <1>0, <1>4
  <1> QED
    BY <1>1, <1>2, <1>4, <1>5

\* What a reader step does to the source: nothing, or a step forward over
\* durable batches.
LEMMA CommitStep ==
    ASSUME IInv, Running, ~Ended(reader), NEW next, ReaderCommits(next)
    PROVE  \/ srcCommitted' = srcCommitted
           \/ /\ srcCommitted' \in Positions
              /\ Resumable => srcCommitted < srcCommitted'
              /\ \A q \in 1..srcCommitted' : Durable(q)
  <1> DEFINE c == Head(eventCh)
  <1>1. c \in Released
    <2>1. eventCh # <<>> /\ eventCh \in Seq(Released)
      BY DEF ReaderCommits, IInv, EventsReleased
    <2> HIDE DEF Released
    <2> QED
      BY <2>1, SeqRecv
  <1>2. srcCommitted' = srcCommitted \/ srcCommitted' \in AckedMarkers(c)
    BY DEF ReaderCommits, CommitOffsets
  <1>3. ASSUME srcCommitted' \in AckedMarkers(c)
        PROVE  /\ srcCommitted' \in Positions
               /\ Resumable => srcCommitted < srcCommitted'
               /\ \A q \in 1..srcCommitted' : Durable(q)
    <2>1. ASSUME NEW m \in AckedMarkers(c)
          PROVE  /\ m \in Positions /\ \A q \in 1..m : Durable(q)
                 /\ Resumable => srcCommitted < m
      <3>1. /\ m \in 1..NumBatches
            /\ \E e \in ledger : e.id <= c /\ e.marker = m /\ m = base + e.id
            /\ \A q \in 1..m : Durable(q)
        BY <1>1, AckedDurable
      <3> QED
        BY <3>1 DEF IInv, MarkersAhead, Running
    <2> QED
      BY <1>3, <2>1
  <1> QED
    BY <1>2, <1>3

\* Moves of the reader that take no event and hand out no id.
LEMMA ReaderMovesInv ==
    ASSUME IInv, Running, NEW to, ReaderMoves(to),
           to \in ReaderPcs \cup Outcomes,
           drained' = drained \/ (drained' = TRUE /\ reader = "finish" /\ ledger = {}),
           faults' \in 0..MaxFaults, readCh' \in Seq(Issued),
           batch' \in {"idle", "data", "finished"},
           to = "reserve" \/ (to = "drain" /\ batch' = "data") =>
               base + nextId <= NumBatches,
           to = "finish" \/ (to = "drain" /\ batch' = "finished") =>
               Finite /\ base + nextId = NumBatches + 1,
           to # "send", ~Ended(to) => ~Ended(reader)
    PROVE  IInv'
  <1> USE DEF ReaderMoves
  <1>1. TypeOK'
    <2>0. drained' \in BOOLEAN
      BY DEF IInv, TypeOK, TaskTypes
    <2>1. TaskTypes'
      BY <2>0 DEF IInv, TypeOK, TaskTypes, AllOutputs
    <2>5. ReaderTypes' /\ SinkTypes'
      BY DEF IInv, TypeOK, ReaderTypes, SinkTypes, AllOutputs
    <2>2. Issued \subseteq Ids
      BY DEF IInv, TypeOK, ReaderTypes
    <2>3. readCh' \in Seq(Ids)
      <3> HIDE DEF Issued, Ids
      <3> QED
        BY <2>2, SeqWiden
    <2>4. ParserTypes'
      BY <2>3 DEF IInv, TypeOK, ParserTypes
    <2> QED
      BY <2>1, <2>4, <2>5 DEF TypeOK
  <1>2. Fresh'
    BY DEF IInv, Fresh, Running
  <1>3. IdsIssued'
    BY DEF IInv, IdsIssued
  <1>4. EventsReleased'
    BY DEF IInv, EventsReleased
  <1>5. SinkAccounts'
    BY DEF IInv, SinkAccounts, Accounts
  <1>6. BaseDurable' /\ CommittedIsDurable'
    BY DEF IInv, BaseDurable, CommittedIsDurable, Durable
  <1>7. LedgerAccounts'
    BY DEF IInv, LedgerAccounts
  <1>8. MarkersAhead'
    BY DEF IInv, MarkersAhead
  <1>9. EndReached'
    <2>1. CASE drained' = drained
      BY <2>1 DEF IInv, EndReached, Durable
    <2>2. CASE drained' = TRUE /\ reader = "finish" /\ ledger = {}
      <3>1. Finite /\ base + nextId = NumBatches + 1 /\ base \in Nat /\ nextId \in Nat
        BY <2>2 DEF IInv, EndReached, TypeOK, TaskTypes, ReaderTypes
      <3>2. ASSUME NEW p \in Positions PROVE Durable(p)
        <4>1. CASE p <= base
          BY <4>1, <3>1 DEF IInv, BaseDurable
        <4>2. CASE base < p
          <5>1. p - base \in Issued
            BY <4>2, <3>1
          <5>2. p - base \in Released
            BY <5>1, <2>2 DEF IInv, LedgerAccounts
          <5>3. base + (p - base) = p
            BY <3>1
          <5> QED
            BY <5>2, <5>3, ReleasedDurable
        <4> QED
          BY <4>1, <4>2, <3>1
      <3>3. Resumable => \A p \in Marked : p <= srcCommitted
        BY <2>2, <3>1 DEF IInv, MarkersAhead, Running
      <3>4. \A p \in Positions : Durable(p)'
        BY <3>2, ZenonT(60) DEF Durable
      <3> QED
        BY <2>2, <3>1, <3>3, <3>4 DEF EndReached, Running
    <2> QED
      BY <2>1, <2>2
  <1> QED
    BY <1>1, <1>2, <1>3, <1>4, <1>5, <1>6, <1>7, <1>8, <1>9 DEF IInv

\* reserve_source_memory succeeded: the batch gets an id and a ledger entry.
LEMMA ReservedInv ==
    ASSUME IInv, Reserved PROVE IInv'
  <1> DEFINE new == [id |-> nextId,
                     marker |-> IF base + nextId \in Marked THEN base + nextId ELSE 0]
  <1> USE DEF Reserved
  <1>0. /\ task = "run" /\ reader = "reserve" /\ reader' = "send"
        /\ nextId' = nextId + 1 /\ ledger' = ledger \cup {new}
        /\ nextId \in 1..NumBatches /\ base + nextId <= NumBatches /\ base \in Nat
        /\ new.id = nextId /\ new.marker \in {0, base + nextId}
    BY DEF Running, IInv, TypeOK, TaskTypes, ReaderTypes, IdsIssued
  <1>1. Issued \subseteq Issued'
    BY <1>0
  <1>2. TypeOK'
    <2>1. TaskTypes' /\ ParserTypes' /\ SinkTypes'
      BY DEF IInv, TypeOK, TaskTypes, ParserTypes, SinkTypes, AllOutputs
    <2>2. new \in [id : Ids, marker : 0..NumBatches]
      BY <1>0
    <2>3. ReaderTypes'
      BY <1>0, <2>2 DEF IInv, TypeOK, ReaderTypes
    <2> QED
      BY <2>1, <2>3 DEF TypeOK
  <1>3. Fresh'
    BY <1>0 DEF Fresh
  <1>4. IdsIssued'
    <2>1. readCh' \in Seq(Issued') /\ deliveryCh' \in Seq(Issued')
      <3> HIDE DEF Issued
      <3> QED
        BY <1>1, SeqWiden DEF IInv, IdsIssued
    <2>2. tracker'.next_received <= nextId'
      BY <1>0 DEF IInv, IdsIssued, TypeOK, SinkTypes, TrackerOK
    <2> QED
      BY <1>0, <1>1, <2>1, <2>2 DEF IInv, IdsIssued
  <1>5. EventsReleased'
    BY DEF IInv, EventsReleased
  <1>6. SinkAccounts'
    BY DEF IInv, SinkAccounts, Accounts
  <1>7. BaseDurable' /\ CommittedIsDurable'
    BY DEF IInv, BaseDurable, CommittedIsDurable, Durable
  <1>8. LedgerAccounts'
    <2>1. \A e \in ledger' : e.id \in Issued' /\ e.marker \in {0, base' + e.id}
      BY <1>0 DEF IInv, LedgerAccounts
    <2>2. ASSUME NEW id \in Issued'
          PROVE  (\E e \in ledger' : e.id = id) \/ id \in Released'
      <3>1. id = nextId \/ id \in Issued
        BY <1>0
      <3>2. Released' = Released
        OBVIOUS
      <3>3. CASE id \in Issued
        BY <1>0, <3>2, <3>3 DEF IInv, LedgerAccounts
      <3>4. CASE id = nextId
        BY <1>0, <3>4
      <3> QED
        BY <3>1, <3>3, <3>4
    <2> QED
      BY <2>1, <2>2 DEF LedgerAccounts
  <1>9. MarkersAhead'
    <2> SUFFICES ASSUME Resumable PROVE MarkersAhead'
      BY DEF MarkersAhead
    <2>1. base <= srcCommitted /\ srcCommitted < base + nextId /\ srcCommitted \in Nat
      BY <1>0 DEF IInv, MarkersAhead, TypeOK, TaskTypes
    <2>2. \A e \in ledger' : e.marker # 0 => srcCommitted < e.marker
      BY <1>0, <2>1 DEF IInv, MarkersAhead
    <2>3. ASSUME NEW p \in Marked, p < base + nextId'
          PROVE  p <= srcCommitted \/ \E e \in ledger' : e.marker = p
      <3>1. CASE p = base + nextId
        BY <3>1, <1>0
      <3>2. CASE p < base + nextId
        BY <3>2, <1>0 DEF IInv, MarkersAhead
      <3> QED
        BY <2>3, <3>1, <3>2, <1>0
    <2> QED
      BY <1>0, <2>1, <2>2, <2>3 DEF MarkersAhead
  <1>10. EndReached'
    BY <1>0 DEF IInv, EndReached, Durable
  <1> QED
    BY <1>2, <1>3, <1>4, <1>5, <1>6, <1>7, <1>8, <1>9, <1>10 DEF IInv

\* commit_through, wherever the reader handles an event.
LEMMA ReaderCommitsInv ==
    ASSUME IInv, Running, NEW next \in {"drain", "read", "reserve", "send", "finish"},
           ~Ended(reader), ReaderCommits(next),
           next # "read" => reader = next
    PROVE  IInv'
  <1> DEFINE c == Head(eventCh)
             acked == AckedMarkers(c)
  <1> USE DEF ReaderCommits
  <1>0. /\ task = "run" /\ eventCh # <<>> /\ eventCh' = Tail(eventCh)
        /\ base \in 0..NumBatches /\ nextId \in 1..(NumBatches + 1)
        /\ srcCommitted \in 0..NumBatches
    BY DEF Running, IInv, TypeOK, TaskTypes, ReaderTypes
  <1>1. c \in Released /\ eventCh' \in Seq(Released)
    <2> HIDE DEF Released
    <2> QED
      BY <1>0, SeqRecv DEF IInv, EventsReleased
  <1>2. /\ UNCHANGED <<durable, completed, drained, task, cancelled, base, batch,
                       nextId, readCh, parser, held, deliveryCh, sink, tracker,
                       buffer, written, sinkEvent, first>>
        /\ Issued' = Issued /\ Released' = Released
    OBVIOUS
  \* What may be acknowledged: a marker of a released delivery.
  <1>3. ASSUME NEW m \in acked
        PROVE  /\ m \in 1..NumBatches
               /\ \E e \in ledger : e.id <= c /\ e.marker = m /\ m = base + e.id
               /\ \A q \in 1..m : Durable(q)
    BY <1>1, AckedDurable
  \* The four outcomes, told apart by what they change.
  <1>4. \/ srcCommitted' = srcCommitted /\ ledger' = ledger /\ Ended(reader')
        \/ CommitOffsets(c) /\ ledger' = ledger /\ acked # {} /\ Ended(reader') /\ ~Finite
        \/ CommitOffsets(c) /\ ledger' = ledger \ AckedEntries(c) /\ reader' = next
    OBVIOUS
  <1>5. \/ srcCommitted' = srcCommitted /\ (CommitOffsets(c) => acked = {})
        \/ srcCommitted' \in acked /\ CommitOffsets(c) /\ \A n \in acked : n <= srcCommitted'
    BY <1>4 DEF CommitOffsets
  <1>6. /\ observed' \subseteq observed /\ faults' \in 0..MaxFaults
        /\ counted' \subseteq counted \cup {base + i : i \in observed}
    BY SMTT(60) DEF CommitRows, NoFault, Fault, IInv, TypeOK, TaskTypes
  <1>7. TypeOK'
    <2>1. TaskTypes'
      BY <1>2, <1>3, <1>5, <1>6, SMTT(120) DEF IInv, TypeOK, TaskTypes, AllOutputs
    <2>2. ledger' \subseteq ledger /\ reader' \in ReaderPcs \cup Outcomes
      BY <1>4
    <2>3. \A i \in observed : base + i \in Positions
      BY <1>0 DEF IInv, IdsIssued
    <2>4. ReaderTypes'
      BY <1>2, <1>6, <2>2, <2>3, SMTT(60) DEF IInv, TypeOK, ReaderTypes
    <2>5. eventCh' \in Seq(Ids)
      <3> HIDE DEF Ids
      <3> QED
        BY <1>0, SeqRecv DEF IInv, TypeOK, ParserTypes
    <2>6. ParserTypes' /\ SinkTypes'
      BY <1>2, <2>5 DEF IInv, TypeOK, ParserTypes, SinkTypes, AllOutputs
    <2> QED
      BY <2>1, <2>4, <2>6 DEF TypeOK
  <1>8. Fresh'
    BY <1>0, <1>2 DEF Fresh
  <1>9. IdsIssued'
    <2>1. reader' \in Outcomes \/ reader' = next
      BY <1>4
    <2> QED
      BY <2>1, <1>2, <1>6 DEF IInv, IdsIssued
  <1>10. EventsReleased'
    BY <1>1, <1>2 DEF IInv, EventsReleased
  <1>11. SinkAccounts'
    BY <1>2, ZenonT(60) DEF IInv, SinkAccounts, Accounts
  <1>12. BaseDurable'
    BY <1>2, ZenonT(60) DEF IInv, BaseDurable, Durable
  <1>13. CommittedIsDurable'
    <2>1. \A q \in 1..srcCommitted' : Durable(q)
      BY <1>3, <1>5 DEF IInv, CommittedIsDurable
    <2> QED
      BY <2>1, <1>2, ZenonT(60) DEF CommittedIsDurable, Durable
  <1>14. LedgerAccounts'
    <2>1. \A e \in ledger \ ledger' : e.id \in Released
      <3>1. \A e \in ledger \ ledger' : e.id <= c /\ e.id \in Issued
        BY <1>4 DEF AckedEntries, IInv, LedgerAccounts
      <3> QED
        BY <3>1, <1>1, TrackerWindow, SMTT(120)
    <2>2. ledger' \subseteq ledger
      BY <1>4, SMTT(30)
    <2> QED
      BY <2>1, <2>2, <1>2, SMTT(120) DEF IInv, LedgerAccounts
  <1>15. MarkersAhead' /\ (Resumable => srcCommitted <= srcCommitted')
    <2> SUFFICES ASSUME Resumable
                 PROVE  MarkersAhead' /\ srcCommitted <= srcCommitted'
      BY DEF MarkersAhead
    <2>1. /\ base <= srcCommitted /\ srcCommitted < base + nextId
          /\ \A e \in ledger : e.marker # 0 => srcCommitted < e.marker
          /\ \A p \in Marked : p < base + nextId =>
                p <= srcCommitted \/ \E e \in ledger : e.marker = p
      BY <1>0 DEF IInv, MarkersAhead
    <2>2. \A e \in ledger : /\ e.id \in Issued /\ e.marker \in {0, base + e.id}
                            /\ e.id \in Nat
      BY <1>0 DEF IInv, LedgerAccounts
    <2>3. srcCommitted <= srcCommitted' /\ srcCommitted' < base + nextId
      <3>1. CASE srcCommitted' = srcCommitted
        BY <3>1, <2>1, <1>0
      <3>2. CASE srcCommitted' \in acked
        BY <3>2, <1>0, <1>3, <2>1, <2>2
      <3> QED
        BY <1>5, <3>1, <3>2
    <2>4. ASSUME ~Ended(reader'), NEW e \in ledger', e.marker # 0
          PROVE  srcCommitted' < e.marker
      <3>1. ledger' = ledger \ AckedEntries(c)
        BY <1>4, <2>4
      <3>2. e \in ledger /\ ~(e.id <= c) /\ e.marker = base + e.id /\ e.id \in Nat
        BY <3>1, <2>2, <2>4 DEF AckedEntries
      <3>3. CASE srcCommitted' = srcCommitted
        BY <3>3, <3>2, <2>1, <2>4
      <3>4. CASE srcCommitted' \in acked
        <4>1. PICK f \in ledger : f.id <= c /\ srcCommitted' = base + f.id
          BY <3>4, <1>3, SMTT(30)
        <4>2. f.id \in Nat /\ c \in Nat /\ base \in Nat
          BY <1>0, <1>1, <2>2, TrackerWindow, SMTT(60)
        <4> QED
          BY <4>1, <4>2, <3>2
      <3> QED
        BY <1>5, <3>3, <3>4
    <2>5. ASSUME NEW p \in Marked, p < base + nextId
          PROVE  p <= srcCommitted' \/ \E e \in ledger' : e.marker = p
      <3>1. CASE p <= srcCommitted
        BY <3>1, <2>3, <1>0, <1>3, <1>5, SMTT(60)
      <3>2. ASSUME NEW e \in ledger, e.marker = p, e \notin ledger'
            PROVE  p <= srcCommitted'
        <4>1. e \in AckedEntries(c) /\ CommitOffsets(c)
          BY <3>2, <1>4, SMTT(30)
        <4>2. p \in acked
          <5>1. p # 0
            BY <2>5, MarkedAssumption DEF Positions
          <5>2. e \in {f \in AckedEntries(c) : f.marker # 0}
            BY <4>1, <3>2, <5>1
          <5> QED
            BY <5>2, <3>2 DEF AckedMarkers
        <4> QED
          BY <4>1, <4>2, <1>5 DEF CommitOffsets
      <3> QED
        BY <3>1, <3>2, <2>1, <2>5
    <2> QED
      BY <2>1, <2>3, <2>4, <2>5, <1>0, <1>2, <1>3, <1>5, SMTT(120) DEF MarkersAhead
  <1>16. EndReached'
    <2>1. reader' \in Outcomes \/ reader' = next
      BY <1>4
    <2>2. drained => (Resumable => \A p \in Marked : p <= srcCommitted')
      BY <1>0, <1>3, <1>5, <1>15, SMTT(60) DEF IInv, EndReached
    <2> QED
      BY <2>1, <2>2, <1>2, SMTT(60) DEF IInv, EndReached, Durable
  <1> QED
    BY <1>7, <1>8, <1>9, <1>10, <1>11, <1>12, <1>13, <1>14, <1>15, <1>16 DEF IInv

\* The parser takes, parses, sends and returns.
LEMMA ParserInv ==
    ASSUME IInv, ParserStep \/ ParserFails PROVE IInv'
  <1>0. /\ task = "run"
        /\ UNCHANGED <<srcCommitted, durable, completed, drained, task, cancelled, base,
                       reader, batch, ledger, nextId, counted, sink, tracker, buffer,
                       written, sinkEvent, eventCh, first>>
        /\ Issued' = Issued /\ Released' = Released
        /\ Issued \subseteq Ids
    <2>1. Running /\ ParserUnchanged
      BY Zenon DEF ParserStep, ParserRecv, ParserParses, ParserSend, ParserReturns, ParserFails
    <2>2. task = "run"
      BY <2>1 DEF Running
    <2>3. UNCHANGED <<srcCommitted, durable, completed, drained, task, cancelled, base,
                      reader, batch, ledger, nextId, counted, sink, tracker, buffer,
                      written, sinkEvent, eventCh, first>>
      BY <2>1 DEF ParserUnchanged
    <2>4. Issued' = Issued /\ Released' = Released
      BY <2>3
    <2>5. Issued \subseteq Ids
      BY DEF IInv, TypeOK, ReaderTypes
    <2> QED
      BY <2>2, <2>3, <2>4, <2>5
  <1>1. /\ parser' \in {"recv", "parse", "send"} \cup Outcomes
        /\ faults' \in 0..MaxFaults
    <2>1. faults \in 0..MaxFaults
      BY DEF IInv, TypeOK, TaskTypes
    <2>2. CASE ParserStep
      BY <2>1, <2>2, ZenonT(60) DEF ParserStep, ParserRecv, ParserParses, ParserSend, ParserReturns
    <2>3. CASE ParserFails
      BY <2>1, <2>3 DEF ParserFails, Fault
    <2> QED
      BY <2>2, <2>3
  <1>2. /\ readCh' \in Seq(Issued) /\ deliveryCh' \in Seq(Issued)
        /\ held' \in Issued \cup {0} /\ observed' \subseteq Issued
        /\ parser' \in {"parse", "send"} => held' # 0
    <2>1. CASE ParserRecv
      <3>1. Head(readCh) \in Issued /\ Tail(readCh) \in Seq(Issued)
        <4> HIDE DEF Issued
        <4> QED
          BY <2>1, SeqRecv DEF ParserRecv, IInv, IdsIssued
      <3> QED
        BY <2>1, <3>1 DEF ParserRecv, IInv, IdsIssued
    <2>2. CASE ParserParses
      BY <2>2 DEF ParserParses, IInv, IdsIssued
    <2>3. CASE ParserSend
      <3>1. held \in Issued
        BY <2>3 DEF ParserSend, IInv, IdsIssued
      <3>2. Append(deliveryCh, held) \in Seq(Issued)
        <4> HIDE DEF Issued
        <4> QED
          BY <3>1, SeqSend DEF IInv, IdsIssued
      <3> QED
        BY <2>3, <3>2 DEF ParserSend, IInv, IdsIssued
    <2>4. CASE ParserReturns \/ ParserFails
      BY <2>4 DEF ParserReturns, ParserFails, IInv, IdsIssued
    <2> QED
      BY <2>1, <2>2, <2>3, <2>4 DEF ParserStep
  <1>3. TypeOK'
    <2>1. TaskTypes' /\ SinkTypes'
      BY <1>0, <1>1 DEF IInv, TypeOK, TaskTypes, SinkTypes, AllOutputs
    <2>2. ReaderTypes'
      BY <1>0, <1>2 DEF IInv, TypeOK, ReaderTypes
    <2>3. readCh' \in Seq(Ids) /\ deliveryCh' \in Seq(Ids)
      <3> HIDE DEF Issued, Ids
      <3> QED
        BY <1>0, <1>2, SeqWiden
    <2>5. held' \in 0..NumBatches
      BY <1>0, <1>2
    <2>4. ParserTypes'
      BY <1>0, <1>1, <2>3, <2>5 DEF IInv, TypeOK, ParserTypes
    <2> QED
      BY <2>1, <2>2, <2>4 DEF TypeOK
  <1>4. Fresh'
    BY <1>0 DEF Fresh
  <1>5. IdsIssued'
    BY <1>0, <1>2 DEF IInv, IdsIssued
  <1>6. EventsReleased' /\ LedgerAccounts'
    BY <1>0 DEF IInv, EventsReleased, LedgerAccounts
  <1>7. SinkAccounts'
    BY <1>0, ZenonT(60) DEF IInv, SinkAccounts, Accounts
  <1>8. BaseDurable' /\ CommittedIsDurable'
    BY <1>0, SMTT(30) DEF IInv, BaseDurable, CommittedIsDurable, Durable
  <1>9. MarkersAhead' /\ EndReached'
    BY <1>0 DEF IInv, MarkersAhead, EndReached, Durable
  <1> QED
    BY <1>3, <1>4, <1>5, <1>6, <1>7, <1>8, <1>9 DEF IInv
=============================================================================
