--------------------------- MODULE PipelineProofs ---------------------------
(***************************************************************************)
(* The safety of one partition, for every log, every set of outputs and    *)
(* every number of faults: IInv (module PipelineInvariant) is inductive,   *)
(* so every behaviour of Pipeline satisfies its safety properties and      *)
(* implements AtLeastOnce.                                                 *)
(***************************************************************************)
EXTENDS PipelineReaderProofs, FiniteSetTheorems

USE NumBatchesAssumption, MarkedAssumption, FlagsAssumption, BoundsAssumption
USE DEF worldVars, taskVars, readerVars, parserVars, rowVars, sinkVars,
        channelVars, Positions, Ids, Issued, Released, Terminal, Outcomes,
        Failures, Ended, ReaderPcs

\* The initial state satisfies the invariant.
LEMMA InitInv == Init => IInv
  <1> SUFFICES ASSUME Init PROVE IInv
    OBVIOUS
  <1> USE DEF Init
  <1>0. /\ TrackerOK(tracker) /\ tracker.next_received = 1 /\ tracker.next_commit = 1
        /\ DOMAIN tracker.entries = {}
    BY NewTrackerOK DEF NewTracker, IsEmpty
  <1>1. TypeOK
    <2>1. TaskTypes
      <3>1. completed \in [Positions -> Nat]
        OBVIOUS
      <3>2. durable \subseteq Positions \X AllOutputs
        OBVIOUS
      <3>3. faults \in 0..MaxFaults /\ srcCommitted \in 0..NumBatches /\ base \in 0..NumBatches
        OBVIOUS
      <3>4. task \in {"start", "run", "backoff"} \cup Terminal /\ drained \in BOOLEAN /\ cancelled \in BOOLEAN
        OBVIOUS
      <3> QED
        BY <3>1, <3>2, <3>3, <3>4 DEF TaskTypes
    <2>2. ReaderTypes
      BY DEF ReaderTypes
    <2>3. ParserTypes
      BY DEF ParserTypes
    <2>4. SinkTypes
      BY <1>0 DEF SinkTypes
    <2> QED
      BY <2>1, <2>2, <2>3, <2>4 DEF TypeOK
  <1>2. Fresh
    BY DEF Fresh
  <1>3. IdsIssued /\ EventsReleased
    BY <1>0 DEF IdsIssued, EventsReleased
  <1>4. SinkAccounts
    BY <1>0, FS_EmptySet DEF SinkAccounts, Accounts
  <1>5. BaseDurable /\ CommittedIsDurable /\ LedgerAccounts
    BY <1>0 DEF BaseDurable, CommittedIsDurable, LedgerAccounts
  <1>6. MarkersAhead /\ EndReached
    BY DEF MarkersAhead, EndReached
  <1> QED
    BY <1>1, <1>2, <1>3, <1>4, <1>5, <1>6 DEF IInv

\* emit_committed releases what is complete and keeps the accounts.
LEMMA EmitCommittedAccounts ==
    ASSUME NEW t, NEW buf, NEW wr, NEW dur, TrackerOK(t),
           Accounts(t, buf, wr, dur), EmitCommitted(t)
    PROVE  /\ TrackerOK(tracker') /\ Accounts(tracker', buf, wr, dur)
           /\ tracker'.next_received = t.next_received
           /\ t.next_commit <= tracker'.next_commit
           /\ sinkEvent' \in 1..(tracker'.next_commit - 1) \cup {0}
  <1>0. /\ t.next_received \in Nat /\ t.next_commit \in 1..t.next_received
        /\ DOMAIN t.entries = t.next_commit..(t.next_received - 1)
    BY DEF TrackerOK
  <1>1. CASE CommittedIds(t) = {}
    BY <1>0, <1>1 DEF EmitCommitted
  <1>2. CASE CommittedIds(t) # {}
    <2>1. PICK c : IsThrough(t, c) /\ tracker' = TakeCommitted(t, c) /\ sinkEvent' = c
      BY <1>2 DEF EmitCommitted
    <2>2. /\ TrackerOK(tracker')
          /\ c \in t.next_commit..(t.next_received - 1)
          /\ \A i \in t.next_commit..c : t.entries[i] = 0
          /\ tracker'.next_received = t.next_received
          /\ tracker'.next_commit = c + 1
          /\ DOMAIN tracker'.entries = (c + 1)..(t.next_received - 1)
          /\ \A i \in (c + 1)..(t.next_received - 1) : tracker'.entries[i] = t.entries[i]
      BY <2>1, TakeCommittedOK
    <2>3. ASSUME NEW w \in buf \cup wr PROVE w[1] \in DOMAIN tracker'.entries
      <3>1. w[1] \in t.next_commit..(t.next_received - 1)
        BY <1>0 DEF Accounts
      <3>2. t.entries[w[1]] = Cardinality(Of(w[1], buf \cup wr))
        BY <1>0, <3>1 DEF Accounts
      <3>3. IsFiniteSet(Of(w[1], buf \cup wr))
        BY FS_Subset DEF Accounts, Of
      <3>4. w \in Of(w[1], buf \cup wr)
        BY DEF Of
      <3>5. t.entries[w[1]] # 0
        BY <3>2, <3>3, <3>4, FS_EmptySet
      <3> QED
        BY <1>0, <2>2, <3>1, <3>5
    <2>4. Accounts(tracker', buf, wr, dur)
      <3>1. \A w \in buf \cup wr : /\ w[1] \in DOMAIN tracker'.entries
                                  /\ w[2] \in Outputs[base + w[1]]
        BY <2>3 DEF Accounts
      <3>2. ASSUME NEW id \in DOMAIN tracker'.entries
            PROVE  tracker'.entries[id] = Cardinality(Of(id, buf \cup wr))
        <4>1. id \in (c + 1)..(t.next_received - 1) /\ id \in DOMAIN t.entries
          BY <1>0, <2>2
        <4>2. t.entries[id] = Cardinality(Of(id, buf \cup wr))
          BY <4>1 DEF Accounts
        <4> QED
          BY <4>1, <4>2, <2>2
      <3>3. \A id \in 1..(tracker'.next_received - 1) : \A u \in Outputs[base + id] :
               <<id, u>> \in buf \/ <<base + id, u>> \in dur
        BY <2>2, ZenonT(60) DEF Accounts
      <3> QED
        BY <3>1, <3>2, <3>3 DEF Accounts
    <2> QED
      BY <1>0, <2>1, <2>2, <2>4
  <1> QED
    BY <1>1, <1>2

\* What a step of the sink has to establish.
LEMMA SinkFrame ==
    ASSUME IInv, task = "run", SinkUnchanged,
           faults' \in 0..MaxFaults, sink' \in {"run"} \cup Outcomes,
           durable \subseteq durable', durable' \subseteq Positions \X AllOutputs,
           deliveryCh' \in Seq(Issued), eventCh' \in Seq(Released'),
           sinkEvent' \in Released' \cup {0},
           buffer' \subseteq Ids \X AllOutputs, written' \subseteq Ids \X AllOutputs,
           TrackerOK(tracker'), tracker'.next_received <= nextId,
           tracker.next_commit <= tracker'.next_commit,
           Accounts(tracker', buffer', written', durable')
    PROVE  IInv'
  <1> USE DEF SinkUnchanged
  <1>0. /\ nextId \in 1..(NumBatches + 1) /\ Issued \subseteq Ids /\ Issued' = Issued
        /\ tracker'.next_received \in Nat /\ tracker'.next_commit \in Nat
        /\ tracker'.next_commit <= tracker'.next_received
        /\ tracker'.next_received <= NumBatches + 1
    BY DEF IInv, TypeOK, ReaderTypes, TrackerOK
  <1>9. tracker.next_commit \in Nat
    BY TrackerWindow
  <1>1. Released \subseteq Released' /\ Released' \subseteq Ids
    <2>1. \A a, b \in Nat : a <= b => 1..(a - 1) \subseteq 1..(b - 1)
      BY RangeWiden
    <2>2. \A b \in Nat : b <= NumBatches + 1 => 1..(b - 1) \subseteq 1..NumBatches
      BY RangeWiden
    <2> QED
      BY <1>0, <1>9, <2>1, <2>2
  <1>2. TypeOK'
    <2>1. TaskTypes' /\ ReaderTypes'
      BY DEF IInv, TypeOK, TaskTypes, ReaderTypes, AllOutputs
    <2>2. deliveryCh' \in Seq(Ids) /\ eventCh' \in Seq(Ids)
      <3> HIDE DEF Issued, Ids, Released
      <3> QED
        BY <1>0, <1>1, SeqWiden
    <2>3. ParserTypes'
      BY <2>2 DEF IInv, TypeOK, ParserTypes
    <2>4. SinkTypes'
      BY <1>0, <1>1 DEF SinkTypes, AllOutputs
    <2> QED
      BY <2>1, <2>3, <2>4 DEF TypeOK
  <1>3. Fresh'
    BY DEF Fresh
  <1>4. IdsIssued' /\ EventsReleased'
    BY <1>0 DEF IInv, IdsIssued, EventsReleased
  <1>5. SinkAccounts'
    BY DEF SinkAccounts, Accounts, Of
  <1>6. BaseDurable' /\ CommittedIsDurable'
    BY DEF IInv, BaseDurable, CommittedIsDurable, Durable
  <1>7. LedgerAccounts'
    BY <1>0, <1>1 DEF IInv, LedgerAccounts
  <1>8. MarkersAhead' /\ EndReached'
    BY DEF IInv, MarkersAhead, EndReached, Durable
  <1> QED
    BY <1>2, <1>3, <1>4, <1>5, <1>6, <1>7, <1>8 DEF IInv

\* What the sink lemmas take from the invariant.
LEMMA SinkFacts ==
    ASSUME IInv
    PROVE  /\ TrackerOK(tracker) /\ Accounts(tracker, buffer, written, durable)
           /\ tracker.next_received <= nextId /\ tracker.next_commit <= tracker.next_commit
           /\ base \in Nat /\ nextId \in Nat /\ base + nextId <= NumBatches + 1
           /\ buffer \subseteq Ids \X AllOutputs /\ written \subseteq Ids \X AllOutputs
           /\ durable \subseteq Positions \X AllOutputs /\ faults \in 0..MaxFaults
           /\ eventCh \in Seq(Released) /\ sinkEvent \in Released \cup {0}
           /\ deliveryCh \in Seq(Issued)
           /\ sink \in {"run"} \cup Outcomes
  <1>1. TrackerOK(tracker) /\ tracker.next_commit <= tracker.next_commit
    BY TrackerWindow DEF IInv, TypeOK, SinkTypes
  <1>2. Accounts(tracker, buffer, written, durable)
    BY DEF IInv, SinkAccounts
  <1>3. base \in Nat /\ nextId \in Nat
    BY DEF IInv, TypeOK, TaskTypes, ReaderTypes
  <1>4. /\ buffer \subseteq Ids \X AllOutputs /\ written \subseteq Ids \X AllOutputs
        /\ durable \subseteq Positions \X AllOutputs /\ faults \in 0..MaxFaults
        /\ sink \in {"run"} \cup Outcomes
    BY DEF IInv, TypeOK, TaskTypes, SinkTypes
  <1> QED
    BY <1>1, <1>2, <1>3, <1>4 DEF IInv, IdsIssued, EventsReleased

\* accept: the outputs of the new delivery enter the accounts.
LEMMA AcceptAccounts ==
    ASSUME NEW t, TrackerOK(t), NEW id, InOrder(t, id), NEW buf, NEW wr, NEW dur,
           Accounts(t, buf, wr, dur), NEW outs, outs = Outputs[base + id],
           IsFiniteSet(outs)
    PROVE  Accounts(Accept(t, id, Cardinality(outs)), buf \cup ({id} \X outs), wr, dur)
  <1> DEFINE new == {id} \X outs
             old == buf \cup wr
             u == Accept(t, id, Cardinality(outs))
  <1>1. Cardinality(outs) \in Nat
    BY FS_CardinalityType
  <1>2. /\ u.next_received = id + 1
        /\ DOMAIN u.entries = DOMAIN t.entries \cup {id}
        /\ id \notin DOMAIN t.entries
        /\ u.entries[id] = Cardinality(outs)
        /\ \A i \in DOMAIN t.entries : u.entries[i] = t.entries[i]
    <2>1. ASSUME NEW n \in Nat
          PROVE  /\ Accept(t, id, n).next_received = id + 1
                 /\ DOMAIN Accept(t, id, n).entries = DOMAIN t.entries \cup {id}
                 /\ id \notin DOMAIN t.entries
                 /\ Accept(t, id, n).entries[id] = n
                 /\ \A i \in DOMAIN t.entries : Accept(t, id, n).entries[i] = t.entries[i]
      BY AcceptOK
    <2> QED
      BY <1>1, <2>1
  <1>11. id = t.next_received /\ id \in Nat
    BY DEF InOrder, TrackerOK
  <1> HIDE DEF u
  <1>3. /\ \A w \in new : w[1] = id /\ w[2] \in outs
        /\ \A w \in old : w[1] # id
    BY <1>2 DEF Accounts
  <1>4. IsFiniteSet(new) /\ Cardinality(new) = Cardinality(outs)
    <2>1. IsFiniteSet({id}) /\ Cardinality({id}) = 1
      BY FS_Singleton
    <2>2. IsFiniteSet(new) /\ Cardinality(new) = 1 * Cardinality(outs)
      BY <2>1, FS_Product
    <2> QED
      BY <1>1, <2>2
  <1> HIDE DEF new
  <1>5. IsFiniteSet((buf \cup new) \cup wr) /\ (buf \cup new) \cap wr = {}
    <2>1. (buf \cup new) \cup wr = old \cup new /\ IsFiniteSet(old)
      BY DEF Accounts
    <2>2. IsFiniteSet(old \cup new)
      BY <2>1, <1>4, FS_Union
    <2>3. (buf \cup new) \cap wr = {}
      BY <1>3 DEF Accounts
    <2> QED
      BY <2>1, <2>2, <2>3
  <1>6. ASSUME NEW w \in (buf \cup new) \cup wr
        PROVE  w[1] \in DOMAIN u.entries /\ w[2] \in Outputs[base + w[1]]
    BY <1>2, <1>3 DEF Accounts
  <1>7. ASSUME NEW i \in DOMAIN u.entries
        PROVE  u.entries[i] = Cardinality(Of(i, (buf \cup new) \cup wr))
    <2>1. CASE i = id
      <3>1. Of(i, (buf \cup new) \cup wr) = new
        BY <2>1, <1>3 DEF Of
      <3> QED
        BY <2>1, <3>1, <1>2, <1>4
    <2>2. CASE i # id
      <3>1. Of(i, (buf \cup new) \cup wr) = Of(i, old)
        BY <2>2, <1>3 DEF Of
      <3> QED
        BY <2>2, <3>1, <1>2 DEF Accounts
    <2> QED
      BY <2>1, <2>2
  <1>8. ASSUME NEW i \in 1..(u.next_received - 1), NEW o \in Outputs[base + i]
        PROVE  <<i, o>> \in buf \cup new \/ <<base + i, o>> \in dur
    <2>1. CASE i = id
      BY <2>1 DEF new
    <2>2. CASE i # id
      <3>1. i \in 1..(t.next_received - 1)
        BY <2>2, <1>2, <1>11
      <3> QED
        BY <3>1 DEF Accounts
    <2> QED
      BY <2>1, <2>2
  <1>9. \A w \in wr : <<base + w[1], w[2]>> \in dur
    BY DEF Accounts
  <1>10. Accounts(u, buf \cup new, wr, dur)
    BY <1>5, <1>6, <1>7, <1>8, <1>9 DEF Accounts
  <1> QED
    BY <1>10 DEF u, new

\* The sink accepts a delivery: its outputs enter the buffer and the tracker.
LEMMA SinkAcceptsInv ==
    ASSUME IInv, SinkAccepts PROVE IInv'
  <1> DEFINE id == Head(deliveryCh)
             outs == Outputs[base + id]
             new == {id} \X outs
             t == Accept(tracker, id, Cardinality(outs))
  <1>0. /\ task = "run" /\ sink = "run" /\ deliveryCh # <<>> /\ SinkUnchanged
        /\ deliveryCh' = Tail(deliveryCh)
        /\ UNCHANGED <<durable, faults, written, eventCh>>
    BY DEF SinkAccepts, Running
  <1>1. id \in Issued /\ deliveryCh' \in Seq(Issued)
    <2> HIDE DEF Issued
    <2> QED
      BY <1>0, SeqRecv DEF IInv, IdsIssued
  <1>2. base + id \in Positions /\ id \in Ids /\ base \in Nat /\ nextId \in Nat
    <2>1. base \in Nat /\ nextId \in Nat /\ base + nextId <= NumBatches + 1
      BY DEF IInv, IdsIssued, TypeOK, TaskTypes, ReaderTypes
    <2> HIDE DEF id
    <2> QED
      BY <1>1, <2>1
  <1>3. IsFiniteSet(outs) /\ Cardinality(outs) \in Nat
    BY <1>2, OutputsAssumption, FS_CardinalityType
  <1>4. /\ TrackerOK(tracker) /\ SinkAccounts
        /\ tracker.next_received <= nextId
        /\ buffer \subseteq Ids \X AllOutputs /\ written \subseteq Ids \X AllOutputs
        /\ durable \subseteq Positions \X AllOutputs /\ faults \in 0..MaxFaults
        /\ eventCh \in Seq(Released) /\ sinkEvent \in Released \cup {0}
    BY DEF IInv, TypeOK, SinkTypes, TaskTypes, IdsIssued, EventsReleased
  <1>5. CASE ~InOrder(tracker, id)
    <2>1. sink' = "retryable" /\ UNCHANGED <<tracker, buffer, sinkEvent>>
      BY <1>5 DEF SinkAccepts
    <2>2. tracker.next_commit <= tracker.next_commit
      BY TrackerWindow
    <2> QED
      BY <1>0, <1>1, <1>4, <2>1, <2>2, SinkFrame, SMTT(30) DEF SinkAccounts
  <1>6. CASE InOrder(tracker, id)
    <2>1. EmitCommitted(t) /\ buffer' = buffer \cup new /\ sink' = sink
      BY <1>6 DEF SinkAccepts
    <2>2. /\ TrackerOK(t) /\ t.next_received = id + 1
          /\ t.next_commit = tracker.next_commit
          /\ DOMAIN t.entries = DOMAIN tracker.entries \cup {id}
          /\ id \notin DOMAIN tracker.entries
          /\ t.entries[id] = Cardinality(outs)
          /\ \A i \in DOMAIN tracker.entries : t.entries[i] = tracker.entries[i]
      <3> HIDE DEF id, outs
      <3> QED
        BY <1>3, <1>4, <1>6, AcceptOK, SMTT(60)
    <2>3. new \subseteq Ids \X AllOutputs
      BY <1>2, SMTT(30) DEF AllOutputs
    <2>4. Accounts(t, buffer', written, durable)
      <3> HIDE DEF id, outs
      <3>1. outs = Outputs[base + id]
        BY DEF outs
      <3> QED
        BY <1>3, <1>4, <1>6, <2>1, <3>1, AcceptAccounts DEF SinkAccounts
    <2>5. /\ TrackerOK(tracker') /\ Accounts(tracker', buffer', written, durable)
          /\ tracker'.next_received = id + 1
          /\ tracker.next_commit <= tracker'.next_commit
          /\ sinkEvent' \in Released' \cup {0}
      <3> HIDE DEF id, outs, t
      <3> QED
        BY <2>1, <2>2, <2>4, EmitCommittedAccounts
    <2>6. tracker'.next_received <= nextId
      BY <1>1, <1>2, <2>5
    <2>7. eventCh' \in Seq(Released')
      <3>1. Released \subseteq Released'
        BY <2>5, TrackerWindow, RangeWiden DEF TrackerOK
      <3> HIDE DEF Released
      <3> QED
        BY <1>0, <1>4, <3>1, SeqWiden
    <2>8. buffer' \subseteq Ids \X AllOutputs
      BY <1>4, <2>1, <2>3
    <2> HIDE DEF id, outs, new, t
    <2> QED
      BY <1>0, <1>1, <1>4, <2>1, <2>5, <2>6, <2>7, <2>8, SinkFrame
  <1> QED
    BY <1>5, <1>6

\* A write moves an output from the buffer to the durable ones.
LEMMA WriteAccounts ==
    ASSUME NEW t, NEW buf, NEW wr, NEW dur, Accounts(t, buf, wr, dur),
           NEW w \in buf, w = <<w[1], w[2]>>
    PROVE  Accounts(t, buf \ {w}, wr \cup {w}, dur \cup {<<base + w[1], w[2]>>})
  <1> DEFINE dur2 == dur \cup {<<base + w[1], w[2]>>}
  <1>1. (buf \ {w}) \cup (wr \cup {w}) = buf \cup wr /\ (buf \ {w}) \cap (wr \cup {w}) = {}
    BY DEF Accounts
  <1>2. \A v \in wr \cup {w} : <<base + v[1], v[2]>> \in dur2
    BY DEF Accounts
  <1>3. ASSUME NEW id \in 1..(t.next_received - 1), NEW o \in Outputs[base + id]
        PROVE  <<id, o>> \in buf \ {w} \/ <<base + id, o>> \in dur2
    <2>1. <<id, o>> \in buf \/ <<base + id, o>> \in dur
      BY DEF Accounts
    <2>2. CASE <<id, o>> = w
      BY <2>2
    <2> QED
      BY <2>1, <2>2
  <1> HIDE DEF dur2
  <1>4. Accounts(t, buf \ {w}, wr \cup {w}, dur2)
    BY <1>1, <1>2, <1>3 DEF Accounts
  <1> QED
    BY <1>4 DEF dur2

\* One output becomes durable.
LEMMA SinkWritesInv ==
    ASSUME IInv, SinkWrites PROVE IInv'
  <1>0. /\ task = "run" /\ SinkUnchanged
        /\ UNCHANGED <<faults, sink, tracker, sinkEvent, deliveryCh, eventCh>>
    BY DEF SinkWrites, Running
  <1>1. PICK w \in buffer : /\ durable' = durable \cup {<<base + w[1], w[2]>>}
                            /\ buffer' = buffer \ {w}
                            /\ written' = written \cup {w}
    BY DEF SinkWrites
  <1>2. /\ w[1] \in DOMAIN tracker.entries /\ w[2] \in Outputs[base + w[1]]
        /\ w = <<w[1], w[2]>>
    BY SinkFacts DEF Accounts
  <1>3. base + w[1] \in Positions /\ w[2] \in AllOutputs
    <2> DEFINE id == w[1]
    <2>1. base + id \in Positions
      <3>1. id \in tracker.next_commit..(tracker.next_received - 1)
        BY <1>2, TrackerWindow
      <3>2. /\ base \in Nat /\ nextId \in Nat /\ base + nextId <= NumBatches + 1
            /\ tracker.next_received <= nextId
        BY SinkFacts
      <3>3. /\ tracker.next_received \in Nat /\ tracker.next_commit \in Nat
            /\ 1 <= tracker.next_commit
        BY TrackerWindow
      <3> HIDE DEF id
      <3> QED
        BY <3>1, <3>2, <3>3
    <2> QED
      BY <2>1, <1>2 DEF AllOutputs
  <1>4. durable' \subseteq Positions \X AllOutputs /\ written' \subseteq Ids \X AllOutputs
    <2>1. <<base + w[1], w[2]>> \in Positions \X AllOutputs
      BY <1>3
    <2>2. /\ w \in buffer /\ buffer \subseteq Ids \X AllOutputs
          /\ written \subseteq Ids \X AllOutputs /\ durable \subseteq Positions \X AllOutputs
      BY <1>1, SinkFacts
    <2> QED
      BY <2>1, <2>2, <1>1
  <1>5. Accounts(tracker, buffer', written', durable')
    BY <1>1, <1>2, SinkFacts, WriteAccounts
  <1>6. Released' = Released
    BY <1>0
  <1>7. durable \subseteq durable' /\ buffer' \subseteq Ids \X AllOutputs
    BY <1>1, SinkFacts
  <1> QED
    BY <1>0, <1>4, <1>5, <1>6, <1>7, SinkFacts, SinkFrame

\* complete: one output leaves the accounts, and the tracker expects it.
LEMMA CompleteAccounts ==
    ASSUME NEW t, TrackerOK(t), NEW buf, NEW wr, NEW dur, Accounts(t, buf, wr, dur),
           NEW w \in wr, NEW id, id = w[1]
    PROVE  /\ Completable(t, id, 1)
           /\ Accounts(Complete(t, id, 1), buf, wr \ {w}, dur)
  <1> DEFINE old == buf \cup wr
             u == Complete(t, id, 1)
  <1>1. id \in DOMAIN t.entries /\ IsFiniteSet(old) /\ t.entries[id] = Cardinality(Of(id, old))
    BY DEF Accounts
  <1>2. w \in Of(id, old) /\ Of(id, old) \in SUBSET old
    BY DEF Of
  <1>3. IsFiniteSet(Of(id, old))
    BY <1>1, <1>2, FS_Subset
  <1>4. Cardinality(Of(id, old)) \in Nat /\ Cardinality(Of(id, old)) # 0
    BY <1>2, <1>3, FS_EmptySet, FS_CardinalityType
  <1>5. Completable(t, id, 1)
    BY <1>1, <1>4, SMTT(30) DEF Completable
  <1>6. /\ u.next_received = t.next_received
        /\ DOMAIN u.entries = DOMAIN t.entries
        /\ u.entries[id] = t.entries[id] - 1
        /\ \A i \in DOMAIN t.entries \ {id} : u.entries[i] = t.entries[i]
    BY <1>5, CompleteOK, SMTT(120)
  <1> HIDE DEF u
  <1>7. buf \cup (wr \ {w}) = old \ {w}
    BY DEF Accounts
  <1>8. IsFiniteSet(buf \cup (wr \ {w}))
    BY <1>1, <1>7, FS_RemoveElement
  <1>9. ASSUME NEW i \in DOMAIN u.entries
        PROVE  u.entries[i] = Cardinality(Of(i, buf \cup (wr \ {w})))
    <2>1. CASE i = id
      <3>1. Of(i, buf \cup (wr \ {w})) = Of(id, old) \ {w}
        BY <2>1, <1>7 DEF Of
      <3>2. Cardinality(Of(id, old) \ {w}) = Cardinality(Of(id, old)) - 1
        BY <1>2, <1>3, FS_RemoveElement
      <3> QED
        BY <2>1, <3>1, <3>2, <1>1, <1>6
    <2>2. CASE i # id
      <3>1. Of(i, buf \cup (wr \ {w})) = Of(i, old)
        BY <2>2, <1>7 DEF Of
      <3> QED
        BY <2>2, <3>1, <1>6 DEF Accounts
    <2> QED
      BY <2>1, <2>2, SMTT(30)
  <1>10. Accounts(u, buf, wr \ {w}, dur)
    BY <1>6, <1>8, <1>9, ZenonT(60) DEF Accounts
  <1> QED
    BY <1>5, <1>10 DEF u

\* The actor learns of a durable output.
LEMMA SinkCompletesInv ==
    ASSUME IInv, SinkCompletes PROVE IInv'
  <1>0. /\ task = "run" /\ SinkUnchanged /\ sink = "run"
        /\ UNCHANGED <<durable, faults, buffer, deliveryCh, eventCh>>
    BY DEF SinkCompletes, Running
  <1>1. PICK w \in written :
          /\ written' = written \ {w}
          /\ IF Completable(tracker, w[1], 1)
             THEN EmitCommitted(Complete(tracker, w[1], 1)) /\ sink' = sink
             ELSE sink' = "retryable" /\ UNCHANGED <<tracker, sinkEvent>>
    BY DEF SinkCompletes
  <1> DEFINE id == w[1]
             t == Complete(tracker, id, 1)
  <1>2. id = w[1] /\ TrackerOK(tracker) /\ Accounts(tracker, buffer, written, durable)
    BY SinkFacts
  <1> HIDE DEF id
  <1>3. Completable(tracker, id, 1) /\ Accounts(t, buffer, written', durable)
    BY <1>1, <1>2, CompleteAccounts
  <1>4. EmitCommitted(t) /\ sink' = sink
    BY <1>1, <1>2, <1>3, SMTT(30)
  <1>5. /\ TrackerOK(t) /\ t.next_received = tracker.next_received
        /\ t.next_commit = tracker.next_commit
    BY <1>2, <1>3, CompleteOK, SMTT(60)
  <1>7. /\ TrackerOK(tracker') /\ Accounts(tracker', buffer, written', durable)
        /\ tracker'.next_received = tracker.next_received
        /\ tracker.next_commit <= tracker'.next_commit
        /\ sinkEvent' \in Released' \cup {0}
    <2> HIDE DEF t
    <2> QED
      BY <1>3, <1>4, <1>5, EmitCommittedAccounts, ZenonT(60)
  <1>8. eventCh' \in Seq(Released')
    <2>1. Released \subseteq Released'
      BY <1>7, TrackerWindow, RangeWiden DEF TrackerOK
    <2> HIDE DEF Released
    <2> QED
      BY <1>0, <2>1, SinkFacts, SeqWiden
  <1>9. written' \subseteq Ids \X AllOutputs
    BY <1>1, SinkFacts
  <1> HIDE DEF id, t
  <1> QED
    BY <1>0, <1>4, <1>7, <1>8, <1>9, SinkFacts, SinkFrame

\* The sink's other steps do not touch its accounts.
LEMMA SinkOtherInv ==
    ASSUME IInv, SinkSendsEvent \/ SinkFails \/ SinkReturns PROVE IInv'
  <1>0. /\ task = "run" /\ SinkUnchanged /\ faults' \in 0..MaxFaults
        /\ UNCHANGED <<durable, tracker, buffer, written, deliveryCh>>
        /\ sink' \in {"run"} \cup Outcomes
    BY DEF SinkSendsEvent, SinkFails, SinkReturns, Running, Fault, IInv, TypeOK,
           TaskTypes, SinkTypes
  <1>1. eventCh' \in Seq(Released) /\ sinkEvent' \in Released \cup {0}
    <2>1. CASE UNCHANGED <<eventCh, sinkEvent>>
      BY <2>1, SinkFacts
    <2>2. CASE sinkEvent # 0 /\ eventCh' = Append(eventCh, sinkEvent) /\ sinkEvent' = 0
      <3> HIDE DEF Released
      <3> QED
        BY <2>2, SinkFacts, SeqSend
    <2> QED
      BY <2>1, <2>2 DEF SinkSendsEvent, SinkFails, SinkReturns
  <1>2. Released' = Released
    BY <1>0
  <1> QED
    BY <1>0, <1>1, <1>2, SinkFacts, SinkFrame, SMTT(30)

\* Between attempts everything is reset, and a new attempt starts behind
\* what is durable.
LEMMA FreshInv ==
    ASSUME IInv, FreshAttempt, UNCHANGED durable, task' # "run",
           base' = base, srcCommitted' \in {0, srcCommitted},
           completed' \in [Positions -> Nat], faults' \in 0..MaxFaults,
           cancelled' \in BOOLEAN,
           drained' = FALSE \/ (drained' = drained /\ srcCommitted' = srcCommitted),
           task' \in {"start", "backoff"} \cup Terminal,
           task' = "drained" => drained'
    PROVE  IInv'
  <1> USE DEF FreshAttempt
  <1>0. /\ TrackerOK(tracker') /\ tracker'.next_received = 1 /\ tracker'.next_commit = 1
        /\ DOMAIN tracker'.entries = {}
    BY NewTrackerOK DEF NewTracker, IsEmpty
  <1>1. TypeOK'
    <2>0. drained' \in BOOLEAN
      BY DEF IInv, TypeOK, TaskTypes
    <2>1. TaskTypes'
      BY <2>0 DEF IInv, TypeOK, TaskTypes, AllOutputs
    <2>2. ReaderTypes'
      BY DEF ReaderTypes
    <2>3. ParserTypes'
      BY DEF ParserTypes
    <2>4. SinkTypes'
      BY <1>0 DEF SinkTypes
    <2> QED
      BY <2>1, <2>2, <2>3, <2>4, SMTT(30) DEF TypeOK
  <1>2. Fresh'
    BY DEF Fresh
  <1>3. IdsIssued'
    BY <1>0 DEF IdsIssued, IInv, TypeOK, TaskTypes
  <1>4. EventsReleased' /\ LedgerAccounts'
    BY <1>0, SMTT(30) DEF EventsReleased, LedgerAccounts
  <1>5. SinkAccounts'
    BY <1>0, FS_EmptySet, SMTT(120) DEF SinkAccounts, Accounts
  <1>6. BaseDurable' /\ CommittedIsDurable'
    BY SMTT(30) DEF IInv, BaseDurable, CommittedIsDurable, Durable
  <1>7. MarkersAhead'
    BY DEF MarkersAhead
  <1>8. EndReached'
    <2>1. CASE drained' = FALSE
      BY <2>1 DEF EndReached
    <2>2. CASE drained' = drained /\ srcCommitted' = srcCommitted
      BY <2>2 DEF IInv, EndReached, Durable
    <2> QED
      BY <2>1, <2>2
  <1> QED
    BY <1>1, <1>2, <1>3, <1>4, <1>5, <1>6, <1>7, <1>8 DEF IInv

\* AttemptEnds and Crash are the two ways out of an attempt.
LEMMA AttemptEndsInv ==
    ASSUME IInv, AttemptEnds \/ Crash PROVE IInv'
  <1>1. completed' \in [Positions -> Nat]
    BY DEF AttemptEnds, Crash, MergedRows, IInv, TypeOK, TaskTypes
  <1>2. /\ task' \in {"start", "backoff"} \cup Terminal
        /\ task' = "drained" => drained'
    <2>1. CASE AttemptEnds
      <3>1. AttemptResult \in {"ok", "fatal", "retryable"}
        BY DEF AttemptResult
      <3>2. ASSUME NEW r \in {"ok", "fatal", "retryable"}
            PROVE  /\ Classify(r) \in {"backoff"} \cup Terminal
                   /\ Classify(r) = "drained" => drained
        BY <3>2 DEF Classify
      <3>3. task' = Classify(AttemptResult) /\ drained' = drained
        BY <2>1 DEF AttemptEnds
      <3> HIDE DEF Terminal
      <3> QED
        BY <3>1, <3>2, <3>3
    <2>2. CASE Crash
      BY <2>2 DEF Crash
    <2> QED
      BY <2>1, <2>2
  <1>3. /\ FreshAttempt /\ UNCHANGED durable /\ base' = base
        /\ srcCommitted' \in {0, srcCommitted} /\ faults' \in 0..MaxFaults
        /\ cancelled' \in BOOLEAN
        /\ drained' = FALSE \/ (drained' = drained /\ srcCommitted' = srcCommitted)
    <2>1. CASE AttemptEnds
      BY <2>1 DEF AttemptEnds, IInv, TypeOK, TaskTypes
    <2>2. CASE Crash
      <3>1. faults' \in 0..MaxFaults
        BY <2>2 DEF Crash, Fault, IInv, TypeOK, TaskTypes
      <3> QED
        BY <2>2, <3>1 DEF Crash
    <2> QED
      BY <2>1, <2>2
  <1>4. task' # "run"
    BY <1>2
  <1> QED
    BY <1>1, <1>2, <1>3, <1>4, FreshInv

\* AttemptStarts: the rebuilt source continues after the committed position,
\* or from the beginning.
LEMMA AttemptStartsInv ==
    ASSUME IInv, AttemptStarts PROVE IInv'
  <1> USE DEF AttemptStarts
  <1>0. /\ task = "start" /\ task' = "run" /\ base' \in {0, srcCommitted}
        /\ Resumable => base' = srcCommitted
        /\ srcCommitted \in 0..NumBatches
        /\ nextId = 1 /\ reader = "read" /\ ledger = {} /\ readCh = <<>>
        /\ deliveryCh = <<>> /\ eventCh = <<>> /\ held = 0 /\ observed = {}
        /\ parser = "recv" /\ buffer = {} /\ written = {} /\ sinkEvent = 0
    BY DEF IInv, Fresh, TypeOK, TaskTypes
  <1>1. /\ TrackerOK(tracker) /\ tracker.next_received = 1 /\ tracker.next_commit = 1
        /\ DOMAIN tracker.entries = {} /\ tracker' = tracker
    BY <1>0, NewTrackerOK, SMTT(60) DEF NewTracker, IsEmpty, IInv, Fresh
  <1>2. TypeOK'
    <2>1. TaskTypes'
      BY <1>0, SMTT(120) DEF IInv, TypeOK, TaskTypes, AllOutputs
    <2>2. ReaderTypes' /\ ParserTypes' /\ SinkTypes'
      BY SMTT(60) DEF IInv, TypeOK, ReaderTypes, ParserTypes, SinkTypes, AllOutputs
    <2> QED
      BY <2>1, <2>2, SMTT(30) DEF TypeOK
  <1>3. Fresh'
    BY <1>0 DEF Fresh
  <1>4. IdsIssued'
    BY <1>0, <1>1 DEF IdsIssued
  <1>5. EventsReleased' /\ LedgerAccounts'
    <2>1. EventsReleased'
      BY <1>0, <1>1 DEF EventsReleased
    <2>2. LedgerAccounts'
      BY <1>0, <1>1 DEF LedgerAccounts
    <2> QED
      BY <2>1, <2>2
  <1>6. SinkAccounts'
    BY <1>0, <1>1, FS_EmptySet, SMTT(60) DEF SinkAccounts, Accounts
  <1>7. BaseDurable' /\ CommittedIsDurable'
    BY <1>0, SMTT(60) DEF IInv, BaseDurable, CommittedIsDurable, Durable
  <1>8. MarkersAhead'
    BY <1>0 DEF MarkersAhead
  <1>9. EndReached'
    BY <1>0 DEF IInv, EndReached, Durable
  <1> QED
    BY <1>2, <1>3, <1>4, <1>5, <1>6, <1>7, <1>8, <1>9 DEF IInv

\* The rest of run_partition_task changes its own state only.
LEMMA TaskOtherInv ==
    ASSUME IInv, Supervise \/ BuildFails \/ BackoffEnds \/ Cancel \/ UNCHANGED vars
    PROVE  IInv'
  <1>0. /\ UNCHANGED <<srcCommitted, durable, completed, drained, base, reader, batch,
                       ledger, nextId, readCh, parser, held, observed, counted, deliveryCh,
                       sink, tracker, buffer, written, sinkEvent, eventCh>>
        /\ cancelled' \in BOOLEAN /\ faults' \in 0..MaxFaults
        /\ first' \in {"none", "external", "reader", "sink", "parser"}
    <2>1. cancelled \in BOOLEAN /\ faults \in 0..MaxFaults
          /\ first \in {"none", "external", "reader", "sink", "parser"}
      BY SMTT(30) DEF IInv, TypeOK, TaskTypes
    <2>2. CASE Supervise
      BY <2>1, <2>2, SMTT(120) DEF Supervise
    <2>3. CASE BuildFails
      BY <2>1, <2>3, SMTT(120) DEF BuildFails, Fault
    <2>4. CASE BackoffEnds
      BY <2>1, <2>4, SMTT(120) DEF BackoffEnds
    <2>5. CASE Cancel
      BY <2>1, <2>5, SMTT(30) DEF Cancel
    <2>6. CASE UNCHANGED vars
      BY <2>1, <2>6, SMTT(120) DEF vars
    <2> QED
      BY <2>2, <2>3, <2>4, <2>5, <2>6, ZenonT(60)
  <1>1. \/ task' = task /\ (task # "run" => first' = first)
        \/ task # "run" /\ task' \in {"start", "backoff", "failed", "cancelled"} /\ first' = first
    BY DEF Supervise, BuildFails, BackoffEnds, Cancel, vars, Running
  <1>2. TypeOK'
    <2>1. TaskTypes'
      BY <1>0, <1>1, ZenonT(60) DEF IInv, TypeOK, TaskTypes, AllOutputs
    <2>2. ReaderTypes' /\ ParserTypes' /\ SinkTypes'
      BY <1>0, ZenonT(60) DEF IInv, TypeOK, ReaderTypes, ParserTypes, SinkTypes, AllOutputs
    <2> QED
      BY <2>1, <2>2 DEF TypeOK
  <1>3. Fresh'
    BY <1>0, <1>1 DEF IInv, Fresh
  <1>4. IdsIssued' /\ EventsReleased' /\ LedgerAccounts'
    BY <1>0 DEF IInv, IdsIssued, EventsReleased, LedgerAccounts
  <1>5. SinkAccounts'
    BY <1>0, ZenonT(60) DEF IInv, SinkAccounts, Accounts
  <1>6. BaseDurable' /\ CommittedIsDurable'
    BY <1>0, ZenonT(60) DEF IInv, BaseDurable, CommittedIsDurable, Durable
  <1>7. MarkersAhead' /\ EndReached'
    BY <1>0, <1>1 DEF IInv, MarkersAhead, EndReached, Durable
  <1> QED
    BY <1>2, <1>3, <1>4, <1>5, <1>6, <1>7 DEF IInv

\* The invariant is inductive.
LEMMA NextInv ==
    ASSUME IInv, [Next]_vars PROVE IInv'
  <1> DEFINE Idle == {"idle", "data", "finished"}
  <1>0. /\ faults \in 0..MaxFaults /\ batch \in Idle /\ nextId \in Nat \ {0} /\ base \in Nat
        /\ readCh \in Seq(Issued) /\ base + nextId <= NumBatches + 1
        /\ reader \in ReaderPcs \cup Outcomes
    BY DEF IInv, TypeOK, TaskTypes, ReaderTypes, IdsIssued
  <1>1. CASE ReadIdle
    BY <1>0, <1>1, ReaderMovesInv, SMTT(30) DEF ReadIdle
  <1>2. CASE ReadNext
    <2>1. batch' = "data" => base + nextId <= NumBatches
      BY <1>0, <1>2 DEF ReadNext
    <2>2. batch' = "finished" => Finite /\ base + nextId = NumBatches + 1
      BY <1>0, <1>2, SMTT(30) DEF ReadNext
    <2> QED
      BY <1>0, <1>2, <2>1, <2>2, ReaderMovesInv, SMTT(30) DEF ReadNext
  <1>3. CASE ReadFails
    BY <1>0, <1>3, ReaderMovesInv, SMTT(30) DEF ReadFails, Fault
  <1>4. CASE ReaderCancels
    BY <1>0, <1>4, ReaderMovesInv DEF ReaderCancels
  <1>5. CASE DrainEvent \/ IdleEvent \/ ReserveEvent \/ SendEvent \/ FinishEvent
    BY <1>5, ReaderCommitsInv, SMTT(30)
       DEF DrainEvent, IdleEvent, ReserveEvent, SendEvent, FinishEvent
  <1>6. CASE DrainEnds
    <2>1. /\ batch = "data" => base + nextId <= NumBatches
          /\ batch = "finished" => Finite /\ base + nextId = NumBatches + 1
      BY <1>6 DEF DrainEnds, IInv, IdsIssued, EndReached
    <2>2. PICK to \in {"idle", "reserve", "finish"} :
             /\ ReaderMoves(to) /\ Running /\ reader = "drain"
             /\ to = "reserve" => batch = "data"
             /\ to = "finish" => batch = "finished"
             /\ UNCHANGED <<drained, faults, batch, readCh>>
      BY <1>0, <1>6 DEF DrainEnds
    <2> QED
      BY <1>0, <2>1, <2>2, ReaderMovesInv
  <1>7. CASE IdleEnds
    BY <1>0, <1>7, ReaderMovesInv DEF IdleEnds
  <1>8. CASE Reserved
    BY <1>8, ReservedInv
  <1>9. CASE SendRead
    <2>1. nextId - 1 \in Issued
      BY <1>0, <1>9 DEF SendRead, IInv, IdsIssued
    <2>2. readCh' \in Seq(Issued)
      <3> HIDE DEF Issued
      <3> QED
        BY <1>0, <1>9, <2>1, SeqSend DEF SendRead
    <2> QED
      BY <1>0, <1>9, <2>2, ReaderMovesInv DEF SendRead
  <1>10. CASE FinishDrained
    BY <1>0, <1>10, ReaderMovesInv DEF FinishDrained
  <1>11. CASE ReaderChannelClosed
    BY <1>0, <1>11, ReaderMovesInv DEF ReaderChannelClosed
  <1>12. CASE ParserStep \/ ParserFails
    BY <1>12, ParserInv
  <1>13. CASE SinkAccepts \/ SinkWrites \/ SinkCompletes
    BY <1>13, SinkAcceptsInv, SinkWritesInv, SinkCompletesInv
  <1>14. CASE SinkSendsEvent \/ SinkFails \/ SinkReturns
    BY <1>14, SinkOtherInv
  <1>15. CASE AttemptEnds \/ Crash
    BY <1>15, AttemptEndsInv
  <1>16. CASE AttemptStarts
    BY <1>16, AttemptStartsInv
  <1>17. CASE Supervise \/ BuildFails \/ BackoffEnds \/ Cancel \/ UNCHANGED vars
    BY <1>17, TaskOtherInv
  <1> QED
    BY <1>1, <1>2, <1>3, <1>4, <1>5, <1>6, <1>7, <1>8, <1>9, <1>10, <1>11, <1>12,
       <1>13, <1>14, <1>15, <1>16, <1>17
       DEF Next, ReaderStep, SinkStep, TaskStep, Returned

\* Every state is well typed: ids and positions stay inside the log, the
\* tracker keeps its window.
THEOREM TypeCorrect == Spec => []TypeOK
  <1>1. IInv => TypeOK
    BY DEF IInv
  <1> QED
    BY <1>1, InitInv, NextInv, PTL DEF Spec

\* At-least-once: whatever fails, restarts or crashes, commit_through never
\* acknowledges a batch before it and all earlier ones are durable.
THEOREM NothingLost == Spec => []CommittedIsDurable
  <1>1. IInv => CommittedIsDurable
    BY DEF IInv
  <1> QED
    BY <1>1, InitInv, NextInv, PTL DEF Spec

\* A task that reports FiniteSourceDrained has delivered and acknowledged
\* everything (for a source that resumes where it was acknowledged).
THEOREM DrainedComplete == ASSUME Resumable PROVE Spec => []DrainedIsComplete
  <1>1. IInv => DrainedIsComplete
    BY DEF IInv, EndReached, DrainedIsComplete
  <1> QED
    BY <1>1, InitInv, NextInv, PTL DEF Spec

\* How a step changes what AtLeastOnce sees: the source position, the
\* destination, and whether the end was reported.
LEMMA VisibleStep ==
    ASSUME IInv, IInv', [Next]_vars, Resumable
    PROVE  \/ Abstract!Write \/ Abstract!Commit \/ Abstract!Forget \/ Abstract!Finish
           \/ UNCHANGED <<srcCommitted, durable, task = "drained">>
  <1> DEFINE Same == UNCHANGED <<srcCommitted, durable, task = "drained">>
  <1>1. CASE ReadIdle \/ ReadNext \/ ReadFails \/ ReaderCancels \/ DrainEnds \/ IdleEnds
             \/ Reserved \/ SendRead \/ FinishDrained \/ ReaderChannelClosed
    <2>1. Same
      BY <1>1 DEF ReadIdle, ReadNext, ReadFails, ReaderCancels, DrainEnds, IdleEnds,
                  Reserved, SendRead, FinishDrained, ReaderChannelClosed, ReaderMoves
    <2> QED
      BY <2>1
  <1>2. CASE DrainEvent \/ IdleEvent \/ ReserveEvent \/ SendEvent \/ FinishEvent
    <2>1. PICK next : Running /\ ~Ended(reader) /\ ReaderCommits(next)
      BY <1>2 DEF DrainEvent, IdleEvent, ReserveEvent, SendEvent, FinishEvent
    <2>2. UNCHANGED <<durable, task>> /\ task = "run"
      BY <2>1 DEF ReaderCommits, Running
    <2>3. CASE srcCommitted' = srcCommitted
      BY <2>2, <2>3
    <2>4. CASE /\ srcCommitted' \in Positions
               /\ srcCommitted < srcCommitted'
               /\ \A q \in 1..srcCommitted' : Durable(q)
      <3>1. srcCommitted \in Nat
        BY DEF IInv, TypeOK, TaskTypes
      <3>2. srcCommitted' \in (srcCommitted + 1)..NumBatches
        BY <2>4, <3>1
      <3>3. Abstract!Commit
        BY <2>2, <2>4, <3>2 DEF Abstract!Commit, Abstract!Delivered, Durable
      <3> QED
        BY <3>3
    <2> QED
      BY <2>1, <2>3, <2>4, CommitStep
  <1>3. CASE ParserStep \/ ParserFails
    <2>1. Same
      BY <1>3, ZenonT(60) DEF ParserStep, ParserRecv, ParserParses, ParserSend, ParserReturns,
                  ParserFails, ParserUnchanged
    <2> QED
      BY <2>1
  <1>4. CASE SinkAccepts \/ SinkCompletes \/ SinkSendsEvent \/ SinkFails \/ SinkReturns
    <2>1. Same
      BY <1>4, ZenonT(60) DEF SinkAccepts, SinkCompletes, SinkSendsEvent, SinkFails, SinkReturns,
                  SinkUnchanged
    <2> QED
      BY <2>1
  <1>5. CASE SinkWrites
    <2>1. PICK w \in buffer : durable' = durable \cup {<<base + w[1], w[2]>>}
      BY <1>5 DEF SinkWrites
    <2>2. UNCHANGED <<srcCommitted, task>> /\ task = "run"
      BY <1>5 DEF SinkWrites, SinkUnchanged, Running
    <2>3. <<base + w[1], w[2]>> \in durable' /\ durable' \subseteq Positions \X AllOutputs
      BY <2>1, ZenonT(60) DEF IInv, TypeOK, TaskTypes, AllOutputs
    <2>4. base + w[1] \in Positions /\ w[2] \in Outputs[base + w[1]]
      BY <2>3, SinkFacts, ZenonT(60) DEF Accounts
    <2>5. Abstract!Write
      BY <2>1, <2>2, <2>4 DEF Abstract!Write
    <2> QED
      BY <2>5
  <1>6. CASE AttemptEnds
    <2>1. UNCHANGED <<srcCommitted, durable, drained>> /\ task = "run"
      BY <1>6 DEF AttemptEnds, Running
    <2>2. CASE task' # "drained"
      BY <2>1, <2>2
    <2>3. CASE task' = "drained"
      <3>1. Finite /\ \A p \in Positions : Durable(p)
        BY <2>1, <2>3, SMTT(120) DEF IInv, EndReached, Durable
      <3>2. Abstract!Finish
        BY <2>1, <2>3, <3>1 DEF Abstract!Finish, Abstract!Delivered, Durable
      <3> QED
        BY <3>2, SMTT(30)
    <2> QED
      BY <2>2, <2>3
  <1>7. CASE Crash
    <2>1. /\ task # "drained" /\ task' = "start" /\ durable' = durable
          /\ srcCommitted' = IF Finite THEN 0 ELSE srcCommitted
      BY <1>7 DEF Crash
    <2>2. CASE Finite
      <3>1. Abstract!Forget
        BY <2>1, <2>2 DEF Abstract!Forget
      <3> QED
        BY <3>1
    <2>3. CASE ~Finite
      BY <2>1, <2>3
    <2> QED
      BY <2>2, <2>3
  <1>8. CASE AttemptStarts \/ Supervise \/ BuildFails \/ BackoffEnds \/ Cancel \/ UNCHANGED vars
    <2>1. Same
      BY <1>8, ZenonT(60) DEF AttemptStarts, Supervise, BuildFails, BackoffEnds, Cancel, vars
    <2> QED
      BY <2>1
  <1> QED
    BY <1>1, <1>2, <1>3, <1>4, <1>5, <1>6, <1>7, <1>8
       DEF Next, ReaderStep, SinkStep, TaskStep, Returned

\* The whole pipeline implements its promise.
THEOREM Refinement == ASSUME Resumable PROVE Spec => ImplementsAtLeastOnce
  <1>1. Init => Abstract!Start
    BY DEF Init, Abstract!Start
  <1>2. ASSUME IInv, IInv', [Next]_vars
        PROVE  [Abstract!Write \/ Abstract!Commit \/ Abstract!Forget \/ Abstract!Finish]_(Abstract!aloVars)
    BY <1>2, VisibleStep DEF Abstract!aloVars
  <1> QED
    BY <1>1, <1>2, InitInv, NextInv, PTL DEF Spec, ImplementsAtLeastOnce, Abstract!Promise

\* The committed position of a stream never moves backwards.
THEOREM StreamAdvances == ASSUME Resumable, ~Finite PROVE Spec => CommitsAdvance
  <1>1. ASSUME IInv, IInv', [Next]_vars PROVE [srcCommitted <= srcCommitted']_srcCommitted
    <2>1. srcCommitted \in Nat
      BY <1>1 DEF IInv, TypeOK, TaskTypes
    <2>2. \/ srcCommitted' = srcCommitted
          \/ \E p \in (srcCommitted + 1)..NumBatches : srcCommitted' = p
      BY <1>1, VisibleStep, ZenonT(60)
         DEF Abstract!Write, Abstract!Commit, Abstract!Forget, Abstract!Finish
    <2> QED
      BY <2>1, <2>2
  <1> QED
    BY <1>1, InitInv, NextInv, PTL DEF Spec, CommitsAdvance
=============================================================================
