------------------------ MODULE IcebergCommitProofs -------------------------
(***************************************************************************)
(* Every commit of the Iceberg sink is carried out at most once: for any   *)
(* number of writers, tables, identities, failures and late commits.       *)
(***************************************************************************)
EXTENDS IcebergCommit, TLAPS

\* Tables only grow at their ends.
Grown ==
    \A d \in Datasets :
        /\ Len(tables[d]) <= Len(tables'[d])
        /\ \A i \in 1..Len(tables[d]) : tables'[d][i] = tables[d][i]

\* Adding a snapshot whose identity the table does not have keeps identities
\* unique and everything that was in the table (update_table).
LEMMA AddSnapshot ==
    ASSUME CommitTypeOK, OncePerIdentity,
           NEW d \in Datasets, NEW id \in Identity, NEW rows \in Payload,
           Fresh(d, id, Len(tables[d])),
           tables' = [tables EXCEPT ![d] = Append(@, [identity |-> id, rows |-> rows])]
    PROVE  /\ tables' \in [Datasets -> Seq(Snapshot)]
           /\ OncePerIdentity'
           /\ Grown
           /\ id \in Lineage(d, Len(tables[d]))'
<1> DEFINE s == [identity |-> id, rows |-> rows]
           n == Len(tables[d])
<1>0. s \in Snapshot /\ tables[d] \in Seq(Snapshot) /\ n \in Nat
  <2>1. s \in Snapshot
    BY DEF Snapshot
  <2>2. tables[d] \in Seq(Snapshot)
    BY DEF CommitTypeOK
  <2>3. QED BY <2>1, <2>2
<1>1. tables' \in [Datasets -> Seq(Snapshot)]
    BY <1>0 DEF CommitTypeOK
<1>2. /\ tables'[d] = Append(tables[d], s)
      /\ Len(tables'[d]) = n + 1
      /\ tables'[d][n + 1] = s
      /\ \A i \in 1..n : tables'[d][i] = tables[d][i]
    BY <1>0 DEF CommitTypeOK
<1>3. \A e \in Datasets : e # d => tables'[e] = tables[e]
    BY DEF CommitTypeOK
<1>4. \A e \in Datasets : tables[e] \in Seq(Snapshot) /\ Len(tables[e]) \in Nat
    BY DEF CommitTypeOK
<1>5. Grown
  <2>1. SUFFICES ASSUME NEW e \in Datasets
                 PROVE  /\ Len(tables[e]) <= Len(tables'[e])
                        /\ \A i \in 1..Len(tables[e]) : tables'[e][i] = tables[e][i]
    BY DEF Grown
  <2>2. CASE e = d
    BY <2>2, <1>2, <1>0
  <2>3. CASE e # d
    BY <2>3, <1>3, <1>4
  <2>4. QED BY <2>2, <2>3
<1>6. id \in Lineage(d, Len(tables[d]))'
  <2>1. tables'[d][n + 1].identity = id
    BY <1>2
  <2>2. n + 1 \in 1..Len(tables'[d])
    BY <1>2, <1>0
  <2>3. QED BY <2>1, <2>2 DEF Lineage
<1>7. OncePerIdentity'
  <2>1. SUFFICES ASSUME NEW e \in Datasets,
                        NEW i \in DOMAIN tables'[e], NEW k \in DOMAIN tables'[e],
                        tables'[e][i].identity = tables'[e][k].identity
                 PROVE  i = k
    BY DEF OncePerIdentity
  <2>2. CASE e # d
    BY <2>1, <2>2, <1>3 DEF OncePerIdentity
  <2>3. CASE e = d
    <3>1. DOMAIN tables'[d] = 1..(n + 1) /\ DOMAIN tables[d] = 1..n
      BY <1>0, <1>1, <1>2
    <3>2. \A j \in 1..n : tables[d][j].identity # id
      BY DEF Fresh, Lineage
    <3>3. tables'[d][n + 1].identity = id
      BY <1>2
    <3>4. CASE i \in 1..n /\ k \in 1..n
      BY <3>4, <2>1, <2>3, <1>2, <3>1 DEF OncePerIdentity
    <3>5. CASE i = n + 1 \/ k = n + 1
      BY <3>5, <3>1, <3>2, <3>3, <2>1, <2>3, <1>2, <1>0
    <3>6. QED BY <3>1, <3>4, <3>5, <2>3, <1>0
  <2>4. QED BY <2>2, <2>3
<1>8. QED BY <1>1, <1>5, <1>6, <1>7

\* A table that grows keeps its lineage and whatever was fresh for a state of it.
LEMMA GrownKeeps ==
    ASSUME CommitTypeOK, CommitTypeOK', Grown, NEW d \in Datasets, NEW id
    PROVE  /\ id \in Lineage(d, Len(tables[d])) => id \in Lineage(d, Len(tables[d]))'
           /\ \A n \in Nat : Fresh(d, id, n) => Fresh(d, id, n)'
           /\ \A n \in Nat : n <= Len(tables[d]) => n <= Len(tables'[d])
<1>1. Len(tables[d]) \in Nat /\ Len(tables'[d]) \in Nat
    BY DEF CommitTypeOK
<1>2. Len(tables[d]) <= Len(tables'[d]) /\ \A i \in 1..Len(tables[d]) : tables'[d][i] = tables[d][i]
    BY DEF Grown
<1>3. id \in Lineage(d, Len(tables[d])) => id \in Lineage(d, Len(tables[d]))'
  <2>1. SUFFICES ASSUME NEW i \in 1..Len(tables[d]), id = tables[d][i].identity
                 PROVE  \E k \in 1..Len(tables'[d]) : id = tables'[d][k].identity
    BY DEF Lineage
  <2>2. i \in 1..Len(tables'[d])
    BY <1>1, <1>2
  <2>3. QED BY <2>1, <2>2, <1>2
<1>4. \A n \in Nat : Fresh(d, id, n) => Fresh(d, id, n)'
  <2>1. SUFFICES ASSUME NEW n \in Nat, Fresh(d, id, n)
                 PROVE  /\ n <= Len(tables'[d])
                        /\ \A i \in 1..n : id # tables'[d][i].identity
    BY DEF Fresh, Lineage
  <2>2. n <= Len(tables[d]) /\ \A i \in 1..n : id # tables[d][i].identity
    BY <2>1 DEF Fresh, Lineage
  <2>3. \A i \in 1..n : i \in 1..Len(tables[d])
    BY <2>2, <1>1
  <2>4. QED BY <2>2, <2>3, <1>1, <1>2
<1>5. QED BY <1>1, <1>2, <1>3, <1>4

WriterState == [stage : Stage, jobs : Seq(Job), base : Nat]

\* What the invariant asks of one writer.
Sound(r) ==
    /\ r.stage \notin {"idle", "done"} => r.jobs # <<>>
    /\ r.stage = "check" => r.base <= Len(tables[Head(r.jobs).dataset])
    /\ r.stage = "request" => Fresh(Head(r.jobs).dataset, Head(r.jobs).identity, r.base)
    /\ r.stage = "mark" =>
          Head(r.jobs).identity \in Lineage(Head(r.jobs).dataset, Len(tables[Head(r.jobs).dataset]))

\* The invariant is soundness of each writer and of what it leaves behind.
LEMMA InvariantIsSound ==
    CommitInvariant <=>
        /\ CommitTypeOK /\ OncePerIdentity
        /\ \A d \in Datasets, id \in Identity :
              <<d, id>> \in marked => id \in Lineage(d, Len(tables[d]))
        /\ \A r \in flight : Fresh(r.dataset, r.identity, r.base)
        /\ \A w \in Writers : Sound(writer[w])
BY DEF CommitInvariant, MarkedIsCommitted, RequestsFresh, Sound, At, Busy, InLineage, Current

\* A writer with a job has a dataset and an identity.
LEMMA JobTyped ==
    ASSUME NEW r \in WriterState, r.jobs # <<>>
    PROVE  /\ Head(r.jobs) \in Job
           /\ Head(r.jobs).dataset \in Datasets
           /\ Head(r.jobs).identity \in Identity
           /\ Head(r.jobs).rows \in Payload
           /\ Tail(r.jobs) \in Seq(Job)
           /\ Len(r.jobs) # 1 => Tail(r.jobs) # <<>>
<1>1. r.jobs \in Seq(Job)
    BY DEF WriterState
<1>2. Head(r.jobs) \in Job /\ Tail(r.jobs) \in Seq(Job)
    BY <1>1
<1>3. Len(r.jobs) # 1 => Tail(r.jobs) # <<>>
  <2>1. Len(r.jobs) \in Nat /\ Len(r.jobs) # 0
    BY <1>1
  <2>2. Len(Tail(r.jobs)) = Len(r.jobs) - 1
    BY <1>1
  <2>3. Len(r.jobs) # 1 => Len(Tail(r.jobs)) # 0
    BY <2>1, <2>2
  <2>4. QED BY <2>3
<1>4. QED BY <1>2, <1>3 DEF Job

\* Growing tables keep writers sound.
LEMMA SoundKept ==
    ASSUME CommitTypeOK, CommitTypeOK', Grown, NEW r \in WriterState, Sound(r)
    PROVE  /\ r.stage \notin {"idle", "done"} => r.jobs # <<>>
           /\ r.stage = "check" => r.base <= Len(tables'[Head(r.jobs).dataset])
           /\ r.stage = "request" => Fresh(Head(r.jobs).dataset, Head(r.jobs).identity, r.base)'
           /\ r.stage = "mark" =>
                Head(r.jobs).identity \in
                  Lineage(Head(r.jobs).dataset, Len(tables[Head(r.jobs).dataset]))'
<1>1. r.base \in Nat
    BY DEF WriterState
<1>2. r.stage \notin {"idle", "done"} => r.jobs # <<>>
    BY DEF Sound
<1>3. CASE r.stage \in {"idle", "done"}
    BY <1>3
<1>4. CASE r.stage \notin {"idle", "done"}
  <2>1. Head(r.jobs).dataset \in Datasets
    BY <1>2, <1>4, JobTyped
  <2>2. QED BY <1>1, <1>2, <1>4, <2>1, GrownKeeps DEF Sound
<1>5. QED BY <1>3, <1>4

\* What a step has to show to keep the invariant.
LEMMA Moves ==
    ASSUME CommitInvariant,
           tables' \in [Datasets -> Seq(Snapshot)], Grown, OncePerIdentity',
           marked' \subseteq Datasets \X Identity,
           \A d \in Datasets, id \in Identity :
              <<d, id>> \in marked' => \/ <<d, id>> \in marked
                                       \/ id \in Lineage(d, Len(tables[d])),
           flight' \subseteq Request,
           \A r \in flight' : Fresh(r.dataset, r.identity, r.base),
           writer' \in [Writers -> WriterState],
           \A w \in Writers : Sound(writer'[w]) \/ Sound(writer[w])'
    PROVE  CommitInvariant'
<1>1. CommitTypeOK /\ CommitTypeOK'
    BY DEF CommitInvariant, CommitTypeOK, WriterState
<1>2. \A d \in Datasets, id \in Identity : <<d, id>> \in marked' => id \in Lineage(d, Len(tables[d]))'
  <2>1. SUFFICES ASSUME NEW d \in Datasets, NEW id \in Identity, <<d, id>> \in marked'
                 PROVE  id \in Lineage(d, Len(tables[d]))'
    OBVIOUS
  <2>2. id \in Lineage(d, Len(tables[d]))
    BY <2>1, InvariantIsSound
  <2>3. QED BY <2>2, <1>1, GrownKeeps
<1>3. \A r \in flight' : Fresh(r.dataset, r.identity, r.base)'
  <2>1. SUFFICES ASSUME NEW r \in flight' PROVE Fresh(r.dataset, r.identity, r.base)'
    OBVIOUS
  <2>2. r.dataset \in Datasets /\ r.base \in Nat
    BY DEF Request
  <2>3. QED BY <2>2, <1>1, GrownKeeps
<1>4. \A w \in Writers : Sound(writer[w])'
  <2>1. SUFFICES ASSUME NEW w \in Writers, Sound(writer'[w]) PROVE Sound(writer[w])'
    OBVIOUS
  <2>2. writer'[w] \in WriterState
    OBVIOUS
  <2>3. QED BY <2>1, <2>2, <1>1, SoundKept DEF Sound
<1>5. QED
  <2>1. CommitInvariant' <=>
            /\ CommitTypeOK' /\ OncePerIdentity'
            /\ \A d \in Datasets, id \in Identity :
                  <<d, id>> \in marked' => id \in Lineage(d, Len(tables[d]))'
            /\ \A r \in flight' : Fresh(r.dataset, r.identity, r.base)'
            /\ \A w \in Writers : Sound(writer[w])'
    BY DEF CommitInvariant, MarkedIsCommitted, RequestsFresh, Sound, At, Busy, InLineage, Current
  <2>2. QED BY <2>1, <1>1, <1>2, <1>3, <1>4

\* A step that only moves one writer to a sound state.
LEMMA WriterMoves ==
    ASSUME CommitInvariant, NEW w \in Writers, NEW r \in WriterState, Sound(r),
           writer' = [writer EXCEPT ![w] = r], UNCHANGED <<tables, marked, flight>>
    PROVE  CommitInvariant'
<1>1. /\ tables' \in [Datasets -> Seq(Snapshot)]
      /\ marked' \subseteq Datasets \X Identity
      /\ flight' \subseteq Request
      /\ writer \in [Writers -> WriterState]
    BY DEF CommitInvariant, CommitTypeOK, WriterState
<1>2. writer' \in [Writers -> WriterState]
    BY <1>1
<1>3. Grown
    BY <1>1 DEF Grown
<1>4. OncePerIdentity'
    BY DEF CommitInvariant, OncePerIdentity
<1>5. \A v \in Writers : Sound(writer'[v])
  <2>1. \A v \in Writers : writer'[v] = IF v = w THEN r ELSE writer[v]
    BY <1>1
  <2>2. QED BY <2>1, InvariantIsSound
<1>6. \A q \in flight' : Fresh(q.dataset, q.identity, q.base)
    BY InvariantIsSound
<1>7. QED BY <1>1, <1>2, <1>3, <1>4, <1>5, <1>6, Moves

\* A writer's state and its fields.
LEMMA WriterTyped ==
    ASSUME CommitInvariant, NEW w \in Writers
    PROVE  /\ writer[w] \in WriterState
           /\ Sound(writer[w])
           /\ Busy(w) => /\ writer[w].jobs # <<>>
                         /\ Current(w) \in Job
                         /\ Current(w).dataset \in Datasets
                         /\ Current(w).identity \in Identity
                         /\ Current(w).rows \in Payload
                         /\ Len(tables[Current(w).dataset]) \in Nat
<1>1. writer[w] \in WriterState /\ tables \in [Datasets -> Seq(Snapshot)]
    BY DEF CommitInvariant, CommitTypeOK, WriterState
<1>2. Sound(writer[w])
    BY InvariantIsSound
<1>3. ASSUME Busy(w) PROVE writer[w].jobs # <<>>
    BY <1>2, <1>3 DEF Sound, Busy
<1>4. ASSUME Busy(w)
      PROVE  /\ Current(w) \in Job
             /\ Current(w).dataset \in Datasets
             /\ Current(w).identity \in Identity
             /\ Current(w).rows \in Payload
  <2>1. writer[w].jobs # <<>>
    BY <1>3, <1>4
  <2>2. QED BY <1>1, <2>1, JobTyped DEF Current
<1>5. ASSUME Busy(w) PROVE Len(tables[Current(w).dataset]) \in Nat
  <2>1. tables[Current(w).dataset] \in Seq(Snapshot)
    BY <1>1, <1>4, <1>5
  <2>2. QED BY <2>1
<1>6. QED BY <1>1, <1>2, <1>3, <1>4, <1>5

\* The writer goes to a stage that asks nothing of the tables.
LEMMA GotoKeeps ==
    ASSUME CommitInvariant, NEW w \in Writers, Busy(w),
           NEW s \in {"files", "refresh", "reload", "failed", "fatal"},
           Goto(w, s), UNCHANGED <<tables, marked, flight>>
    PROVE  CommitInvariant'
<1> DEFINE r == [writer[w] EXCEPT !.stage = s]
<1>1. writer[w] \in WriterState /\ writer[w].jobs # <<>>
    BY WriterTyped
<1>2. r \in WriterState /\ r.stage = s /\ r.jobs = writer[w].jobs
    BY <1>1 DEF WriterState, Stage
<1>3. Sound(r)
    BY <1>1, <1>2 DEF Sound
<1>4. writer' = [writer EXCEPT ![w] = r]
    BY DEF Goto
<1>5. QED BY <1>2, <1>3, <1>4, WriterMoves

\* The writer goes on to its next job.
LEMMA AdvanceTyped ==
    ASSUME CommitInvariant, NEW w \in Writers, Busy(w), Advance(w)
    PROVE  \E r \in WriterState : Sound(r) /\ writer' = [writer EXCEPT ![w] = r]
<1> DEFINE r == [stage |-> IF Len(writer[w].jobs) = 1 THEN "done" ELSE "load",
                 jobs |-> Tail(writer[w].jobs), base |-> 0]
<1>1. writer[w] \in WriterState /\ writer[w].jobs # <<>>
    BY WriterTyped
<1>2. /\ Tail(writer[w].jobs) \in Seq(Job)
      /\ Len(writer[w].jobs) # 1 => Tail(writer[w].jobs) # <<>>
    BY <1>1, JobTyped
<1>3. r \in WriterState
    BY <1>2 DEF WriterState, Stage
<1>4. Sound(r)
    BY <1>2 DEF Sound
<1>5. writer' = [writer EXCEPT ![w] = r]
    BY DEF Advance
<1>6. QED BY <1>3, <1>4, <1>5

LEMMA BeginKeeps ==
    ASSUME CommitInvariant, NEW w \in Writers, NEW jobs \in Seq(Job) \ {<<>>}, Begin(w, jobs)
    PROVE  CommitInvariant'
<1> DEFINE r == [stage |-> "load", jobs |-> jobs, base |-> 0]
<1>1. r \in WriterState
    BY DEF WriterState, Stage
<1>2. Sound(r)
    BY DEF Sound
<1>3. QED BY <1>1, <1>2, WriterMoves DEF Begin

LEMMA LoadTableKeeps ==
    ASSUME CommitInvariant, NEW w \in Writers, LoadTable(w)
    PROVE  CommitInvariant'
<1> DEFINE n == Len(tables[Current(w).dataset])
           r == [writer[w] EXCEPT !.stage = "check", !.base = n]
<1>1. writer[w] \in WriterState /\ writer[w].jobs # <<>> /\ n \in Nat
    BY WriterTyped DEF LoadTable, At, Busy
<1>2. r \in WriterState /\ r.stage = "check" /\ r.jobs = writer[w].jobs /\ r.base = n
    BY <1>1 DEF WriterState, Stage
<1>3. Sound(r)
    BY <1>1, <1>2 DEF Sound, Current
<1>4. writer' = [writer EXCEPT ![w] = r]
    BY DEF LoadTable
<1>5. QED BY <1>2, <1>3, <1>4, WriterMoves DEF LoadTable

\* A writer that finds its commit in the table goes on to mark it.
LEMMA ToMarkKeeps ==
    ASSUME CommitInvariant, NEW w \in Writers, Busy(w), InLineage(Current(w)),
           NEW n \in Nat,
           writer' = [writer EXCEPT ![w] = [@ EXCEPT !.stage = "mark", !.base = n]],
           UNCHANGED <<tables, marked, flight>>
    PROVE  CommitInvariant'
<1> DEFINE r == [writer[w] EXCEPT !.stage = "mark", !.base = n]
<1>1. writer[w] \in WriterState /\ writer[w].jobs # <<>>
    BY WriterTyped
<1>2. r \in WriterState /\ r.stage = "mark" /\ r.jobs = writer[w].jobs
    BY <1>1 DEF WriterState, Stage
<1>3. Sound(r)
    BY <1>1, <1>2 DEF Sound, InLineage, Current
<1>4. writer' = [writer EXCEPT ![w] = r]
    OBVIOUS
<1>5. QED BY <1>2, <1>3, <1>4, WriterMoves

LEMMA GotoMarkKeeps ==
    ASSUME CommitInvariant, NEW w \in Writers, Busy(w), InLineage(Current(w)),
           Goto(w, "mark"), UNCHANGED <<tables, marked, flight>>
    PROVE  CommitInvariant'
<1>1. writer[w] \in WriterState
    BY WriterTyped
<1>2. writer[w].base \in Nat
    BY <1>1 DEF WriterState
<1>3. [writer[w] EXCEPT !.stage = "mark"] = [writer[w] EXCEPT !.stage = "mark", !.base = writer[w].base]
    BY <1>1 DEF WriterState
<1>4. writer' = [writer EXCEPT ![w] = [@ EXCEPT !.stage = "mark", !.base = writer[w].base]]
    BY <1>3 DEF Goto
<1>5. QED BY <1>2, <1>4, ToMarkKeeps

LEMMA CheckCommittedKeeps ==
    ASSUME CommitInvariant, NEW w \in Writers, CheckCommitted(w)
    PROVE  CommitInvariant'
<1> DEFINE j == Current(w)
           seen == j.identity \in Lineage(j.dataset, writer[w].base)
<1>1. Busy(w) /\ UNCHANGED <<tables, marked, flight>>
    BY DEF CheckCommitted, At, Busy
<1>2. CASE Token(j) \in marked /\ seen
  <2>1. Advance(w)
    BY <1>2 DEF CheckCommitted
  <2>2. QED BY <1>1, <2>1, AdvanceTyped, WriterMoves
<1>3. CASE Token(j) \in marked /\ ~seen
  <2>1. Goto(w, "fatal")
    BY <1>3 DEF CheckCommitted
  <2>2. QED BY <1>1, <2>1, GotoKeeps
<1>4. CASE Token(j) \notin marked /\ ~seen
  <2>1. Goto(w, "files")
    BY <1>4 DEF CheckCommitted
  <2>2. QED BY <1>1, <2>1, GotoKeeps
<1>5. CASE Token(j) \notin marked /\ seen
  <2>1. Goto(w, "mark")
    BY <1>5 DEF CheckCommitted
  <2>2. writer[w].base \in Nat /\ Len(tables[j.dataset]) \in Nat /\ writer[w].base <= Len(tables[j.dataset])
    BY <1>1, WriterTyped DEF WriterState, Sound, CheckCommitted, At, Current
  <2>3. InLineage(j)
    BY <1>5, <2>2 DEF InLineage, Lineage
  <2>4. QED BY <1>1, <2>1, <2>3, GotoMarkKeeps
<1>6. QED BY <1>2, <1>3, <1>4, <1>5

LEMMA RefreshKeeps ==
    ASSUME CommitInvariant, NEW w \in Writers, Refresh(w)
    PROVE  CommitInvariant'
<1> DEFINE j == Current(w)
           n == Len(tables[j.dataset])
           r(s) == [writer[w] EXCEPT !.stage = s, !.base = n]
<1>1. /\ Busy(w) /\ UNCHANGED <<tables, marked, flight>>
      /\ writer[w] \in WriterState /\ writer[w].jobs # <<>> /\ n \in Nat
    BY WriterTyped DEF Refresh, At, Busy
<1>2. writer' = [writer EXCEPT ![w] =
                   r(IF ~InLineage(j) THEN "request" ELSE IF j.delta THEN "mark" ELSE "reload")]
    BY DEF Refresh
<1>3. \A s \in Stage : r(s) \in WriterState /\ r(s).stage = s /\ r(s).jobs = writer[w].jobs /\ r(s).base = n
    BY <1>1 DEF WriterState
<1>4. "request" \in Stage /\ "mark" \in Stage /\ "reload" \in Stage
    BY DEF Stage
<1>5. CASE ~InLineage(j)
  <2>1. Fresh(Head(writer[w].jobs).dataset, Head(writer[w].jobs).identity, n)
    BY <1>1, <1>5 DEF Fresh, InLineage, Current
  <2>2. /\ r("request").stage = "request"
        /\ r("request").jobs = writer[w].jobs /\ r("request").base = n
    BY <1>3, <1>4
  <2>3. Sound(r("request"))
    BY <1>1, <2>1, <2>2 DEF Sound
  <2>4. QED BY <1>1, <1>2, <1>3, <1>4, <1>5, <2>3, WriterMoves
<1>6. CASE InLineage(j) /\ j.delta
  <2>1. Sound(r("mark"))
    BY <1>1, <1>3, <1>4, <1>6 DEF Sound, InLineage, Current
  <2>2. QED BY <1>1, <1>2, <1>3, <1>4, <1>6, <2>1, WriterMoves
<1>7. CASE InLineage(j) /\ ~j.delta
  <2>1. Sound(r("reload"))
    BY <1>1, <1>3, <1>4, <1>7 DEF Sound
  <2>2. QED BY <1>1, <1>2, <1>3, <1>4, <1>7, <2>1, WriterMoves
<1>8. QED BY <1>5, <1>6, <1>7

LEMMA UpdateTableKeeps ==
    ASSUME CommitInvariant, NEW w \in Writers, UpdateTable(w)
    PROVE  CommitInvariant'
<1> DEFINE j == Current(w)
<1>1. /\ Busy(w) /\ At(w, "request") /\ UNCHANGED <<marked, flight>>
      /\ writer[w] \in WriterState /\ writer[w].jobs # <<>>
      /\ j.dataset \in Datasets /\ j.identity \in Identity /\ j.rows \in Payload
    BY WriterTyped DEF UpdateTable, At, Busy
<1>2. CASE writer[w].base # Len(tables[j.dataset])
  <2>1. UNCHANGED tables /\ (Goto(w, "refresh") \/ Goto(w, "reload"))
    BY <1>2 DEF UpdateTable, Goto
  <2>2. QED BY <1>1, <2>1, GotoKeeps
<1>3. CASE writer[w].base = Len(tables[j.dataset])
  <2>1. PICK d \in Datasets, id \in Identity, rows \in Payload :
           d = j.dataset /\ id = j.identity /\ rows = j.rows
    BY <1>1
  <2>2. /\ tables' = [tables EXCEPT ![d] = Append(@, [identity |-> id, rows |-> rows])]
        /\ Goto(w, "mark")
    BY <1>3, <2>1 DEF UpdateTable
  <2>3. /\ Fresh(d, id, Len(tables[d]))
        /\ CommitTypeOK /\ OncePerIdentity
    BY <1>1, <1>3, <2>1, WriterTyped DEF Sound, At, Current, CommitInvariant
  <2>4. /\ tables' \in [Datasets -> Seq(Snapshot)] /\ OncePerIdentity' /\ Grown
        /\ id \in Lineage(d, Len(tables[d]))'
    BY <2>2, <2>3, AddSnapshot
  <2> DEFINE r == [writer[w] EXCEPT !.stage = "mark"]
  <2>5. r \in WriterState /\ r.stage = "mark" /\ r.jobs = writer[w].jobs
    BY <1>1 DEF WriterState, Stage
  <2>6. writer \in [Writers -> WriterState]
    BY DEF CommitInvariant, CommitTypeOK, WriterState
  <2>7. writer' \in [Writers -> WriterState] /\ \A v \in Writers : writer'[v] = IF v = w THEN r ELSE writer[v]
    BY <2>2, <2>5, <2>6 DEF Goto
  <2>8. Sound(writer[w])'
    BY <1>1, <2>1, <2>4, <2>5, <2>7 DEF Sound, Current
  <2>9. \A v \in Writers : Sound(writer'[v]) \/ Sound(writer[v])'
    BY <2>7, <2>8, InvariantIsSound
  <2>10. \A q \in flight' : Fresh(q.dataset, q.identity, q.base)
    BY <1>1, InvariantIsSound
  <2>11. marked' \subseteq Datasets \X Identity /\ flight' \subseteq Request
    BY <1>1, <2>3 DEF CommitTypeOK
  <2>12. QED BY <1>1, <2>4, <2>7, <2>9, <2>10, <2>11, Moves
<1>4. QED BY <1>2, <1>3

LEMMA ReloadKeeps ==
    ASSUME CommitInvariant, NEW w \in Writers, Reload(w)
    PROVE  CommitInvariant'
<1>1. Busy(w) /\ UNCHANGED <<tables, marked, flight>>
    BY DEF Reload, At, Busy
<1>2. CASE InLineage(Current(w))
  <2>1. Goto(w, "mark")
    BY <1>2 DEF Reload
  <2>2. QED BY <1>1, <1>2, <2>1, GotoMarkKeeps
<1>3. CASE ~InLineage(Current(w))
  <2>1. Goto(w, "failed")
    BY <1>3 DEF Reload
  <2>2. QED BY <1>1, <2>1, GotoKeeps
<1>4. QED BY <1>2, <1>3

\* Steps that leave the tables alone: what the records, the requests and the
\* writers have to satisfy.
LEMMA TablesStay ==
    ASSUME CommitInvariant, UNCHANGED tables,
           \A t \in marked' : \/ t \in marked
                              \/ \E d \in Datasets, id \in Identity :
                                    t = <<d, id>> /\ id \in Lineage(d, Len(tables[d])),
           \A q \in flight' : q \in flight \/ (q \in Request /\ Fresh(q.dataset, q.identity, q.base)),
           writer' \in [Writers -> WriterState],
           \A w \in Writers : Sound(writer'[w])
    PROVE  CommitInvariant'
<1>1. /\ tables' \in [Datasets -> Seq(Snapshot)]
      /\ marked' \subseteq Datasets \X Identity
      /\ flight' \subseteq Request
    BY DEF CommitInvariant, CommitTypeOK
<1>2. Grown
    BY <1>1 DEF Grown
<1>3. OncePerIdentity'
    BY DEF CommitInvariant, OncePerIdentity
<1>4. \A q \in flight' : Fresh(q.dataset, q.identity, q.base)
    BY InvariantIsSound
<1>5. \A d \in Datasets, id \in Identity :
          <<d, id>> \in marked' => <<d, id>> \in marked \/ id \in Lineage(d, Len(tables[d]))
    OBVIOUS
<1>6. QED BY <1>1, <1>2, <1>3, <1>4, <1>5, Moves

LEMMA MarkDurableKeeps ==
    ASSUME CommitInvariant, NEW w \in Writers, MarkDurable(w)
    PROVE  CommitInvariant'
<1>1. Busy(w) /\ At(w, "mark") /\ UNCHANGED <<tables, flight>> /\ Advance(w)
    BY DEF MarkDurable, At, Busy
<1>2. PICK r \in WriterState : Sound(r) /\ writer' = [writer EXCEPT ![w] = r]
    BY <1>1, AdvanceTyped
<1>3. writer \in [Writers -> WriterState]
    BY DEF CommitInvariant, CommitTypeOK, WriterState
<1>4. writer' \in [Writers -> WriterState] /\ \A v \in Writers : Sound(writer'[v])
    BY <1>2, <1>3, InvariantIsSound
<1>5. /\ Current(w).dataset \in Datasets /\ Current(w).identity \in Identity
      /\ Current(w).identity \in Lineage(Current(w).dataset, Len(tables[Current(w).dataset]))
    BY <1>1, WriterTyped DEF Sound, At, Current
<1>6. marked' = marked \cup {<<Current(w).dataset, Current(w).identity>>}
    BY DEF MarkDurable, Token
<1>7. QED BY <1>1, <1>4, <1>5, <1>6, TablesStay

LEMMA MarkFailsKeeps ==
    ASSUME CommitInvariant, NEW w \in Writers, MarkFails(w)
    PROVE  CommitInvariant'
<1> DEFINE r == [writer[w] EXCEPT !.stage = "failed"]
<1>1. /\ Busy(w) /\ At(w, "mark") /\ UNCHANGED <<tables, flight>>
      /\ writer[w] \in WriterState /\ writer[w].jobs # <<>>
    BY WriterTyped DEF MarkFails, At, Busy
<1>2. r \in WriterState /\ r.stage = "failed" /\ r.jobs = writer[w].jobs
    BY <1>1 DEF WriterState, Stage
<1>3. Sound(r)
    BY <1>1, <1>2 DEF Sound
<1>4. writer \in [Writers -> WriterState] /\ writer' = [writer EXCEPT ![w] = r]
    BY DEF CommitInvariant, CommitTypeOK, WriterState, MarkFails, Goto
<1>5. writer' \in [Writers -> WriterState] /\ \A v \in Writers : Sound(writer'[v])
    BY <1>2, <1>3, <1>4, InvariantIsSound
<1>6. /\ Current(w).dataset \in Datasets /\ Current(w).identity \in Identity
      /\ Current(w).identity \in Lineage(Current(w).dataset, Len(tables[Current(w).dataset]))
    BY <1>1, WriterTyped DEF Sound, At, Current
<1>7. marked' \subseteq marked \cup {<<Current(w).dataset, Current(w).identity>>}
    BY DEF MarkFails, Token
<1>8. QED BY <1>1, <1>5, <1>6, <1>7, TablesStay

\* A writer's request was made for a state without its identity.
LEMMA RequestOfFresh ==
    ASSUME CommitInvariant, NEW w \in Writers, At(w, "request")
    PROVE  /\ RequestOf(w) \in Request
           /\ Fresh(RequestOf(w).dataset, RequestOf(w).identity, RequestOf(w).base)
<1>1. /\ Current(w).dataset \in Datasets /\ Current(w).identity \in Identity
      /\ Current(w).rows \in Payload /\ writer[w].base \in Nat
    BY WriterTyped DEF WriterState, At, Busy
<1>2. Fresh(Current(w).dataset, Current(w).identity, writer[w].base)
    BY WriterTyped DEF Sound, At, Current
<1>3. QED BY <1>1, <1>2 DEF RequestOf, Request

LEMMA AnswerLostKeeps ==
    ASSUME CommitInvariant, NEW w \in Writers, AnswerLost(w)
    PROVE  CommitInvariant'
<1> DEFINE r == [writer[w] EXCEPT !.stage = "reload"]
<1>1. /\ At(w, "request") /\ UNCHANGED <<tables, marked>>
      /\ writer[w] \in WriterState /\ writer[w].jobs # <<>>
    BY WriterTyped DEF AnswerLost, At, Busy
<1>2. r \in WriterState /\ r.stage = "reload" /\ r.jobs = writer[w].jobs
    BY <1>1 DEF WriterState, Stage
<1>3. Sound(r)
    BY <1>1, <1>2 DEF Sound
<1>4. writer \in [Writers -> WriterState] /\ writer' = [writer EXCEPT ![w] = r]
    BY DEF CommitInvariant, CommitTypeOK, WriterState, AnswerLost, Goto
<1>5. writer' \in [Writers -> WriterState] /\ \A v \in Writers : Sound(writer'[v])
    BY <1>2, <1>3, <1>4, InvariantIsSound
<1>6. flight' = flight \cup {RequestOf(w)}
    BY DEF AnswerLost
<1>7. QED BY <1>1, <1>5, <1>6, RequestOfFresh, TablesStay

LEMMA AbandonKeeps ==
    ASSUME CommitInvariant, NEW W \in SUBSET Writers, Abandon(W)
    PROVE  CommitInvariant'
<1>1. UNCHANGED <<tables, marked>>
    BY DEF Abandon
<1>2. Idle \in WriterState /\ Sound(Idle)
    BY DEF Idle, WriterState, Sound, Stage
<1>3. writer \in [Writers -> WriterState]
    BY DEF CommitInvariant, CommitTypeOK, WriterState
<1>4. writer' \in [Writers -> WriterState] /\ \A v \in Writers : Sound(writer'[v])
    BY <1>2, <1>3, InvariantIsSound DEF Abandon
<1>5. \A q \in flight' : q \in flight \/ \E w \in Writers : At(w, "request") /\ q = RequestOf(w)
    BY DEF Abandon
<1>6. \A q \in flight' : q \in flight \/ (q \in Request /\ Fresh(q.dataset, q.identity, q.base))
    BY <1>5, RequestOfFresh
<1>7. QED BY <1>1, <1>4, <1>6, TablesStay

LEMMA LateUpdateKeeps ==
    ASSUME CommitInvariant, LateUpdate
    PROVE  CommitInvariant'
<1>1. PICK q \in flight :
        /\ flight' = flight \ {q}
        /\ IF q.base = Len(tables[q.dataset])
           THEN tables' = [tables EXCEPT
                             ![q.dataset] = Append(@, [identity |-> q.identity, rows |-> q.rows])]
           ELSE UNCHANGED tables
    BY DEF LateUpdate
<1>2. CommitTypeOK /\ OncePerIdentity /\ q \in Request /\ Fresh(q.dataset, q.identity, q.base)
    BY InvariantIsSound DEF CommitTypeOK
<1>3. q.dataset \in Datasets /\ q.identity \in Identity /\ q.rows \in Payload
    BY <1>2 DEF Request
<1>4. writer \in [Writers -> WriterState] /\ \A v \in Writers : Sound(writer[v])
    BY InvariantIsSound DEF CommitTypeOK, WriterState
<1>5. UNCHANGED <<marked, writer>>
    BY DEF LateUpdate
<1>6. CASE q.base # Len(tables[q.dataset])
    BY <1>1, <1>4, <1>5, <1>6, TablesStay
<1>7. CASE q.base = Len(tables[q.dataset])
  <2>1. tables' \in [Datasets -> Seq(Snapshot)] /\ OncePerIdentity' /\ Grown
    BY <1>1, <1>2, <1>3, <1>7, AddSnapshot
  <2>2. \A r \in flight' : Fresh(r.dataset, r.identity, r.base)
    BY <1>1, InvariantIsSound
  <2>3. marked' \subseteq Datasets \X Identity /\ flight' \subseteq Request
    BY <1>1, <1>2, <1>5 DEF CommitTypeOK
  <2>4. QED BY <1>4, <1>5, <2>1, <2>2, <2>3, Moves
<1>8. QED BY <1>6, <1>7

LEMMA InitHolds == CommitInit => CommitInvariant
<1>1. SUFFICES ASSUME CommitInit PROVE CommitInvariant
    OBVIOUS
<1>2. CommitTypeOK
    BY <1>1 DEF CommitInit, CommitTypeOK, Idle, Stage
<1>3. OncePerIdentity
    BY <1>1 DEF CommitInit, OncePerIdentity
<1>4. \A w \in Writers : Sound(writer[w])
    BY <1>1 DEF CommitInit, Idle, Sound
<1>5. QED BY <1>1, <1>2, <1>3, <1>4, InvariantIsSound DEF CommitInit

LEMMA StepKeeps == CommitInvariant /\ [CommitNext]_commitVars => CommitInvariant'
<1>1. SUFFICES ASSUME CommitInvariant, [CommitNext]_commitVars PROVE CommitInvariant'
    OBVIOUS
<1>2. CASE LateUpdate
    BY <1>1, <1>2, LateUpdateKeeps
<1>3. CASE \E W \in SUBSET Writers : Abandon(W)
    BY <1>1, <1>3, AbandonKeeps
<1>4. ASSUME NEW w \in Writers, \E jobs \in Seq(Job) \ {<<>>} : Begin(w, jobs) PROVE CommitInvariant'
    BY <1>1, <1>4, BeginKeeps
<1>5. ASSUME NEW w \in Writers, WriterStep(w) PROVE CommitInvariant'
  <2>1. CASE WriteFiles(w)
    BY <1>1, <2>1, GotoKeeps DEF WriteFiles, At, Busy
  <2>2. QED BY <1>1, <1>5, <2>1, LoadTableKeeps, CheckCommittedKeeps, RefreshKeeps,
               UpdateTableKeeps, ReloadKeeps, MarkDurableKeeps DEF WriterStep
<1>6. ASSUME NEW w \in Writers, WriterFault(w) PROVE CommitInvariant'
  <2>1. CASE CallFails(w)
    BY <1>1, <2>1, GotoKeeps DEF CallFails, At, Busy
  <2>2. CASE RefreshFails(w)
    BY <1>1, <2>2, GotoKeeps DEF RefreshFails, At, Busy
  <2>3. QED BY <1>1, <1>6, <2>1, <2>2, AnswerLostKeeps, MarkFailsKeeps DEF WriterFault
<1>7. CASE UNCHANGED commitVars
  <2>1. writer \in [Writers -> WriterState] /\ \A v \in Writers : Sound(writer[v])
    BY <1>1, InvariantIsSound DEF CommitTypeOK, WriterState
  <2>2. QED BY <1>1, <1>7, <2>1, TablesStay DEF commitVars
<1>8. QED BY <1>1, <1>2, <1>3, <1>4, <1>5, <1>6, <1>7 DEF CommitNext

\* For any writers, tables and commits, whatever fails and whatever answer is
\* lost: no commit is carried out twice (append, apply_replica_delta).
THEOREM CommitsOnce == CommitSpec => []OncePerIdentity
<1>1. CommitInvariant => OncePerIdentity
    BY DEF CommitInvariant
<1>2. QED BY InitHolds, StepKeeps, <1>1, PTL DEF CommitSpec

\* A durable record always stands for a commit in its table
\* (commit_is_durable, mark_commit_durable).
THEOREM RecordsAreTrue == CommitSpec => []MarkedIsCommitted
<1>1. CommitInvariant => MarkedIsCommitted
    BY DEF CommitInvariant
<1>2. QED BY InitHolds, StepKeeps, <1>1, PTL DEF CommitSpec
=============================================================================
