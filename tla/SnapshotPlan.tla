------------------------------ MODULE SnapshotPlan ------------------------------
(* How one Postgres table is cut into snapshot tasks                             *)
(* (connector-postgres/src_batch/planner.rs and planning.rs).                    *)
(*                                                                               *)
(* The planner reads catalog facts, picks a strategy and a number of lanes by    *)
(* estimated cost, and writes the plan as chunks: descriptors that the reader    *)
(* turns into predicates of COPY statements.  Costs are floating-point estimates *)
(* and never decide which rows belong to the snapshot, so here every eligible    *)
(* strategy with every admissible part count may win.                            *)
(*                                                                               *)
(* A row is [page, rank, hash]: its heap page, the number of index cuts that are *)
(* at most its key, and the signed hash of its tuple id.  Open stands for None   *)
(* as a bound.                                                                   *)
EXTENDS Integers, Sequences, FiniteSets, SequencesExt, FiniteSetsExt

Open == -1

(* exclusion: which strategies the catalog facts rule out.                       *)
Eligible(facts, strategy) ==
  CASE strategy = "single"   -> TRUE
    [] strategy = "ctid"     -> facts.heap /\ facts.native
    [] strategy = "weighted" -> facts.heap /\ facts.native /\ facts.weights /= <<>>
    [] strategy = "indexed"  -> facts.cuts > 0
    [] strategy = "hash"     -> facts.heap

Physical(facts) == Max({facts.pages, 1})

(* The most parts a strategy may be given: the configured ceiling, and what the  *)
(* heap or the index can be cut into.                                            *)
Maximum(facts, strategy, cap) ==
  CASE strategy = "single"                -> 1
    [] strategy = "indexed"               -> Min({cap, facts.cuts + 1})
    [] strategy \in {"ctid", "weighted"}  -> Min({cap, Physical(facts)})
    [] strategy = "hash"                  -> cap

(* queued_parts: with an observed distribution, equal-page ranges may be queued  *)
(* behind the lanes, doubling the parts while the heap and the ceiling allow it. *)
QueuedParts(facts, strategy, lanes, cap) ==
  IF strategy = "ctid" /\ facts.weights /= <<>>
    THEN {lanes} \cup {p \in {2 * lanes, 4 * lanes} : p <= Min({Physical(facts), cap})}
    ELSE {lanes}

(* choose: the cheapest eligible candidate.  `useful' is the number of lanes     *)
(* whose setup alone would cost as much as one scan.                             *)
Decisions(facts, cap, useful) ==
  {d \in [strategy : {"single", "ctid", "weighted", "indexed", "hash"},
          lanes : 1 .. Min({cap, useful}), parts : 1 .. cap] :
     /\ Eligible(facts, d.strategy)
     /\ d.lanes <= Maximum(facts, d.strategy, cap)
     /\ d.parts \in QueuedParts(facts, d.strategy, d.lanes, cap)}

---------------------------------------------------------------------------------
(* WeightedCtidLayout.  `heap' is the cost of reading the heap, `output' that of *)
(* the rows it yields; a histogram bin costs its share of both.  All quantities  *)
(* are scaled to integers, so that rounding is the only approximation left.      *)
SumOf(weights) == FoldSeq(LAMBDA w, total : w + total, 0, weights)

BinWork(facts, bin) ==
  facts.heapCost * SumOf(facts.weights)
    + facts.outputCost * facts.weights[bin] * Len(facts.weights)

CumulativeWork(facts, bin) ==
  FoldSeq(LAMBDA b, total : total + BinWork(facts, b), 0, [b \in 1 .. bin |-> b])

TotalWork(facts) == CumulativeWork(facts, Len(facts.weights))

(* raw_boundary: the page at which `part' of `parts' equal shares of work are    *)
(* done, rounded half up.                                                        *)
RawBoundary(facts, parts, part) ==
  LET bins   == Len(facts.weights)
      target == TotalWork(facts) * part
      bin    == Min({b \in 1 .. bins : target < CumulativeWork(facts, b) * parts}
                      \cup {bins})
      done   == target - CumulativeWork(facts, bin - 1) * parts
      scale  == BinWork(facts, bin) * parts
      within == Min({done, scale})
      num    == ((bin - 1) * scale + within) * facts.pages
      den    == scale * bins
  IN (2 * num + den) \div (2 * den)

(* The parts next to a bin's edge: where `RawBoundary(k) - k' may peak.          *)
Transitions(facts, parts) ==
  LET edges == {(CumulativeWork(facts, b) * parts) \div TotalWork(facts) :
                  b \in 0 .. Len(facts.weights)}
  IN ({1} \cup UNION {{e - 1, e, e + 1} : e \in edges}) \cap 1 .. (parts - 1)

(* A slip: each cut is rounded on its own.                                       *)
BoundaryRoundedAlone(facts, parts, part) ==
  IF part = 0 THEN 0
  ELSE IF part = parts THEN facts.pages
  ELSE RawBoundary(facts, parts, part)

(* boundary: the cut before `part', by the prefix maximum over the transitions.  *)
Boundary(facts, parts, part) ==
  IF part = 0 THEN 0
  ELSE IF part = parts THEN facts.pages
  ELSE LET peaks == {t \in Transitions(facts, parts) : t <= part} \cup {part}
           shift == Max({RawBoundary(facts, parts, t) - t : t \in peaks} \cup {0})
       IN part + Min({shift, facts.pages - parts})

(* What boundary is meant to compute, cut by cut: each cut is moved past its     *)
(* predecessor, and one page is kept for every range still to come.              *)
ReferenceCuts(facts, parts) ==
  FoldLeft(LAMBDA cuts, part :
             Append(cuts, Min({Max({RawBoundary(facts, parts, part), Last(cuts) + 1}),
                               facts.pages - parts + part})),
           <<0>>, [part \in 1 .. (parts - 1) |-> part])

---------------------------------------------------------------------------------
(* Chunks and what they select.                                                  *)
Whole == [kind |-> "whole", lower |-> Open, upper |-> Open, end |-> 0]

Between(kind, count, part, at(_), end) ==
  [kind |-> kind, end |-> end,
   lower |-> IF part = 0 THEN Open ELSE at(part),
   upper |-> IF part + 1 = count THEN Open ELSE at(part + 1)]

(* chunks: the descriptor of part 0 .. parts - 1.  A hash chunk keeps its bucket *)
(* in `lower' and its modulus in `upper'.                                        *)
ChunkOf(facts, d, part) ==
  LET page(p) == (p * facts.pages) \div d.parts
      cut(p)  == (p * (facts.cuts + 1)) \div d.parts - 1
      wcut(p) == Boundary(facts, d.parts, p)
  IN CASE d.strategy = "single"   -> Whole
       [] d.strategy = "ctid"     -> Between("ctid", d.parts, part, page, page(part + 1))
       [] d.strategy = "weighted" -> Between("ctid", d.parts, part, wcut, wcut(part + 1))
       [] d.strategy = "indexed"  -> Between("indexed", d.parts, part, cut, 0)
       [] d.strategy = "hash"     -> [kind |-> "hash", lower |-> part, upper |-> d.parts, end |-> 0]

Chunks(facts, d) == [i \in 1 .. d.parts |-> ChunkOf(facts, d, i - 1)]

(* The remainder of SQL takes the sign of its dividend.                          *)
SqlRemainder(a, m) == IF a >= 0 THEN a % m ELSE -((-a) % m)

(* predicate: the rows a chunk's COPY selects.  Cut c separates the keys of rank *)
(* at most c from those of rank above it.                                        *)
Selects(chunk, row) ==
  CASE chunk.kind = "whole"   -> TRUE
    [] chunk.kind = "ctid"    -> /\ chunk.lower = Open \/ row.page >= chunk.lower
                                 /\ chunk.upper = Open \/ row.page < chunk.upper
    [] chunk.kind = "indexed" -> /\ chunk.lower = Open \/ row.rank > chunk.lower
                                 /\ chunk.upper = Open \/ row.rank <= chunk.upper
    [] chunk.kind = "hash"    -> LET m == chunk.upper
                                 IN SqlRemainder(SqlRemainder(row.hash, m) + m, m) = chunk.lower

(* page_span; zero where a chunk has no pages of its own.                        *)
PageSpan(chunk) ==
  IF chunk.kind = "ctid"
    THEN (IF chunk.upper = Open THEN chunk.end ELSE chunk.upper)
           - (IF chunk.lower = Open THEN 0 ELSE chunk.lower)
    ELSE 0

(* A slip: the halves share the page in the middle.                              *)
SplitPendingSharing(chunk) ==
  LET low == IF chunk.lower = Open THEN 0 ELSE chunk.lower
      mid == low + PageSpan(chunk) \div 2
  IN << [chunk EXCEPT !.upper = mid + 1, !.end = mid + 1], [chunk EXCEPT !.lower = mid] >>

(* split_pending: a range of two or more pages halves.                           *)
SplitPending(chunk) ==
  LET low == IF chunk.lower = Open THEN 0 ELSE chunk.lower
      mid == low + PageSpan(chunk) \div 2
  IN << [chunk EXCEPT !.upper = mid, !.end = mid], [chunk EXCEPT !.lower = mid] >>

(* validate_initial_cover: the queue refuses a plan with a gap, an overlap, a    *)
(* closed outer tail or mixed strategies.                                        *)
ValidInitialCover(chunks) ==
  LET n == Len(chunks)
      ordered(i) ==
        /\ chunks[i].lower = (IF i = 1 THEN Open ELSE chunks[i - 1].upper)
        /\ (chunks[i].upper = Open) <=> (i = n)
  IN \A i \in 1 .. n :
       /\ chunks[i].kind = chunks[1].kind
       /\ CASE chunks[i].kind = "whole"   -> n = 1
            [] chunks[i].kind = "ctid"    -> ordered(i) /\ PageSpan(chunks[i]) >= (IF i = n THEN 0 ELSE 1)
            [] chunks[i].kind = "indexed" -> /\ ordered(i)
                                             /\ i \notin {1, n} => chunks[i].lower < chunks[i].upper
            [] chunks[i].kind = "hash"    -> chunks[i].lower = i - 1 /\ chunks[i].upper = n
================================================================================
