---------------------------- MODULE AtLeastOnce ----------------------------
(***************************************************************************)
(* What a partition of a delivery promises, without its actors, channels   *)
(* and retries: outputs become durable one at a time and in any order, the *)
(* source position moves forward only over batches that are durable, and   *)
(* the task reports the end of a finite source only when nothing is        *)
(* missing.  A finite source keeps its position in the memory of the       *)
(* process, so a new process starts at 0.                                  *)
(***************************************************************************)
EXTENDS Naturals

CONSTANTS NumBatches, Outputs, Finite

VARIABLES
    srcCommitted, \* the last acknowledged batch
    durable,      \* the <<batch, output>> pairs at the destination
    finished      \* the task reported that the source is drained

aloVars == <<srcCommitted, durable, finished>>

Delivered(p) == \A u \in Outputs[p] : <<p, u>> \in durable

Start == srcCommitted = 0 /\ durable = {} /\ finished = FALSE

Write ==
    /\ ~finished
    /\ \E p \in 1..NumBatches : \E u \in Outputs[p] :
          durable' = durable \cup {<<p, u>>}
    /\ UNCHANGED <<srcCommitted, finished>>

Commit ==
    /\ ~finished
    /\ \E p \in (srcCommitted + 1)..NumBatches :
          /\ \A q \in 1..p : Delivered(q)
          /\ srcCommitted' = p
    /\ UNCHANGED <<durable, finished>>

Forget ==
    /\ Finite /\ ~finished
    /\ srcCommitted' = 0
    /\ UNCHANGED <<durable, finished>>

Finish ==
    /\ Finite /\ ~finished
    /\ \A p \in 1..NumBatches : Delivered(p)
    /\ finished' = TRUE
    /\ UNCHANGED <<srcCommitted, durable>>

Promise == Start /\ [][Write \/ Commit \/ Forget \/ Finish]_aloVars
============================================================================
