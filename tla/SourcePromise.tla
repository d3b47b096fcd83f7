--------------------------- MODULE SourcePromise ----------------------------
(***************************************************************************)
(* What a source that resumes from a recorded position promises: it fixes  *)
(* once the position from which it streams, every change behind that       *)
(* position is accounted for by then, changes are delivered in any order   *)
(* and again and again, and the recorded position moves forward only over  *)
(* changes that were delivered.                                            *)
(***************************************************************************)
EXTENDS Integers

CONSTANT Changes      \* the positions at which the source has changes

VARIABLES
    origin,           \* the position from which changes are streamed; -1: not fixed
    resume,           \* the recorded position; -1: none
    delivered         \* the changes at the destination

promiseVars == <<origin, resume, delivered>>

Start == origin = -1 /\ resume = -1 /\ delivered = {}

\* What precedes the origin is not the stream's to deliver.
Begin ==
    /\ origin = -1
    /\ origin' \in Nat
    /\ resume' \in {resume, origin'}
    /\ UNCHANGED delivered

Deliver ==
    /\ origin # -1
    /\ \E c \in Changes : delivered' = delivered \cup {c}
    /\ UNCHANGED <<origin, resume>>

Record ==
    /\ origin # -1
    /\ resume' \in Nat
    /\ resume' >= resume /\ resume' >= origin
    /\ \A c \in Changes : origin < c /\ c <= resume' => c \in delivered
    /\ UNCHANGED <<origin, delivered>>

Promise == Start /\ [][Begin \/ Deliver \/ Record]_promiseVars
=============================================================================
