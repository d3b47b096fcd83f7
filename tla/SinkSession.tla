---------------------------- MODULE SinkSession ----------------------------
(***************************************************************************)
(* What a sink actor sees of the pipeline around it (Pipeline): deliveries *)
(* of consecutive messages, the end of its input, and its own              *)
(* CommittedThrough events, which move the position from which the source  *)
(* resumes.  A message is named by its position.  How many messages the    *)
(* source puts into a delivery differs from session to session.            *)
(***************************************************************************)
EXTENDS Naturals, Sequences, FiniteSets

CONSTANTS
    NumMessages,   \* length of the source log
    MaxBatch,      \* bound on the messages of a delivery
    MaxFaults      \* bound on failures of the source, the process and the services

VARIABLES
    committed,     \* source: the last message whose delivery was committed
    base,          \* session: the message after which the source started
    handed,        \* session: the last message of each delivery handed to the sink
    input,         \* session: "open", "finished" or "failed"
    session,       \* "run", "ended", "stopped" (a retry or the operator starts the next one),
                   \* "fatal" or "mismatch"
    faults

sessionVars == <<committed, base, handed, input, session, faults>>

Message == 1..NumMessages

SessionInit ==
    /\ committed = 0 /\ base = 0
    /\ handed = <<>>
    /\ input = "open"
    /\ session = "run"
    /\ faults = 0

Runs == session = "run"
Fault == faults < MaxFaults /\ faults' = faults + 1
NoFault == faults' = faults

LastHanded == IF handed = <<>> THEN base ELSE handed[Len(handed)]

\* The next delivery is made of the messages up to `last`.
Hand(last) ==
    /\ input = "open"
    /\ LastHanded < last /\ last <= LastHanded + MaxBatch
    /\ handed' = Append(handed, last)
    /\ UNCHANGED <<committed, base, input, session, faults>>

\* A finite source, or a cancelled one, returns Finished.
SourceFinishes ==
    /\ Runs /\ input = "open"
    /\ LastHanded = NumMessages
    /\ input' = "finished"
    /\ UNCHANGED <<committed, base, handed, session, faults>>

\* read_batch fails: reader_loop_inner drops both of its channels before the
\* source is shut down, so the sink sees an ordinary end of its input while
\* nobody receives its events any more.
SourceFails ==
    /\ Runs /\ input = "open"
    /\ Fault
    /\ input' = "failed"
    /\ UNCHANGED <<committed, base, handed, session>>

\* DeliveryTracker: the deliveries of the longest prefix that is durable.
Through(durable) ==
    LET ends == {handed[i] : i \in DOMAIN handed}
        full == {e \in ends : (base + 1)..e \subseteq durable}
    IN  IF full = {} THEN base ELSE CHOOSE e \in full : \A f \in full : f <= e

\* emit_committed, and commit_offsets of the source when it gets the event.
\* The event may be on its way for any time.
Emit(durable) ==
    /\ Runs
    /\ Through(durable) > committed
    /\ IF input = "failed"
       THEN session' = "stopped" /\ UNCHANGED committed
       ELSE committed' = Through(durable) /\ UNCHANGED session
    /\ UNCHANGED <<base, handed, input, faults>>

\* The session ends early: the process dies, the sink fails or, once the
\* reader has failed, the supervisor cancels.
Stops ==
    /\ Runs
    /\ IF input = "failed" THEN NoFault ELSE Fault
    /\ session' = "stopped"
    /\ UNCHANGED <<committed, base, handed, input>>

\* The sink returns Ok at the end of its input.
Returns ==
    /\ Runs
    /\ session' = IF input = "failed" THEN "stopped" ELSE "ended"
    /\ UNCHANGED <<committed, base, handed, input, faults>>

Restarts ==
    /\ session = "stopped"
    /\ session' = "run"
    /\ base' = committed
    /\ handed' = <<>>
    /\ input' = "open"
    /\ UNCHANGED <<committed, faults>>

SessionTypeOK ==
    /\ committed \in 0..NumMessages /\ base \in 0..committed
    /\ handed \in Seq(Message)
    /\ input \in {"open", "finished", "failed"}
    /\ session \in {"run", "stopped", "fatal", "mismatch", "ended"}
    /\ faults \in 0..MaxFaults
=============================================================================
