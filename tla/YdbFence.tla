------------------------------ MODULE YdbFence ------------------------------
(***************************************************************************)
(* The fence of a YDB replication: a semaphore of limit one, owned through *)
(* a coordination session that the server ends when it has not heard from  *)
(* the execution for the negotiated timeout.  The execution never asks     *)
(* whether it still owns the semaphore; it keeps a proof, a deadline       *)
(* counted from the sending of the last heartbeat that was answered.       *)
(*                                                                         *)
(* Time is discrete, and every clock is kept relative to now, so that it   *)
(* may pass without end.  An execution here is one attempt, with a session *)
(* of its own; what follows a failure is another execution.                *)
(***************************************************************************)
EXTENDS Integers

CONSTANTS
    Executions,
    Timeout,      \* of a session, as negotiated
    Lateness      \* how late the task that watches the deadline may run

VARIABLES
    pc,           \* of an execution
    ping,         \* its heartbeat: "none", "up" (to the server), "down" (answered)
    age,          \* the time since that heartbeat was sent, up to Window
    proof,        \* the time left until the deadline; negative when it has passed
    session,      \* the server's side: "none", "live", "waiting", "owner", "ended"
    left          \* the time after which the server may end the session

fenceVars == <<pc, ping, age, proof, session, left>>

\* Slip: the proof lasts as long as the session.
UnguardedWindow == Timeout

\* conservative_heartbeat_window: a third of the timeout is left as a margin.
Margin == Timeout \div 3
Window == Timeout - Margin
Period == Window \div 2

ASSUME FenceAssumption ==
    /\ Timeout \in Nat /\ Margin > 0 /\ Period > 0
    /\ Lateness \in 0..(Margin - 1)

-----------------------------------------------------------------------------
(* Acquisition.                                                            *)

\* The stream and SessionStart.
Opens(e) ==
    /\ pc[e] = "new"
    /\ pc' = [pc EXCEPT ![e] = "opened"]
    /\ session' = [session EXCEPT ![e] = "live"]
    /\ left' = [left EXCEPT ![e] = Timeout]
    /\ UNCHANGED <<ping, age, proof>>

\* CreateSemaphore and DescribeSemaphore: it has the limit one.
Describes(e) ==
    /\ pc[e] = "opened" /\ session[e] = "live"
    /\ pc' = [pc EXCEPT ![e] = "described"]
    /\ UNCHANGED <<ping, age, proof, session, left>>

\* AcquireSemaphore: the server queues it.
Requests(e) ==
    /\ pc[e] = "described"
    /\ pc' = [pc EXCEPT ![e] = "acquiring"]
    /\ session' = [session EXCEPT ![e] = IF @ = "live" THEN "waiting" ELSE @]
    /\ UNCHANGED <<ping, age, proof, left>>

\* The semaphore is granted, to an execution that may be gone by now.
Grants(e) ==
    /\ session[e] = "waiting" /\ \A f \in Executions : session[f] # "owner"
    /\ session' = [session EXCEPT ![e] = "owner"]
    /\ pc' = [pc EXCEPT ![e] = IF @ = "acquiring" THEN "granted" ELSE @]
    /\ UNCHANGED <<ping, age, proof, left>>

\* Slip: AcquireSemaphoreResult is taken as the proof.
HoldsAtOnce(e) ==
    /\ pc[e] = "granted"
    /\ pc' = [pc EXCEPT ![e] = "held"]
    /\ proof' = [proof EXCEPT ![e] = Window]
    /\ UNCHANGED <<ping, age, session, left>>

\* AcquireSemaphoreResult arrives, and establish_coordination_heartbeat sends
\* the first heartbeat: the grant itself may be old.
Proves(e) ==
    /\ pc[e] = "granted"
    /\ pc' = [pc EXCEPT ![e] = "proving"]
    /\ ping' = [ping EXCEPT ![e] = "up"]
    /\ age' = [age EXCEPT ![e] = 0]
    /\ UNCHANGED <<proof, session, left>>

\* Slip: the deadline is counted from the arrival of the answer.
RenewedOnArrival(e) == Window

\* acknowledged_heartbeat_deadline, as time left.
Renewed(e) == Window - age[e]

Holds(e) ==
    /\ pc[e] = "proving" /\ ping[e] = "down" /\ age[e] < Window
    /\ pc' = [pc EXCEPT ![e] = "held"]
    /\ ping' = [ping EXCEPT ![e] = "none"]
    /\ proof' = [proof EXCEPT ![e] = Renewed(e)]
    /\ UNCHANGED <<age, session, left>>

-----------------------------------------------------------------------------
(* maintain_coordination_session.                                          *)

Beats(e) ==
    /\ pc[e] = "held" /\ ping[e] = "none"
    /\ 0 < proof[e] /\ proof[e] <= Window - Period
    /\ ping' = [ping EXCEPT ![e] = "up"]
    /\ age' = [age EXCEPT ![e] = 0]
    /\ UNCHANGED <<pc, proof, session, left>>

\* The timer comes before the answer in the select.
Renews(e) ==
    /\ pc[e] = "held" /\ ping[e] = "down"
    /\ 0 < proof[e] /\ age[e] < Window
    /\ ping' = [ping EXCEPT ![e] = "none"]
    /\ proof' = [proof EXCEPT ![e] = Renewed(e)]
    /\ UNCHANGED <<pc, age, session, left>>

\* The deadline passes, an answer comes too late, a request times out, the
\* server reports a failure or the stream breaks.
Loses(e) ==
    /\ pc[e] \notin {"new", "gone"}
    /\ pc' = [pc EXCEPT ![e] = "gone"]
    /\ ping' = [ping EXCEPT ![e] = "none"]
    /\ UNCHANGED <<age, proof, session, left>>

\* The delivery is cancelled, or the fence is dropped: SessionStop.
Stops(e) ==
    /\ pc[e] = "held" /\ 0 < proof[e]
    /\ pc' = [pc EXCEPT ![e] = "stopping"]
    /\ UNCHANGED <<ping, age, proof, session, left>>

-----------------------------------------------------------------------------
(* The server, and time.                                                   *)

Answers(e) ==
    /\ ping[e] = "up" /\ session[e] \in {"live", "waiting", "owner"}
    /\ ping' = [ping EXCEPT ![e] = "down"]
    /\ left' = [left EXCEPT ![e] = Timeout]
    /\ UNCHANGED <<pc, age, proof, session>>

\* The execution's Pong to the server's own Ping, sent at any time before.
Echoes(e) ==
    /\ session[e] \in {"live", "waiting", "owner"}
    /\ left' = [left EXCEPT ![e] = Timeout]
    /\ UNCHANGED <<pc, ping, age, proof, session>>

\* SessionStop, or a session of which nothing was heard.
Ends(e) ==
    /\ session[e] \in {"live", "waiting", "owner"}
    /\ left[e] = 0 \/ pc[e] = "stopping"
    /\ session' = [session EXCEPT ![e] = "ended"]
    /\ left' = [left EXCEPT ![e] = 0]
    /\ UNCHANGED <<pc, ping, age, proof>>

\* The task notices a deadline that has passed before it is Lateness late.
Tick ==
    /\ \A e \in Executions : pc[e] = "held" => proof[e] > -Lateness
    /\ age' = [e \in Executions |-> IF ping[e] = "none" THEN 0
                                    ELSE IF age[e] < Window THEN age[e] + 1 ELSE Window]
    /\ proof' = [e \in Executions |-> IF pc[e] = "held" THEN proof[e] - 1 ELSE 0]
    /\ left' = [e \in Executions |-> IF left[e] > 0 THEN left[e] - 1 ELSE 0]
    /\ UNCHANGED <<pc, ping, session>>

-----------------------------------------------------------------------------
FenceInit ==
    /\ pc = [e \in Executions |-> "new"]
    /\ ping = [e \in Executions |-> "none"]
    /\ age = [e \in Executions |-> 0]
    /\ proof = [e \in Executions |-> 0]
    /\ session = [e \in Executions |-> "none"]
    /\ left = [e \in Executions |-> 0]

Acquires(e) == Opens(e) \/ Describes(e) \/ Requests(e) \/ Proves(e) \/ Holds(e)
Maintains(e) == Beats(e) \/ Renews(e) \/ Stops(e)
Serves(e) == Grants(e) \/ Answers(e) \/ Echoes(e) \/ Ends(e)
Step(e) == Acquires(e) \/ Maintains(e) \/ Loses(e) \/ Serves(e)

FenceNext == Tick \/ \E e \in Executions : Step(e)
FenceSpec == FenceInit /\ [][FenceNext]_fenceVars

-----------------------------------------------------------------------------
FenceTypeOK ==
    /\ pc \in [Executions -> {"new", "opened", "described", "acquiring", "granted", "proving",
                              "held", "stopping", "gone"}]
    /\ ping \in [Executions -> {"none", "up", "down"}]
    /\ age \in [Executions -> 0..Window]
    /\ proof \in [Executions -> (-Lateness)..Window]
    /\ session \in [Executions -> {"none", "live", "waiting", "owner", "ended"}]
    /\ left \in [Executions -> 0..Timeout]

\* An execution that believes to hold the fence, and was not told to stop,
\* owns the semaphore, and no other execution believes so: replication does
\* not run twice, although nobody asks the server (fence_lost, check_fence).
FenceExclusive ==
    \A e \in Executions :
       pc[e] = "held" =>
          /\ session[e] = "owner"
          /\ \A f \in Executions : pc[f] = "held" => f = e
=============================================================================
