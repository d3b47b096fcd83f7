--------------------------- MODULE YdbFenceProofs ---------------------------
(***************************************************************************)
(* That the fence of a YDB replication is exclusive, for every number of   *)
(* executions, every session timeout that the code accepts and every delay *)
(* of messages and of the server, as long as the task that watches the     *)
(* deadline is late by less than the margin.                               *)
(***************************************************************************)
EXTENDS YdbFence, TLAPS

\* What the server still grants is measured against what the execution
\* believes: an answered heartbeat of age a leaves the session at least
\* Timeout - a, and a proof is covered by the margin on top.
Covered(e) ==
    /\ pc[e] \in {"granted", "proving", "held"} => session[e] \in {"owner", "ended"}
    /\ pc[e] \in {"proving", "held"} /\ ping[e] = "down" /\ age[e] < Window =>
          session[e] = "owner" /\ left[e] >= Timeout - age[e]
    /\ pc[e] = "held" => session[e] = "owner" /\ left[e] >= proof[e] + Margin

OneOwner == \A e, f \in Executions : session[e] = "owner" /\ session[f] = "owner" => e = f

FenceInv == FenceTypeOK /\ OneOwner /\ \A e \in Executions : Covered(e)

\* The integers that conservative_heartbeat_window computes.
LEMMA Clocks ==
    /\ Timeout \in Nat /\ Margin \in Nat /\ Window \in Nat /\ Period \in Nat /\ Lateness \in Nat
    /\ Margin > 0 /\ Window > 0 /\ Window < Timeout /\ Window + Margin = Timeout
    /\ Period > 0 /\ Lateness < Margin
<1>1. Timeout \in Nat /\ Timeout \div 3 \in Int
  BY FenceAssumption
<1>2. 3 * (Timeout \div 3) <= Timeout /\ Timeout \div 3 > 0
  BY <1>1, FenceAssumption DEF Margin
<1>3. Window \div 2 \in Int
  BY <1>1, <1>2 DEF Window, Margin
<1> QED
  BY <1>1, <1>2, <1>3, FenceAssumption DEF Margin, Window, Period

LEMMA FenceInitial == FenceInit => FenceInv
BY Clocks DEF FenceInit, FenceInv, FenceTypeOK, OneOwner, Covered

LEMMA FenceStep == FenceInv /\ [FenceNext]_fenceVars => FenceInv'
<1> SUFFICES ASSUME FenceInv, [FenceNext]_fenceVars PROVE FenceInv'
  OBVIOUS
<1> USE Clocks
<1>0. CASE UNCHANGED fenceVars
  BY <1>0 DEF fenceVars, FenceInv, FenceTypeOK, OneOwner, Covered
<1>1. CASE Tick
  <2>1. FenceTypeOK'
    BY <1>1 DEF Tick, FenceInv, FenceTypeOK
  <2>2. OneOwner'
    BY <1>1 DEF Tick, FenceInv, OneOwner
  <2>3. ASSUME NEW e \in Executions PROVE Covered(e)'
    <3>1. Covered(e)
      BY DEF FenceInv
    <3> QED
      BY <1>1, <3>1 DEF Tick, FenceInv, FenceTypeOK, Covered
  <2> QED
    BY <2>1, <2>2, <2>3 DEF FenceInv
<1>2. ASSUME NEW e \in Executions, Step(e) PROVE FenceInv'
  <2> USE DEF FenceInv, FenceTypeOK, OneOwner, Covered
  <2>1. CASE Opens(e)
    BY <2>1 DEF Opens
  <2>2. CASE Describes(e)
    BY <2>2 DEF Describes
  <2>3. CASE Requests(e)
    BY <2>3 DEF Requests
  <2>4. CASE Proves(e)
    BY <2>4 DEF Proves
  <2>5. CASE Holds(e)
    BY <2>5 DEF Holds, Renewed
  <2>6. CASE Beats(e)
    BY <2>6 DEF Beats
  <2>7. CASE Renews(e)
    BY <2>7 DEF Renews, Renewed
  <2>8. CASE Stops(e)
    BY <2>8 DEF Stops
  <2>9. CASE Loses(e)
    BY <2>9 DEF Loses
  <2>10. CASE Grants(e)
    BY <2>10 DEF Grants
  <2>11. CASE Answers(e)
    BY <2>11 DEF Answers
  <2>12. CASE Echoes(e)
    BY <2>12 DEF Echoes
  <2>13. CASE Ends(e)
    BY <2>13 DEF Ends
  <2> QED
    BY <1>2, <2>1, <2>2, <2>3, <2>4, <2>5, <2>6, <2>7,
       <2>8, <2>9, <2>10, <2>11, <2>12, <2>13 DEF Step, Acquires, Maintains, Serves
<1> QED
  BY <1>0, <1>1, <1>2 DEF FenceNext

\* At no time do two executions believe to hold the fence of a replication,
\* and the one that does owns the semaphore (fence_lost, check_fence).
THEOREM FenceHolds == FenceSpec => []FenceExclusive
<1>1. FenceInv => FenceExclusive
  BY DEF FenceInv, OneOwner, Covered, FenceExclusive
<1> QED
  BY <1>1, FenceInitial, FenceStep, PTL DEF FenceSpec
=============================================================================
