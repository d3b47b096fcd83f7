----------------------------- MODULE MCAdmission -----------------------------
(***************************************************************************)
(* A known table t, a new table u, and a second schema of u.               *)
(***************************************************************************)
EXTENDS Admission

T1 == [table |-> "t", schema |-> 1]
U1 == [table |-> "u", schema |-> 1]
U2 == [table |-> "u", schema |-> 2]

MCKnown == {T1}
Data(needs) == [kind |-> "data", needs |-> needs]
Announce(d) == [kind |-> "dataset", needs |-> {d}]

\* The source announces u; its second schema is found in the rows.
MCAnnounced ==
    <<Data({T1}), Data({T1}), Announce(U1), Data({T1, U1}), Announce(U1), Data({U2})>>

\* Every new schema is found in the rows.
MCDiscovered ==
    <<Data({T1}), Data({T1}), Data({T1, U1}), Data({T1}), Data({U2})>>

Setup(items, tracked) == [items |-> items, tracked |-> tracked]
MCSetups == {Setup(MCAnnounced, FALSE), Setup(MCDiscovered, FALSE), Setup(MCDiscovered, TRUE)}
MCAnnouncedTracked == {Setup(MCAnnounced, TRUE)}
=============================================================================
