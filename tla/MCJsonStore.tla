---------------------------- MODULE MCJsonStore ----------------------------
(* Two requests against two deliveries. *)
EXTENDS JsonStore, TLC

CONSTANTS c1, c2, d1, d2
MCClients == {c1, c2}
MCDeliveries == {d1, d2}
Symmetry == Permutations(MCClients) \cup Permutations(MCDeliveries)
============================================================================
