---------------------------- MODULE MCControlPlane ----------------------------
(***************************************************************************)
(* Instances of ControlPlane: two interchangeable requests.                *)
(***************************************************************************)
EXTENDS ControlPlane, TLC

CONSTANTS c1, c2

MCRequests == {c1, c2}
Symmetry == Permutations(MCRequests)
=============================================================================
