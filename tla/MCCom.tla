------------------------------- MODULE MCCom -------------------------------
(***************************************************************************)
(* Small instances of Com: two apartments, addresses for a factory, a      *)
(* provider and a credential and one more of any kind.                     *)
(***************************************************************************)
EXTENDS Com, TLC

CONSTANTS a1, a2, o1, o2, o3, o4

HostSymmetry == Permutations(Apartments) \cup Permutations(Objects)
=============================================================================
