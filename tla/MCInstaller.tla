---------------------------- MODULE MCInstaller ----------------------------
(***************************************************************************)
(* Small instances of Installer: two account names that are valid, one     *)
(* that is not, two versions of the product.                               *)
(***************************************************************************)
EXTENDS Installer, TLC

CONSTANTS a, b

NameSymmetry == Permutations(Names)
=============================================================================
