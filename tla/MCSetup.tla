------------------------------ MODULE MCSetup ------------------------------
(***************************************************************************)
(* Small instances of Setup: two account names that are valid, one that is *)
(* not, and up to three commands.                                          *)
(***************************************************************************)
EXTENDS Setup

CONSTANTS a, b
=============================================================================
