---------------------------- MODULE MCElevation ----------------------------
(***************************************************************************)
(* A small instance of Elevation: two prompts, steps of one second without *)
(* skew, and one code that is the right one in every step; a wrong code is *)
(* a malformed one.                                                        *)
(***************************************************************************)
EXTENDS Elevation

CONSTANTS p1, p2, c0

SameHotp(s) == c0

NoAdjustment == {0}
=============================================================================
