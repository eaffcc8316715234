------------------------------ MODULE MCUnlock ------------------------------
(***************************************************************************)
(* Small instances of Unlock: steps of two seconds, a lockout of two or    *)
(* three seconds after some failures.                                      *)
(***************************************************************************)
EXTENDS UnlockGate, TLC

CONSTANTS p1, p2, c0, c1, c2, c3

\* No code repeats within four steps, so none within a skew window.
DistinctHotp(s) == CASE s % 4 = 0 -> c0 [] s % 4 = 1 -> c1
                     [] s % 4 = 2 -> c2 [] s % 4 = 3 -> c3

\* Steps 0 and 1 share a code, steps 2 and 3 the next one.
CollidingHotp(s) == IF s % 4 < 2 THEN c0 ELSE c1

PromptSymmetry == Permutations(Prompts)

NoAdjustment == {0}

\* The clock may run six seconds ahead, or behind the epoch.
Adjustments == {-3, 0, 6}

\* The clock may run six seconds ahead.
ClockAhead == {0, 6}
=============================================================================
