-------------------------------- MODULE Totp --------------------------------
(***************************************************************************)
(* The time-based one-time codes of otpuac-core/src/totp.rs.  A code is a  *)
(* member of Codes; Hotp(s) is the code the secret yields for time step s. *)
(* The HMAC is left open: every result holds for every function, also one  *)
(* that gives two steps the same code.                                     *)
(***************************************************************************)
EXTENDS Integers

CONSTANTS
    Codes,        \* the six-digit codes
    Hotp(_),      \* the code of a time step
    StepSeconds,  \* STEP_SECONDS, 30 in the code
    SkewSteps     \* SKEW_STEPS, 1 in the code

ASSUME TotpAssumption ==
    /\ StepSeconds \in Nat \ {0}
    /\ SkewSteps \in Nat

Steps == Nat

StepAt(time) == time \div StepSeconds

\* Mutant: two steps of clock skew are accepted on the late side.
WindowTooLate(time) ==
    LET current == StepAt(time)
    IN  { s \in 0 .. current + SkewSteps + 1 : s + SkewSteps >= current }

\* Mutant: an authenticator that runs ahead is not tolerated.
WindowWithoutAhead(time) ==
    LET current == StepAt(time)
    IN  { s \in 0 .. current : s + SkewSteps >= current }

\* current.saturating_sub(SKEW_STEPS) ..= current + SKEW_STEPS
Window(time) ==
    LET current == StepAt(time)
    IN  { s \in 0 .. current + SkewSteps : s + SkewSteps >= current }

Matches(code, time) ==
    { s \in Window(time) : code \in Codes /\ Hotp(s) = code }

\* Option<u64>: {} for None, {s} for Some(s).  The iterator finds the lowest.
MatchingStep(code, time) ==
    { s \in Matches(code, time) : \A m \in Matches(code, time) : s <= m }

(***************************************************************************)
(* The reference meaning of a valid code, stated on seconds and not on the *)
(* window: `code' belongs to step s, and `time' is at most SkewSteps steps *)
(* away from the StepSeconds seconds of that step.                         *)
(***************************************************************************)
ValidFor(code, s, time) ==
    /\ Hotp(s) = code
    /\ (s - SkewSteps) * StepSeconds <= time
    /\ time < (s + SkewSteps + 1) * StepSeconds
=============================================================================
