----------------------------- MODULE UnlockGate -----------------------------
(***************************************************************************)
(* unlock() as an implementation of the one-time gate: while prompts do    *)
(* not overlap and the wall clock is not adjusted, writing an accepting    *)
(* guard uses up its step, writing a denying guard refuses the attempt,    *)
(* and releasing the credential opens the gate; everything else is time,   *)
(* a new attempt, or a stutter.                                            *)
(***************************************************************************)
EXTENDS Unlock

Gate == INSTANCE OneTimeGate WITH
            now     <- uptime,
            asked   <- attempts,
            spent   <- guard.last,
            opened  <- { r.step : r \in released },
            refused <- denials,
            Count   <- Cardinality

\* Every behaviour of unlock() is one of the gate (unlock.rs:10-12): also
\* with crashes, failed reads and failed writes at every point of a call.
GateSpec == Gate!Spec
=============================================================================
