------------------------------- MODULE Guard -------------------------------
(***************************************************************************)
(* The replay and brute-force guard of otpuac-core/src/guard.rs as         *)
(* operators on its value.  `failures' is a Vec<u64> whose order nothing   *)
(* reads, so it is a set; each entry carries, next to the time the code    *)
(* stores (at), the number of the attempt and the true time it was made    *)
(* (id, born), which keep equal times apart and let properties speak of    *)
(* real time.  The code never reads id and born, nor does any operator     *)
(* here.                                                                   *)
(***************************************************************************)
EXTENDS Integers, FiniteSets

CONSTANTS
    MaxFailures,    \* MAX_FAILURES, 5 in the code
    LockoutSeconds  \* LOCKOUT_SECONDS, 300 in the code

ASSUME GuardAssumption ==
    /\ MaxFailures \in Nat \ {0}
    /\ LockoutSeconds \in Nat \ {0}

\* last_step: None
NoStep == -1

Failures == [at : Nat, id : Nat, born : Nat]

Guards == [last : Nat \cup {NoStep}, failures : SUBSET Failures]

FreshGuard == [last |-> NoStep, failures |-> {}]

\* now.saturating_sub(at)
Elapsed(now, at) == IF at <= now THEN now - at ELSE 0

Recent(guard, now) ==
    { f \in guard.failures : Elapsed(now, f.at) < LockoutSeconds }

\* The `retain' half of is_locked, which the later write persists.
Pruned(guard, now) == [guard EXCEPT !.failures = Recent(guard, now)]

\* Mutant: one more failure than allowed before the prompt locks.
IsLockedLate(guard, now) == Cardinality(Recent(guard, now)) > MaxFailures

IsLocked(guard, now) == Cardinality(Recent(guard, now)) >= MaxFailures

\* Mutant: the newest unlocking step itself is accepted again.
IsSpentStrict(guard, step) == step < guard.last

\* step <= last; no step is spent while last_step is None.
IsSpent(guard, step) == step <= guard.last

RecordFailure(guard, failure) ==
    [guard EXCEPT !.failures = @ \cup {failure}]

\* Mutant: the new step is not remembered.
ClearOnly(guard, step) == [guard EXCEPT !.failures = {}]

RecordSuccess(guard, step) ==
    [last     |-> IF step <= guard.last THEN guard.last ELSE step,
     failures |-> {}]

(***************************************************************************)
(* The length of the JSON text, as far as it decides which of two texts is *)
(* longer: all times and steps have the same number of digits, a failure   *)
(* adds more than the difference between a step and null.                  *)
(***************************************************************************)
JsonSize(guard) ==
    2 * Cardinality(guard.failures) + (IF guard.last = NoStep THEN 1 ELSE 2)
=============================================================================
