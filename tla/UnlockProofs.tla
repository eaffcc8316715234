---------------------------- MODULE UnlockProofs ----------------------------
(***************************************************************************)
(* Theorems about unlock() for every number of prompts, every code         *)
(* function, every limit, lockout and skew, and every bound of the model.  *)
(* Those about one prompt at a time assume ~Overlap, those about seconds   *)
(* of true time also assume a wall clock that is never adjusted.           *)
(***************************************************************************)
EXTENDS UnlockGate, FiniteSetTheorems, TLAPS

-----------------------------------------------------------------------------
(* The operators on a guard. *)

FiniteGuard(g) == g \in Guards /\ IsFiniteSet(g.failures)

LEMMA PrunedFacts ==
    ASSUME NEW g, FiniteGuard(g), NEW now \in Nat
    PROVE  /\ FiniteGuard(Pruned(g, now))
           /\ Pruned(g, now).last = g.last
           /\ Pruned(g, now).failures = Recent(g, now)
           /\ Recent(g, now) \subseteq g.failures
<1>1. Recent(g, now) \subseteq g.failures
  BY DEF Recent
<1>2. /\ Pruned(g, now) \in Guards
      /\ Pruned(g, now).last = g.last
      /\ Pruned(g, now).failures = Recent(g, now)
  BY <1>1 DEF Pruned, Guards, FiniteGuard
<1>3. IsFiniteSet(Recent(g, now))
  BY <1>1, FS_Subset DEF FiniteGuard
<1> QED
  BY <1>1, <1>2, <1>3 DEF FiniteGuard

LEMMA RecordFailureFacts ==
    ASSUME NEW g, FiniteGuard(g), NEW f \in Failures
    PROVE  /\ FiniteGuard(RecordFailure(g, f))
           /\ RecordFailure(g, f).last = g.last
           /\ RecordFailure(g, f).failures = g.failures \cup {f}
           /\ Cardinality(g.failures \cup {f}) <= Cardinality(g.failures) + 1
<1>1. /\ RecordFailure(g, f) \in Guards
      /\ RecordFailure(g, f).last = g.last
      /\ RecordFailure(g, f).failures = g.failures \cup {f}
  BY DEF RecordFailure, Guards, FiniteGuard
<1>2. /\ IsFiniteSet(g.failures \cup {f})
      /\ Cardinality(g.failures) \in Nat
      /\ \/ Cardinality(g.failures \cup {f}) = Cardinality(g.failures)
         \/ Cardinality(g.failures \cup {f}) = Cardinality(g.failures) + 1
  BY FS_AddElement, FS_CardinalityType DEF FiniteGuard
<1> QED
  BY <1>1, <1>2 DEF FiniteGuard

LEMMA RecordSuccessFacts ==
    ASSUME NEW g, FiniteGuard(g), NEW s \in Steps
    PROVE  /\ FiniteGuard(RecordSuccess(g, s))
           /\ RecordSuccess(g, s).failures = {}
           /\ RecordSuccess(g, s).last \in Steps
           /\ ~IsSpent(g, s) => /\ RecordSuccess(g, s).last = s
                                /\ g.last < s
<1>1. IsFiniteSet({})
  BY FS_EmptySet
<1>2. g.last \in Nat \cup {NoStep}
  BY DEF FiniteGuard, Guards
<1> QED
  BY <1>1, <1>2 DEF RecordSuccess, FiniteGuard, Guards, IsSpent, Steps, NoStep

LEMMA FreshGuardFacts == FiniteGuard(FreshGuard) /\ FreshGuard.failures = {}
  BY FS_EmptySet DEF FiniteGuard, FreshGuard, Guards, NoStep

LEMMA JsonSizeType ==
    ASSUME NEW g, FiniteGuard(g)
    PROVE  JsonSize(g) \in Nat
<1>1. Cardinality(g.failures) \in Nat
  BY FS_CardinalityType DEF FiniteGuard
<1> QED
  BY <1>1 DEF JsonSize

LEMMA MatchingStepType ==
    ASSUME NEW c, NEW t \in Nat
    PROVE  MatchingStep(c, t) \subseteq Steps /\
           (MatchingStep(c, t) # {} => c \in Codes)
  BY DEF MatchingStep, Matches, Window, Steps

-----------------------------------------------------------------------------
(* Types. *)

\* What the type invariant leaves open: the failure sets are finite.
FiniteInv ==
    /\ FiniteGuard(guard)
    /\ \A p \in Prompts : FiniteGuard(mem[p])
    /\ IsFiniteSet(denials)

\* Where a call stands and what its verdict is go together: a step only after
\* the vault has been read, and only one the code stands for.
VerdictInv ==
    \A p \in Prompts :
        /\ pc[p] \in {"idle", "read", "vault"} => verdict[p] = NoStep
        /\ pc[p] = "release" => verdict[p] # NoStep
        /\ verdict[p] # NoStep =>
               verdict[p] \in MatchingStep(code[p], stamp[p].at)

TypeInv == TypeOK /\ FiniteInv /\ VerdictInv

LEMMA ClockType == TypeOK => Clock \in Nat
  BY UnlockAssumption DEF TypeOK, Clock

LEMMA LeaveTypes ==
    ASSUME TypeInv, NEW p \in Prompts, Leave(p)
    PROVE  /\ pc' \in [Prompts -> {"idle", "read", "vault", "open", "write", "release"}]
           /\ code' \in [Prompts -> Codes \cup {Malformed}]
           /\ stamp' \in [Prompts -> Failures]
           /\ mem' \in [Prompts -> Guards]
           /\ verdict' \in [Prompts -> Steps \cup {NoStep}]
           /\ \A q \in Prompts : FiniteGuard(mem'[q])
           /\ VerdictInv'
<1>1. NoStamp \in Failures
  BY DEF NoStamp, Failures
<1>2. FiniteGuard(FreshGuard) /\ FreshGuard \in Guards
  BY FreshGuardFacts DEF FiniteGuard
<1>3. VerdictInv'
  BY DEF TypeInv, TypeOK, VerdictInv, Leave
<1> QED
  BY <1>1, <1>2, <1>3 DEF TypeInv, TypeOK, FiniteInv, Leave

LEMMA TypeInit == Init => TypeInv
<1>1. NoStamp \in Failures
  BY DEF NoStamp, Failures
<1>2. FiniteGuard(FreshGuard) /\ FreshGuard \in Guards
  BY FreshGuardFacts DEF FiniteGuard
<1>3. IsFiniteSet({})
  BY FS_EmptySet
<1>4. Init => TypeOK
  <2> SUFFICES ASSUME Init PROVE TypeOK
    OBVIOUS
  <2>1. uptime \in Nat /\ offset \in Offsets /\ attempts \in Nat
    BY DEF Init
  <2>2. file \in {"missing", "ok", "torn"} /\ size \in Nat /\ guard \in Guards
    BY <1>2 DEF Init
  <2>3. /\ pc \in [Prompts -> {"idle", "read", "vault", "open", "write", "release"}]
        /\ code \in [Prompts -> Codes \cup {Malformed}]
    BY DEF Init
  <2>4. /\ stamp \in [Prompts -> Failures]
        /\ mem \in [Prompts -> Guards]
        /\ verdict \in [Prompts -> Steps \cup {NoStep}]
    BY <1>1, <1>2 DEF Init
  <2>5. released \subseteq Releases /\ denials \subseteq Failures /\ disturbed \in BOOLEAN
    BY DEF Init
  <2> QED
    BY <2>1, <2>2, <2>3, <2>4, <2>5 DEF TypeOK
<1>5. Init => FiniteInv
  BY <1>2, <1>3 DEF Init, FiniteInv
<1>6. Init => VerdictInv
  BY DEF Init, VerdictInv
<1> QED
  BY <1>4, <1>5, <1>6 DEF TypeInv

LEMMA LoadedType ==
    ASSUME TypeInv, NEW g \in Loaded
    PROVE  FiniteGuard(g) /\ file # "torn" /\ (file = "ok" => g = guard)
           /\ (file = "missing" => g = FreshGuard)
  BY FreshGuardFacts DEF TypeInv, TypeOK, FiniteInv, Loaded

\* What a write that stops half way leaves.
LEMMA PartFacts ==
    ASSUME TypeInv, NEW p \in Prompts, PartWritten(p)
    PROVE  /\ UNCHANGED guard
           /\ size' \in Nat
           /\ file' = file \/ file' = "torn"
           /\ pc[p] # "write" => UNCHANGED <<file, size>>
<1>1. JsonSize(mem[p]) \in Nat
  BY JsonSizeType DEF TypeInv, FiniteInv
<1>2. size \in Nat
  BY DEF TypeInv, TypeOK
<1>3. CASE UNCHANGED <<file, size>>
  BY <1>2, <1>3 DEF PartWritten
<1>4. CASE ~UNCHANGED <<file, size>>
  <2>1. PICK part \in 1 .. JsonSize(mem[p]) - 1 : size' = IF size < part THEN part ELSE size
    BY <1>4 DEF PartWritten
  <2>2. part \in Nat
    BY <1>1
  <2> QED
    BY <1>2, <1>4, <2>1, <2>2 DEF PartWritten
<1> QED
  BY <1>3, <1>4

LEMMA TypeNext == TypeInv /\ [Next]_vars => TypeInv'
<1> SUFFICES ASSUME TypeInv, [Next]_vars PROVE TypeInv'
  OBVIOUS
<1> USE DEF TypeInv
<1>a. CASE UNCHANGED vars
  BY <1>a DEF vars, wall, disk, local, ghosts, TypeOK, FiniteInv, VerdictInv
<1>b. CASE Tick
  BY <1>b DEF Tick, disk, local, ghosts, TypeOK, FiniteInv, VerdictInv
<1>c. CASE AdjustClock
  BY <1>c DEF AdjustClock, disk, local, ghosts, TypeOK, FiniteInv, VerdictInv
<1>d. ASSUME NEW p \in Prompts, Prompt(p)
      PROVE  TypeInv'
  <2>1. ASSUME NEW c \in Codes \cup {Malformed}, Submit(p, c)
        PROVE  TypeInv'
    <3>1. [at |-> Clock, id |-> attempts + 1, born |-> uptime] \in Failures
      BY ClockType DEF Failures, TypeOK
    <3> QED
      BY <2>1, <3>1 DEF Submit, Goto, wall, disk, ghosts, TypeOK, FiniteInv, VerdictInv
  <2>2. CASE ReadGuard(p)
    <3>1. PICK g \in Loaded : mem' = [mem EXCEPT ![p] = Pruned(g, stamp[p].at)]
      BY <2>2 DEF ReadGuard
    <3>2. stamp[p].at \in Nat
      BY DEF TypeOK, Failures
    <3>3. FiniteGuard(Pruned(g, stamp[p].at))
      BY <3>2, LoadedType, PrunedFacts
    <3>4. Pruned(g, stamp[p].at) \in Guards
      BY <3>3 DEF FiniteGuard
    <3> QED
      BY <2>2, <3>1, <3>3, <3>4 DEF ReadGuard, Goto, wall, disk, ghosts, TypeOK, FiniteInv, VerdictInv
  <2>3. CASE RefuseLocked(p)
    BY <2>3, LeaveTypes DEF RefuseLocked, wall, disk, ghosts, TypeOK, FiniteInv, VerdictInv
  <2>4. CASE FailRead(p)
    BY <2>4, LeaveTypes DEF FailRead, wall, disk, ghosts, TypeOK, FiniteInv, VerdictInv
  <2>5. CASE Accept(p)
    <3>1. PICK s \in MatchingStep(code[p], stamp[p].at) :
              /\ mem' = [mem EXCEPT ![p] = RecordSuccess(mem[p], s)]
              /\ verdict' = [verdict EXCEPT ![p] = s]
      BY <2>5 DEF Accept
    <3>2. s \in Steps
      BY MatchingStepType DEF TypeOK, Failures
    <3>3. FiniteGuard(RecordSuccess(mem[p], s))
      BY <3>2, RecordSuccessFacts DEF FiniteInv
    <3>4. RecordSuccess(mem[p], s) \in Guards
      BY <3>3 DEF FiniteGuard
    <3> QED
      BY <2>5, <3>1, <3>2, <3>3, <3>4
         DEF Accept, Goto, wall, disk, ghosts, TypeOK, FiniteInv, VerdictInv
  <2>6. CASE Deny(p)
    <3>1. FiniteGuard(RecordFailure(mem[p], stamp[p]))
      BY RecordFailureFacts DEF TypeOK, FiniteInv
    <3>2. RecordFailure(mem[p], stamp[p]) \in Guards
      BY <3>1 DEF FiniteGuard
    <3> QED
      BY <2>6, <3>1, <3>2 DEF Deny, Goto, wall, disk, ghosts, TypeOK, FiniteInv, VerdictInv
  <2>7. CASE OpenGuard(p)
    BY <2>7 DEF OpenGuard, Goto, wall, ghosts, TypeOK, FiniteInv, VerdictInv
  <2>8. CASE FailWrite(p)
    <3>1. PartWritten(p) /\ Leave(p) /\ UNCHANGED <<wall, attempts, released, denials>>
          /\ disturbed' \in BOOLEAN
      BY <2>8 DEF FailWrite
    <3> QED
      BY <3>1, LeaveTypes, PartFacts DEF wall, TypeOK, FiniteInv
  <2>9. ASSUME WriteOut(p)
        PROVE  /\ file' \in {"missing", "ok", "torn"}
               /\ size' \in Nat
               /\ guard' \in Guards
               /\ FiniteGuard(guard')
    <3>1. FiniteGuard(mem[p]) /\ JsonSize(mem[p]) \in Nat
      BY JsonSizeType DEF FiniteInv
    <3> QED
      BY <2>9, <3>1 DEF WriteOut, TypeOK, FiniteGuard
  <2>10. CASE RecordAccept(p)
    <3>1. IsFiniteSet({})
      BY FS_EmptySet
    <3> QED
      BY <2>9, <2>10, <3>1 DEF RecordAccept, Goto, wall, TypeOK, FiniteInv, VerdictInv
  <2>11. CASE RecordDenial(p)
    <3>1. stamp[p] \in Failures
      BY DEF TypeOK
    <3>2. IsFiniteSet(denials \cup {stamp[p]})
      BY FS_AddElement DEF FiniteInv
    <3> QED
      BY <2>9, <2>11, <3>1, <3>2, LeaveTypes DEF RecordDenial, wall, TypeOK, FiniteInv, VerdictInv
  <2>12. CASE Release(p)
    <3>1. verdict[p] \in Steps /\ code[p] \in Codes
      BY <2>12, MatchingStepType DEF Release, TypeOK, VerdictInv, Failures
    <3>2. [id |-> stamp[p].id, step |-> verdict[p],
           code |-> code[p], at |-> stamp[p].at] \in Releases
      BY <3>1 DEF TypeOK, Failures, Releases
    <3> QED
      BY <2>12, <3>2, LeaveTypes DEF Release, wall, disk, TypeOK, FiniteInv
  <2>13. CASE Crash(p)
    <3>1. PartWritten(p) /\ Leave(p) /\ UNCHANGED <<wall, attempts, released, denials>>
          /\ disturbed' \in BOOLEAN
      BY <2>13 DEF Crash
    <3> QED
      BY <3>1, LeaveTypes, PartFacts DEF wall, TypeOK, FiniteInv
  <2> QED
    BY <1>d, <2>1, <2>2, <2>3, <2>4, <2>5, <2>6, <2>7, <2>8, <2>10, <2>11, <2>12,
     <2>13
       DEF Prompt
<1> QED
  BY <1>a, <1>b, <1>c, <1>d DEF Next

\* The variables keep their types: in particular the wall clock that the code
\* reads, and every time it stores, is a natural number, wherever the clock is
\* set (lib.rs:42-47).
THEOREM TypeCorrect == Spec => []TypeOK
<1>1. Spec => []TypeInv
  BY TypeInit, TypeNext, PTL DEF Spec
<1> QED
  BY <1>1, PTL DEF TypeInv

-----------------------------------------------------------------------------
(* The failure list, with any number of prompts overwriting each other. *)

BoundInv ==
    /\ FailuresBounded
    /\ \A p \in Prompts :
          pc[p] = "vault" => Cardinality(mem[p].failures) < MaxFailures

LEMMA NoFailures == Cardinality({}) = 0
  BY FS_EmptySet

LEMMA LeaveBound ==
    ASSUME TypeInv, BoundInv, NEW p \in Prompts, Leave(p)
    PROVE  \A q \in Prompts :
              /\ Cardinality(mem'[q].failures) <= MaxFailures
              /\ pc'[q] = "vault" => Cardinality(mem'[q].failures) < MaxFailures
<1>1. Cardinality(FreshGuard.failures) = 0
  BY NoFailures, FreshGuardFacts, Zenon
<1>2. 0 < MaxFailures /\ 0 <= MaxFailures
  BY GuardAssumption
<1> SUFFICES ASSUME NEW q \in Prompts
             PROVE  /\ Cardinality(mem'[q].failures) <= MaxFailures
                    /\ pc'[q] = "vault" => Cardinality(mem'[q].failures) < MaxFailures
  OBVIOUS
<1>3. CASE q = p
  <2>1. mem'[q] = FreshGuard
    BY <1>3 DEF TypeInv, TypeOK, Leave
  <2> QED
    BY <1>1, <1>2, <2>1
<1>4. CASE q # p
  <2>1. mem'[q] = mem[q] /\ pc'[q] = pc[q]
    BY <1>4 DEF TypeInv, TypeOK, Leave
  <2> QED
    BY <2>1 DEF BoundInv, FailuresBounded
<1> QED
  BY <1>3, <1>4

LEMMA BoundNext == TypeInv /\ BoundInv /\ [Next]_vars => BoundInv'
<1> SUFFICES ASSUME TypeInv, BoundInv, [Next]_vars PROVE BoundInv'
  OBVIOUS
<1> USE DEF BoundInv, FailuresBounded
<1>a. CASE UNCHANGED vars
  BY <1>a DEF vars, disk, local
<1>b. CASE Tick
  BY <1>b DEF Tick, disk, local
<1>c. CASE AdjustClock
  BY <1>c DEF AdjustClock, disk, local
<1>d. ASSUME NEW p \in Prompts, Prompt(p)
      PROVE  BoundInv'
  <2>1. ASSUME NEW c \in Codes \cup {Malformed}, Submit(p, c)
        PROVE  BoundInv'
    BY <2>1 DEF Submit, Goto, disk, TypeInv, TypeOK
  <2>2. CASE ReadGuard(p)
    <3>1. PICK g \in Loaded :
              /\ ~IsLocked(g, stamp[p].at)
              /\ mem' = [mem EXCEPT ![p] = Pruned(g, stamp[p].at)]
      BY <2>2 DEF ReadGuard
    <3>2. stamp[p].at \in Nat
      BY DEF TypeInv, TypeOK, Failures
    <3>3. /\ Pruned(g, stamp[p].at).failures = Recent(g, stamp[p].at)
          /\ IsFiniteSet(Recent(g, stamp[p].at))
      BY <3>2, LoadedType, PrunedFacts DEF FiniteGuard
    <3>4. Cardinality(Pruned(g, stamp[p].at).failures) < MaxFailures
      BY <3>1, <3>3, FS_CardinalityType, GuardAssumption DEF IsLocked
    <3>5. Cardinality(Pruned(g, stamp[p].at).failures) <= MaxFailures
      BY <3>3, <3>4, FS_CardinalityType, GuardAssumption
    <3> QED
      BY <2>2, <3>1, <3>4, <3>5 DEF ReadGuard, Goto, disk, TypeInv, TypeOK
  <2>3. CASE RefuseLocked(p)
    BY <2>3, LeaveBound DEF RefuseLocked, disk
  <2>4. CASE FailRead(p)
    BY <2>4, LeaveBound DEF FailRead, disk
  <2>5. CASE Accept(p)
    <3>1. PICK s \in MatchingStep(code[p], stamp[p].at) :
              mem' = [mem EXCEPT ![p] = RecordSuccess(mem[p], s)]
      BY <2>5 DEF Accept
    <3>2. s \in Steps
      BY MatchingStepType DEF TypeInv, TypeOK, Failures
    <3>3. RecordSuccess(mem[p], s).failures = {}
      BY DEF RecordSuccess
    <3>4. Cardinality(RecordSuccess(mem[p], s).failures) = 0
      BY <3>3, NoFailures, Zenon
    <3>5. Cardinality(RecordSuccess(mem[p], s).failures) <= MaxFailures
      BY <3>4, GuardAssumption
    <3> QED
      BY <2>5, <3>1, <3>5 DEF Accept, Goto, disk, TypeInv, TypeOK
  <2>6. CASE Deny(p)
    <3>1. FiniteGuard(mem[p]) /\ stamp[p] \in Failures
      BY DEF TypeInv, TypeOK, FiniteInv
    <3>2. FiniteGuard(RecordFailure(mem[p], stamp[p]))
      BY <3>1, RecordFailureFacts
    <3>3. /\ Cardinality(mem[p].failures) \in Nat
          /\ Cardinality(RecordFailure(mem[p], stamp[p]).failures) \in Nat
      BY <3>1, <3>2, FS_CardinalityType DEF FiniteGuard
    <3>4. Cardinality(RecordFailure(mem[p], stamp[p]).failures)
              <= Cardinality(mem[p].failures) + 1
      BY <3>1, RecordFailureFacts
    <3>5. Cardinality(mem[p].failures) < MaxFailures
      BY <2>6 DEF Deny, Goto
    <3>6. Cardinality(RecordFailure(mem[p], stamp[p]).failures) <= MaxFailures
      BY <3>3, <3>4, <3>5, GuardAssumption
    <3> QED
      BY <2>6, <3>6 DEF Deny, Goto, disk, TypeInv, TypeOK
  <2>7. CASE OpenGuard(p)
    BY <2>7 DEF OpenGuard, Goto, TypeInv, TypeOK
  <2>8. CASE FailWrite(p)
    BY <2>8, LeaveBound, PartFacts DEF FailWrite
  <2>9. CASE RecordAccept(p)
    BY <2>9 DEF RecordAccept, WriteOut, Goto, TypeInv, TypeOK
  <2>10. CASE RecordDenial(p)
    BY <2>10, LeaveBound DEF RecordDenial, WriteOut
  <2>11. CASE Release(p)
    BY <2>11, LeaveBound DEF Release, disk
  <2>12. CASE Crash(p)
    BY <2>12, LeaveBound, PartFacts DEF Crash
  <2> QED
    BY <1>d, <2>1, <2>2, <2>3, <2>4, <2>5, <2>6, <2>7, <2>8, <2>9, <2>10,
       <2>11, <2>12 DEF Prompt
<1> QED
  BY <1>a, <1>b, <1>c, <1>d DEF Next

\* However many prompts are inside unlock() and overwrite each other's file,
\* the list of failures, on disk and in every copy, stays within MAX_FAILURES
\* (guard.rs:39-51).
THEOREM ListBounded == Spec => []FailuresBounded
<1>1. Init => BoundInv
  BY NoFailures, GuardAssumption, FreshGuardFacts DEF Init, BoundInv, FailuresBounded
<1>2. Spec => [](TypeInv /\ BoundInv)
  BY TypeInit, TypeNext, <1>1, BoundNext, PTL DEF Spec
<1> QED
  BY <1>2, PTL DEF BoundInv

-----------------------------------------------------------------------------
(* Valid codes, with any number of prompts. *)

LEMMA WindowIsValidity ==
    ASSUME NEW t \in Nat, NEW c, NEW s \in MatchingStep(c, t)
    PROVE  ValidFor(c, s, t)
<1> DEFINE q == t \div StepSeconds
           k == StepSeconds
<1>1. /\ Hotp(s) = c
      /\ s \in Nat
      /\ s <= q + SkewSteps
      /\ s + SkewSteps >= q
  BY TotpAssumption DEF MatchingStep, Matches, Window, StepAt
<1>2. k \in Nat /\ k > 0 /\ SkewSteps \in Nat
  BY TotpAssumption
<1>3. q \in Int /\ q * k <= t /\ t < (q + 1) * k
  BY <1>2
<1> HIDE DEF q, k
<1>4. ASSUME NEW a \in Int, NEW b \in Int, a <= b
      PROVE  a * k <= b * k
  BY <1>2, <1>4
<1>5. (s - SkewSteps) * k <= q * k
  BY <1>1, <1>2, <1>3, <1>4
<1>6. (q + 1) * k <= (s + SkewSteps + 1) * k
  BY <1>1, <1>2, <1>3, <1>4
<1>7. /\ (s - SkewSteps) * k \in Int /\ q * k \in Int
      /\ (q + 1) * k \in Int /\ (s + SkewSteps + 1) * k \in Int
  BY <1>1, <1>2, <1>3
<1>8. (s - SkewSteps) * k <= t /\ t < (s + SkewSteps + 1) * k
  BY <1>3, <1>5, <1>6, <1>7
<1> QED
  BY <1>1, <1>8 DEF ValidFor, k

LEMMA ValidNext ==
    TypeInv /\ OnlyValidCodesReleased /\ [Next]_vars => OnlyValidCodesReleased'
<1> SUFFICES ASSUME TypeInv, OnlyValidCodesReleased, [Next]_vars,
                    NEW r \in released'
             PROVE  ValidFor(r.code, r.step, r.at)
  BY DEF OnlyValidCodesReleased
<1>1. CASE r \in released
  BY <1>1 DEF OnlyValidCodesReleased
<1>2. CASE r \notin released
  <2>1. PICK p \in Prompts : Release(p)
    BY <1>2 DEF Next, Prompt, vars, ghosts, Tick, AdjustClock, Submit, ReadGuard,
       RefuseLocked, FailRead, Accept, Deny, OpenGuard, FailWrite, RecordAccept,
       RecordDenial, Crash
  <2>2. r = [id |-> stamp[p].id, step |-> verdict[p],
             code |-> code[p], at |-> stamp[p].at]
    BY <1>2, <2>1 DEF Release
  <2>3. verdict[p] \in MatchingStep(code[p], stamp[p].at) /\ stamp[p].at \in Nat
    BY <2>1 DEF Release, TypeInv, TypeOK, VerdictInv, Failures
  <2> QED
    BY <2>2, <2>3, WindowIsValidity
<1> QED
  BY <1>1, <1>2

\* Whatever prompts run at once, and for every code function: the credential
\* goes out only for a code that the seconds of its attempt make valid
\* (totp.rs:29-39).
THEOREM ReleasedCodesValid == Spec => []OnlyValidCodesReleased
<1>1. Init => OnlyValidCodesReleased
  BY DEF Init, OnlyValidCodesReleased
<1>2. Spec => [](TypeInv /\ OnlyValidCodesReleased)
  BY TypeInit, TypeNext, <1>1, ValidNext, PTL DEF Spec
<1> QED
  BY <1>2, PTL

-----------------------------------------------------------------------------
(* One prompt at a time: no step unlocks twice.                            *)
(*                                                                         *)
(* The property is not inductive: that the step about to be released is    *)
(* newer than all released ones is known since the guard was read, and     *)
(* stays true only because nobody else writes the guard in between.        *)

Exclusive ==
    \A p, q \in Prompts : pc[p] # "idle" /\ pc[q] # "idle" => p = q

\* A guard file that does not exist yet stands for a fresh guard.
FileInv == file = "missing" => guard = FreshGuard

\* What a call knows about the newest spent step.
CopyInv ==
    \A p \in Prompts :
        /\ pc[p] = "vault" => mem[p].last = guard.last
        /\ pc[p] \in {"open", "write"} /\ verdict[p] = NoStep =>
               mem[p].last = guard.last
        /\ pc[p] \in {"open", "write"} /\ verdict[p] # NoStep =>
               mem[p].last = verdict[p] /\ guard.last < verdict[p]
        /\ pc[p] = "release" =>
               /\ guard.last = verdict[p] /\ file # "missing"
               /\ \A r \in released : r.step < verdict[p]

\* Attempts are numbered in the order of their releases.
OrderInv ==
    /\ \A r \in released : r.id <= attempts
    /\ \A p \in Prompts : pc[p] # "idle" =>
           /\ stamp[p].id <= attempts
           /\ \A r \in released : r.id < stamp[p].id

SerialInv ==
    Exclusive /\ FileInv /\ CopyInv /\ OrderInv /\ RecordedFirst /\ ReleasesIncrease

LEMMA SerialInit == Init => SerialInv
  BY DEF Init, SerialInv, Exclusive, FileInv, CopyInv, OrderInv, RecordedFirst,
         ReleasesIncrease

\* A call that returns leaves what the others know as it was.
LEMMA LeaveOthers ==
    ASSUME TypeInv, NEW p \in Prompts, Leave(p), NEW q \in Prompts
    PROVE  /\ pc'[p] = "idle"
           /\ q # p => /\ pc'[q] = pc[q] /\ mem'[q] = mem[q]
                       /\ stamp'[q] = stamp[q] /\ verdict'[q] = verdict[q]
  BY DEF TypeInv, TypeOK, Leave

\* Every way to return that leaves the guard and the releases alone.
LEMMA SerialLeave ==
    ASSUME TypeInv, SerialInv, NEW p \in Prompts, Leave(p),
           UNCHANGED <<attempts, guard, released>>, file' = file \/ file' = "torn"
    PROVE  SerialInv'
<1>1. Exclusive'
  BY LeaveOthers DEF SerialInv, Exclusive
<1>2. FileInv' /\ RecordedFirst' /\ ReleasesIncrease'
  BY DEF SerialInv, FileInv, RecordedFirst, ReleasesIncrease
<1>3. CopyInv'
  BY LeaveOthers DEF SerialInv, CopyInv
<1>4. OrderInv'
  BY LeaveOthers DEF SerialInv, OrderInv
<1> QED
  BY <1>1, <1>2, <1>3, <1>4 DEF SerialInv

\* Whether prompts overlap is decided when one submits; nothing else makes an
\* attempt.
LEMMA SubmitsAlone ==
    ASSUME ~Overlap, [Next]_vars
    PROVE  attempts' # attempts => AllIdle
<1>1. CASE UNCHANGED vars \/ Tick \/ AdjustClock
  BY <1>1 DEF vars, Tick, AdjustClock
<1>2. ASSUME NEW p \in Prompts, Prompt(p)
      PROVE  attempts' # attempts => AllIdle
  BY <1>2, UnlockAssumption DEF Prompt, Submit, ReadGuard, RefuseLocked, FailRead, Accept,
     Deny, OpenGuard, FailWrite, RecordAccept, RecordDenial, Release, Crash
<1> QED
  BY <1>1, <1>2 DEF Next

LEMMA SerialNext ==
    ASSUME attempts' # attempts => AllIdle, TypeInv, SerialInv, [Next]_vars
    PROVE  SerialInv'
<1> USE DEF SerialInv
<1>a. CASE UNCHANGED vars
  BY <1>a DEF vars, disk, local, ghosts, Exclusive, FileInv, CopyInv, OrderInv,
              RecordedFirst, ReleasesIncrease
<1>b. CASE Tick
  BY <1>b DEF Tick, disk, local, ghosts, Exclusive, FileInv, CopyInv, OrderInv,
              RecordedFirst, ReleasesIncrease
<1>c. CASE AdjustClock
  BY <1>c DEF AdjustClock, disk, local, ghosts, Exclusive, FileInv, CopyInv,
              OrderInv, RecordedFirst, ReleasesIncrease
<1>d. ASSUME NEW p \in Prompts, Prompt(p)
      PROVE  SerialInv'
  <2>0. guard.last \in Nat \cup {NoStep} /\ attempts \in Nat
    BY DEF TypeInv, TypeOK, Guards
  <2>1. ASSUME NEW c \in Codes \cup {Malformed}, Submit(p, c)
        PROVE  SerialInv'
    <3>1. AllIdle /\ pc' = [pc EXCEPT ![p] = "read"]
      <4>1. attempts' # attempts
        BY <2>0, <2>1 DEF Submit
      <4> QED
        BY <2>1, <4>1 DEF Submit, Goto
    <3>2. Exclusive'
      BY <3>1 DEF AllIdle, Exclusive, TypeInv, TypeOK
    <3>3. FileInv' /\ RecordedFirst' /\ ReleasesIncrease'
      BY <2>1 DEF Submit, disk, ghosts, FileInv, RecordedFirst, ReleasesIncrease
    <3>4. CopyInv'
      BY <2>1, <3>1 DEF Submit, disk, ghosts, CopyInv, AllIdle, TypeInv, TypeOK
    <3>5. /\ stamp' = [stamp EXCEPT ![p] =
                         [at |-> Clock, id |-> attempts + 1, born |-> uptime]]
          /\ attempts' = attempts + 1 /\ released' = released
      BY <2>1 DEF Submit, ghosts
    <3>6. \A r \in released : r.id \in Nat /\ r.id <= attempts
      BY DEF OrderInv, TypeInv, TypeOK, Releases
    <3>7. OrderInv'
      BY <2>0, <3>1, <3>5, <3>6 DEF OrderInv, AllIdle, TypeInv, TypeOK
    <3> QED
      BY <3>2, <3>3, <3>4, <3>7
  <2>2. CASE ReadGuard(p)
    <3>1. PICK g \in Loaded : mem' = [mem EXCEPT ![p] = Pruned(g, stamp[p].at)]
      BY <2>2 DEF ReadGuard
    <3>2. Pruned(g, stamp[p].at).last = g.last
      BY LoadedType, PrunedFacts DEF TypeInv, TypeOK, Failures
    <3>3. g.last = guard.last
      BY LoadedType DEF FileInv, TypeInv, TypeOK
    <3>4. /\ pc[p] = "read" /\ pc' = [pc EXCEPT ![p] = "vault"]
          /\ UNCHANGED <<attempts, file, size, guard, stamp, verdict, released>>
      BY <2>2 DEF ReadGuard, Goto, disk, ghosts
    <3>5. CopyInv'
      BY <3>1, <3>2, <3>3, <3>4 DEF CopyInv, TypeInv, TypeOK
    <3> QED
      BY <3>4, <3>5 DEF Exclusive, FileInv, OrderInv, RecordedFirst,
                        ReleasesIncrease, TypeInv, TypeOK
  <2>3. CASE RefuseLocked(p)
    BY <2>3, SerialLeave DEF RefuseLocked, disk, ghosts
  <2>4. CASE FailRead(p)
    BY <2>4, SerialLeave DEF FailRead, disk, ghosts
  <2>5. CASE Accept(p)
    <3>1. PICK s \in MatchingStep(code[p], stamp[p].at) :
              /\ ~IsSpent(mem[p], s)
              /\ mem' = [mem EXCEPT ![p] = RecordSuccess(mem[p], s)]
              /\ verdict' = [verdict EXCEPT ![p] = s]
      BY <2>5 DEF Accept
    <3>2. s \in Steps /\ FiniteGuard(mem[p])
      BY MatchingStepType DEF TypeInv, TypeOK, Failures, FiniteInv
    <3>3. RecordSuccess(mem[p], s).last = s /\ mem[p].last < s
      BY <3>1, <3>2, RecordSuccessFacts
    <3>4. /\ pc[p] = "vault" /\ pc' = [pc EXCEPT ![p] = "open"]
          /\ UNCHANGED <<attempts, file, size, guard, stamp, released>>
      BY <2>5 DEF Accept, Goto, disk, ghosts
    <3>5. CopyInv'
      BY <3>1, <3>2, <3>3, <3>4 DEF CopyInv, TypeInv, TypeOK, Steps, NoStep
    <3> QED
      BY <3>4, <3>5 DEF Exclusive, FileInv, OrderInv, RecordedFirst,
                        ReleasesIncrease, TypeInv, TypeOK
  <2>6. CASE Deny(p)
    <3>1. RecordFailure(mem[p], stamp[p]).last = mem[p].last
      BY RecordFailureFacts DEF TypeInv, TypeOK, FiniteInv
    <3>2. /\ pc[p] = "vault" /\ pc' = [pc EXCEPT ![p] = "open"]
          /\ mem' = [mem EXCEPT ![p] = RecordFailure(mem[p], stamp[p])]
          /\ UNCHANGED <<attempts, file, size, guard, stamp, verdict, released>>
      BY <2>6 DEF Deny, Goto, disk, ghosts
    <3>3. verdict[p] = NoStep
      BY <3>2 DEF TypeInv, VerdictInv
    <3>4. CopyInv'
      BY <3>1, <3>2, <3>3 DEF CopyInv, TypeInv, TypeOK
    <3> QED
      BY <3>2, <3>4 DEF Exclusive, FileInv, OrderInv, RecordedFirst,
                        ReleasesIncrease, TypeInv, TypeOK
  <2>7. CASE OpenGuard(p)
    <3>1. /\ pc[p] = "open" /\ pc' = [pc EXCEPT ![p] = "write"] /\ file' = "torn"
          /\ UNCHANGED <<attempts, guard, stamp, mem, verdict, released>>
      BY <2>7 DEF OpenGuard, Goto, ghosts
    <3>2. CopyInv'
      BY <3>1 DEF CopyInv, TypeInv, TypeOK
    <3> QED
      BY <3>1, <3>2 DEF Exclusive, FileInv, OrderInv, RecordedFirst,
                        ReleasesIncrease, TypeInv, TypeOK
  <2>8. CASE FailWrite(p)
    BY <2>8, SerialLeave, PartFacts DEF FailWrite
  <2>9. CASE RecordAccept(p)
    <3>1. /\ pc[p] = "write" /\ pc' = [pc EXCEPT ![p] = "release"]
          /\ verdict[p] # NoStep /\ guard' = mem[p] /\ file' # "missing"
          /\ UNCHANGED <<attempts, stamp, mem, verdict, released>>
      BY <2>9 DEF RecordAccept, WriteOut, Goto
    <3>2. mem[p].last = verdict[p] /\ guard.last < verdict[p] /\ verdict[p] \in Nat
      BY <3>1 DEF CopyInv, TypeInv, TypeOK, Steps
    <3>3. \A r \in released : r.step \in Nat /\ r.step <= guard.last
      BY DEF RecordedFirst, TypeInv, TypeOK, Releases, Steps
    <3>4. \A r \in released : r.step < verdict[p]
      BY <2>0, <3>2, <3>3 DEF NoStep
    <3>5. \A q \in Prompts : q # p => pc[q] = "idle" /\ pc'[q] = "idle"
      BY <3>1 DEF Exclusive, TypeInv, TypeOK
    <3>6. CopyInv'
      BY <3>1, <3>2, <3>4, <3>5 DEF CopyInv, TypeInv, TypeOK
    <3>7. RecordedFirst'
      BY <3>1, <3>2, <3>3, <3>4 DEF RecordedFirst
    <3> QED
      BY <3>1, <3>6, <3>7 DEF Exclusive, FileInv, OrderInv, ReleasesIncrease,
                              TypeInv, TypeOK
  <2>10. CASE RecordDenial(p)
    <3>1. /\ pc[p] = "write" /\ verdict[p] = NoStep /\ Leave(p)
          /\ guard' = mem[p] /\ file' # "missing"
          /\ UNCHANGED <<attempts, released>>
      BY <2>10 DEF RecordDenial, WriteOut
    <3>2. guard'.last = guard.last
      BY <3>1 DEF CopyInv
    <3>3. \A q \in Prompts : pc'[q] = "idle"
      BY <3>1, LeaveOthers DEF Exclusive
    <3> QED
      BY <3>1, <3>2, <3>3 DEF Exclusive, FileInv, CopyInv, OrderInv,
                              RecordedFirst, ReleasesIncrease
  <2>11. CASE Release(p)
    <3> DEFINE new == [id |-> stamp[p].id, step |-> verdict[p],
                       code |-> code[p], at |-> stamp[p].at]
    <3>1. /\ pc[p] = "release" /\ Leave(p) /\ released' = released \cup {new}
          /\ UNCHANGED <<attempts, file, size, guard>>
      BY <2>11 DEF Release, disk
    <3>2. /\ guard.last = verdict[p] /\ file # "missing"
          /\ \A r \in released : r.step < new.step /\ r.id < new.id
      BY <3>1 DEF CopyInv, OrderInv
    <3>3. /\ new.id \in Nat /\ new.step \in Nat /\ new.id <= attempts
          /\ \A r \in released : r.id \in Nat /\ r.step \in Nat
      BY <3>1 DEF OrderInv, TypeInv, TypeOK, VerdictInv, Releases, Failures, Steps
    <3>4. \A q \in Prompts : pc'[q] = "idle"
      BY <3>1, LeaveOthers DEF Exclusive
    <3>5. RecordedFirst'
      BY <3>1, <3>2, <3>3 DEF RecordedFirst
    <3>6. ReleasesIncrease'
      BY <3>1, <3>2, <3>3 DEF ReleasesIncrease
    <3>7. OrderInv'
      BY <3>1, <3>3, <3>4 DEF OrderInv
    <3> QED
      BY <3>1, <3>4, <3>5, <3>6, <3>7 DEF Exclusive, FileInv, CopyInv
  <2>12. CASE Crash(p)
    BY <2>12, SerialLeave, PartFacts DEF Crash
  <2> QED
    BY <1>d, <2>1, <2>2, <2>3, <2>4, <2>5, <2>6, <2>7, <2>8, <2>9, <2>10,
       <2>11, <2>12 DEF Prompt
<1> QED
  BY <1>a, <1>b, <1>c, <1>d DEF Next

LEMMA SerialCorrect == ASSUME ~Overlap PROVE Spec => [](TypeInv /\ SerialInv)
<1>1. TypeInv /\ SerialInv /\ [Next]_vars => (TypeInv /\ SerialInv)'
  BY TypeNext, SubmitsAlone, SerialNext
<1> QED
  BY TypeInit, SerialInit, <1>1, PTL DEF Spec

\* While prompts do not overlap, a time step and those before it unlock at most
\* once, for every code function (also with equal codes), every clock that is
\* set to and fro, and every crash or failed write (guard.rs:18).
THEOREM StepsUnlockOnce == ASSUME ~Overlap PROVE Spec => []ReleasesIncrease
  BY SerialCorrect, PTL DEF SerialInv

\* While prompts do not overlap, what was released is in the guard file: a
\* prompt that starts afresh finds the step spent (unlock.rs:11-12).
THEOREM RecordedBeforeRelease == ASSUME ~Overlap PROVE Spec => []RecordedFirst
  BY SerialCorrect, PTL DEF SerialInv

-----------------------------------------------------------------------------
(* One prompt at a time: the guard file stays readable.                    *)

\* Who writes has emptied the file, so the text fits; a file that does not parse
\* is being written or was left by a fault.
TornInv ==
    /\ \A p \in Prompts : pc[p] = "write" => size = 0
    /\ file = "torn" => disturbed \/ \E p \in Prompts : pc[p] = "write"

\* A call that returns and is not writing leaves the file to whoever is.
LEMMA TornLeave ==
    ASSUME TypeInv, SerialInv, TornInv, NEW p \in Prompts, Leave(p),
           disturbed' = (disturbed \/ pc[p] = "write"),
           UNCHANGED <<file, size>> \/ pc[p] = "write"
    PROVE  TornInv'
<1>1. CASE pc[p] = "write"
  <2>1. \A q \in Prompts : pc'[q] # "write"
    BY <1>1, LeaveOthers DEF SerialInv, Exclusive
  <2> QED
    BY <1>1, <2>1 DEF TornInv
<1>2. CASE UNCHANGED <<file, size>> /\ pc[p] # "write"
  BY <1>2, LeaveOthers DEF TornInv
<1> QED
  BY <1>1, <1>2

LEMMA TornNext ==
    ASSUME TypeInv, SerialInv, TornInv, [Next]_vars
    PROVE  TornInv'
<1>1. CASE UNCHANGED vars \/ Tick \/ AdjustClock
  BY <1>1 DEF vars, Tick, AdjustClock, disk, local, ghosts, TornInv
<1>2. ASSUME NEW p \in Prompts, Prompt(p) PROVE TornInv'
  <2>0. pc \in [Prompts -> {"idle", "read", "vault", "open", "write", "release"}]
    BY DEF TypeInv, TypeOK
  <2>1. CASE (\E c \in Codes \cup {Malformed} : Submit(p, c)) \/ ReadGuard(p) \/ Accept(p) \/ Deny(p)
    <3>1. /\ pc[p] # "write" /\ pc'[p] # "write"
          /\ \A q \in Prompts : q # p => pc'[q] = pc[q]
      BY <2>0, <2>1 DEF Submit, ReadGuard, Accept, Deny, Goto
    <3>2. UNCHANGED <<file, size, disturbed>>
      BY <2>1 DEF Submit, ReadGuard, Accept, Deny, disk, ghosts
    <3> QED
      BY <3>1, <3>2 DEF TornInv
  <2>2. CASE RefuseLocked(p) \/ FailRead(p) \/ Release(p)
    <3>1. pc[p] # "write" /\ Leave(p) /\ UNCHANGED <<disk, disturbed>>
      BY <2>2 DEF RefuseLocked, FailRead, Release, ghosts
    <3> QED
      BY <3>1, TornLeave DEF TypeInv, TypeOK, disk
  <2>3. CASE FailWrite(p) \/ Crash(p)
    BY <2>3, TornLeave, PartFacts DEF FailWrite, Crash
  <2>4. CASE OpenGuard(p)
    BY <2>0, <2>4 DEF OpenGuard, Goto, TornInv
  <2>5. CASE RecordAccept(p) \/ RecordDenial(p)
    <3>1. pc[p] = "write" /\ WriteOut(p) /\ \A q \in Prompts : pc'[q] # "write"
      <4>1. pc[p] = "write" /\ WriteOut(p) /\ pc'[p] # "write"
            /\ \A q \in Prompts : q # p => pc'[q] = pc[q]
        BY <2>0, <2>5 DEF RecordAccept, RecordDenial, Goto, Leave
      <4> QED
        BY <4>1 DEF SerialInv, Exclusive
    <3>2. size = 0 /\ JsonSize(mem[p]) \in Nat
      BY <3>1, JsonSizeType DEF TornInv, TypeInv, FiniteInv
    <3>3. file' = "ok"
      BY <3>1, <3>2 DEF WriteOut
    <3> QED
      BY <3>1, <3>3 DEF TornInv
  <2> QED
    BY <1>2, <2>1, <2>2, <2>3, <2>4, <2>5 DEF Prompt
<1> QED
  BY <1>1, <1>2 DEF Next

\* One call after another never leaves a guard file behind that later calls
\* cannot read, unless a write failed or a process died in it (fs::write, guard.rs:35).
THEOREM FileStaysReadable == ASSUME ~Overlap PROVE Spec => []TornOnlyByFault
<1>1. Init => TornInv
  BY DEF Init, TornInv
<1>2. TypeInv /\ SerialInv /\ TornInv /\ [Next]_vars => TornInv'
  BY TornNext
<1>3. TornInv => TornOnlyByFault
  BY DEF TornInv, TornOnlyByFault, AllIdle
<1> QED
  BY SerialCorrect, <1>1, <1>2, <1>3, PTL DEF Spec

-----------------------------------------------------------------------------
(* One prompt at a time: no good code is denied.                           *)

\* A code that is valid for a step matches it.
LEMMA ValidityIsWindow ==
    ASSUME NEW t \in Nat, NEW c \in Codes, NEW s \in Nat, ValidFor(c, s, t)
    PROVE  s \in Matches(c, t)
<1> DEFINE q == t \div StepSeconds
           k == StepSeconds
<1>1. k \in Nat /\ k > 0 /\ SkewSteps \in Nat
  BY TotpAssumption
<1>2. q \in Nat /\ q * k <= t /\ t < (q + 1) * k
  BY <1>1
<1>3. Hotp(s) = c /\ (s - SkewSteps) * k <= t /\ t < (s + SkewSteps + 1) * k
  BY DEF ValidFor
<1>4. Window(t) = { n \in 0 .. q + SkewSteps : n + SkewSteps >= q }
  BY DEF Window, StepAt
<1> HIDE DEF q, k
<1>5. ASSUME NEW a \in Int, NEW b \in Int, a <= b
      PROVE  a * k <= b * k /\ a * k \in Int /\ b * k \in Int
  BY <1>1, <1>5
<1>6. s <= q + SkewSteps
  <2> SUFFICES ASSUME q + 1 <= s - SkewSteps PROVE FALSE
    BY <1>1, <1>2
  <2>1. (q + 1) * k <= (s - SkewSteps) * k
        /\ (q + 1) * k \in Int /\ (s - SkewSteps) * k \in Int
    BY <1>1, <1>2, <1>5
  <2> QED
    BY <1>2, <1>3, <2>1
<1>7. s + SkewSteps >= q
  <2> SUFFICES ASSUME s + SkewSteps + 1 <= q PROVE FALSE
    BY <1>1, <1>2
  <2>1. (s + SkewSteps + 1) * k <= q * k
        /\ (s + SkewSteps + 1) * k \in Int /\ q * k \in Int
    BY <1>1, <1>2, <1>5
  <2> QED
    BY <1>2, <1>3, <2>1
<1> QED
  BY <1>1, <1>2, <1>3, <1>4, <1>6, <1>7 DEF Matches

\* Within the steps that one attempt may match, codes do not repeat.
CodesDiffer ==
    /\ \A s \in Steps : Hotp(s) \in Codes
    /\ \A t \in Nat : \A m, s \in Window(t) : Hotp(m) = Hotp(s) => m = s

\* Of a call that is about to record a denial: the step its code matched, if any,
\* is spent.
DeniedInv ==
    \A p \in Prompts : pc[p] \in {"open", "write"} /\ verdict[p] = NoStep =>
        \A s \in MatchingStep(code[p], stamp[p].at) : s <= guard.last

LEMMA DeniedNext ==
    ASSUME TypeInv, SerialInv, DeniedInv, [Next]_vars
    PROVE  DeniedInv'
<1>1. CASE UNCHANGED vars \/ Tick \/ AdjustClock
  BY <1>1 DEF vars, Tick, AdjustClock, disk, local, ghosts, DeniedInv
<1>2. ASSUME NEW p \in Prompts, Prompt(p) PROVE DeniedInv'
  <2>0. /\ pc \in [Prompts -> {"idle", "read", "vault", "open", "write", "release"}]
        /\ code \in [Prompts -> Codes \cup {Malformed}] /\ stamp \in [Prompts -> Failures]
        /\ verdict \in [Prompts -> Steps \cup {NoStep}]
    BY DEF TypeInv, TypeOK
  <2>1. CASE (\E c \in Codes \cup {Malformed} : Submit(p, c)) \/ ReadGuard(p)
    <3>1. /\ pc'[p] \notin {"open", "write"} /\ UNCHANGED guard
          /\ \A q \in Prompts : q # p => /\ pc'[q] = pc[q] /\ code'[q] = code[q]
                                         /\ stamp'[q] = stamp[q] /\ verdict'[q] = verdict[q]
      BY <2>0, <2>1 DEF Submit, ReadGuard, Goto, disk
    <3> QED
      BY <3>1 DEF DeniedInv
  <2>2. CASE RefuseLocked(p) \/ FailRead(p) \/ Release(p) \/ FailWrite(p) \/ Crash(p)
    <3>1. Leave(p) /\ UNCHANGED guard
      BY <2>2, PartFacts DEF RefuseLocked, FailRead, Release, FailWrite, Crash, disk
    <3>2. /\ pc'[p] = "idle"
          /\ \A q \in Prompts : q # p => /\ pc'[q] = pc[q] /\ code'[q] = code[q]
                                         /\ stamp'[q] = stamp[q] /\ verdict'[q] = verdict[q]
      BY <2>0, <3>1 DEF Leave
    <3> QED
      BY <3>1, <3>2 DEF DeniedInv
  <2>3. CASE Accept(p)
    <3>1. PICK s \in MatchingStep(code[p], stamp[p].at) : verdict' = [verdict EXCEPT ![p] = s]
      BY <2>3 DEF Accept
    <3>2. s \in Steps
      BY <2>0, <3>1, MatchingStepType DEF Failures
    <3>3. /\ verdict'[p] # NoStep /\ UNCHANGED <<guard, code, stamp>>
          /\ \A q \in Prompts : q # p => pc'[q] = pc[q] /\ verdict'[q] = verdict[q]
      BY <2>0, <2>3, <3>1, <3>2 DEF Accept, Goto, disk, Steps, NoStep
    <3> QED
      BY <3>3 DEF DeniedInv
  <2>4. CASE Deny(p)
    <3>1. \A s \in MatchingStep(code[p], stamp[p].at) : s <= guard.last
      BY <2>4 DEF Deny, Goto, IsSpent, SerialInv, CopyInv
    <3>2. /\ UNCHANGED <<guard, code, stamp, verdict>>
          /\ \A q \in Prompts : q # p => pc'[q] = pc[q]
      BY <2>0, <2>4 DEF Deny, Goto, disk
    <3> QED
      BY <3>1, <3>2 DEF DeniedInv
  <2>5. CASE OpenGuard(p)
    <3>1. /\ pc[p] = "open" /\ UNCHANGED <<guard, code, stamp, verdict>>
          /\ \A q \in Prompts : q # p => pc'[q] = pc[q]
      BY <2>0, <2>5 DEF OpenGuard, Goto
    <3> QED
      BY <3>1 DEF DeniedInv
  <2>6. CASE RecordAccept(p) \/ RecordDenial(p)
    <3>1. pc[p] = "write" /\ pc'[p] \notin {"open", "write"}
          /\ \A q \in Prompts : q # p => pc'[q] = pc[q]
      BY <2>0, <2>6 DEF RecordAccept, RecordDenial, Goto, Leave
    <3>2. \A q \in Prompts : pc'[q] \notin {"open", "write"}
      BY <3>1 DEF SerialInv, Exclusive
    <3> QED
      BY <3>2 DEF DeniedInv
  <2> QED
    BY <1>2, <2>1, <2>2, <2>3, <2>4, <2>5, <2>6 DEF Prompt
<1> QED
  BY <1>1, <1>2 DEF Next

\* While prompts do not overlap and the codes of one window differ, a code that
\* is valid at the time of its attempt is denied only if its step is recorded
\* already (unlock.rs:10-11, 23-33).  With equal codes it is not so: the lower of
\* two steps with one code answers for both.
THEOREM GoodCodesPass ==
    ASSUME ~Overlap, CodesDiffer
    PROVE  Spec => []OnlyBadCodesDenied
<1>1. Init => DeniedInv
  BY DEF Init, DeniedInv
<1>2. TypeInv /\ SerialInv /\ DeniedInv /\ [Next]_vars => DeniedInv'
  BY DeniedNext
<1>3. TypeInv /\ DeniedInv => OnlyBadCodesDenied
  <2> SUFFICES ASSUME TypeInv, DeniedInv, NEW p \in Prompts,
                      pc[p] \in {"open", "write"}, verdict[p] = NoStep,
                      NEW s \in 0 .. StepAt(MaxUptime) + SkewSteps,
                      ValidFor(code[p], s, stamp[p].at)
               PROVE  s <= guard.last
    BY DEF OnlyBadCodesDenied
  <2>1. s \in Nat /\ stamp[p].at \in Nat
    BY DEF TypeInv, TypeOK, Failures
  <2>2. code[p] = Hotp(s) /\ code[p] \in Codes
    BY <2>1 DEF ValidFor, CodesDiffer, Steps
  <2>3. s \in Matches(code[p], stamp[p].at)
    BY <2>1, <2>2, ValidityIsWindow
  <2>4. \A m \in Matches(code[p], stamp[p].at) : m = s
    BY <2>1, <2>3 DEF Matches, CodesDiffer
  <2>5. s \in MatchingStep(code[p], stamp[p].at)
    BY <2>1, <2>3, <2>4 DEF MatchingStep
  <2> QED
    BY <2>5 DEF DeniedInv
<1> QED
  BY SerialCorrect, <1>1, <1>2, <1>3, PTL DEF Spec

-----------------------------------------------------------------------------
(* One prompt at a time, a steady clock: the budget of denied codes.       *)
(*                                                                         *)
(* What has been denied but is not in the file any more is old; so the     *)
(* list a call reads and prunes is the set of all denials that are recent  *)
(* at the time of its attempt.                                             *)

\* The denials younger than LockoutSeconds at time t.
Live(t) == { d \in denials : t - d.born < LockoutSeconds }

\* The wall clock shows true time.
SteadyInv ==
    /\ offset = 0
    /\ \A d \in denials : d.at = d.born /\ d.born <= uptime
    /\ \A p \in Prompts : pc[p] # "idle" =>
           /\ stamp[p].at = stamp[p].born
           /\ stamp[p].born <= uptime
           /\ stamp[p].id \in 1 .. attempts
           /\ \A d \in denials : d.born <= stamp[p].born

\* Only old denials have left the file.
PruneInv ==
    /\ guard.failures \subseteq denials
    /\ \A d \in denials \ guard.failures :
           /\ d.born + LockoutSeconds <= uptime
           /\ \A p \in Prompts :
                 pc[p] # "idle" => d.born + LockoutSeconds <= stamp[p].born

\* The copy in memory holds the live denials, and there is room for one more.
RoomOf(p) ==
    /\ pc[p] = "vault" => mem[p].failures = Live(stamp[p].born)
    /\ pc[p] \in {"open", "write"} /\ verdict[p] = NoStep =>
           /\ mem[p].failures = Live(stamp[p].born) \cup {stamp[p]}
           /\ Cardinality(Live(stamp[p].born)) < MaxFailures
    /\ pc[p] \in {"open", "write"} /\ verdict[p] # NoStep =>
           mem[p].failures = {}
RoomInv == \A p \in Prompts : RoomOf(p)

BudgetInv == SteadyInv /\ PruneInv /\ RoomInv /\ FailureBudget

\* Everything the two proofs before have established.
BaseInv == TypeInv /\ BoundInv /\ SerialInv

\* A step of one prompt that adds no denial concerns that prompt's room alone.
LEMMA RoomKept ==
    ASSUME RoomInv, NEW p \in Prompts, UNCHANGED <<denials, stamp>>,
           \A q \in Prompts : q # p => /\ pc'[q] = pc[q]
                                      /\ mem'[q] = mem[q]
                                      /\ verdict'[q] = verdict[q],
           RoomOf(p)'
    PROVE  RoomInv'
<1> SUFFICES ASSUME NEW q \in Prompts, q # p PROVE RoomOf(q)'
  BY DEF RoomInv
<1>1. RoomOf(q)
  BY DEF RoomInv
<1> QED
  BY <1>1 DEF RoomOf, Live

LEMMA BudgetInit == Offsets = {0} /\ Init => BudgetInv
<1> SUFFICES ASSUME Offsets = {0}, Init PROVE BudgetInv
  OBVIOUS
<1>1. SteadyInv
  BY DEF Init, SteadyInv
<1>2. PruneInv
  BY FreshGuardFacts DEF Init, PruneInv
<1>3. RoomInv
  BY DEF Init, RoomInv, RoomOf
<1>4. FailureBudget
  <2> SUFFICES ASSUME NEW t \in 0 .. uptime
               PROVE  Cardinality({ d \in denials : t <= d.born /\ d.born < t + LockoutSeconds })
                          <= MaxFailures
    BY DEF FailureBudget
  <2>1. { d \in denials : t <= d.born /\ d.born < t + LockoutSeconds } = {}
    BY DEF Init
  <2> QED
    BY <2>1, NoFailures, GuardAssumption
<1> QED
  BY <1>1, <1>2, <1>3, <1>4 DEF BudgetInv

LEMMA LiveFacts ==
    ASSUME TypeInv, NEW t \in Nat
    PROVE  /\ Live(t) \subseteq denials
           /\ IsFiniteSet(Live(t))
           /\ Cardinality(Live(t)) \in Nat
<1>1. Live(t) \subseteq denials /\ IsFiniteSet(denials)
  BY DEF Live, TypeInv, FiniteInv
<1> QED
  BY <1>1, FS_Subset, FS_CardinalityType

\* What a guard keeps when it is pruned at time t are the live denials, if
\* whatever is missing from it is older than the lockout at t.
LEMMA PrunedIsLive ==
    ASSUME TypeInv, SteadyInv, PruneInv, NEW t \in Nat,
           \A d \in denials : d.born <= t,
           \A d \in denials \ guard.failures : d.born + LockoutSeconds <= t
    PROVE  Recent(guard, t) = Live(t)
<1>1. \A d \in denials : d.at = d.born /\ d.born \in Nat /\ Elapsed(t, d.at) = t - d.born
  BY DEF SteadyInv, TypeInv, TypeOK, Failures, Elapsed
<1>2. \A d \in denials \ guard.failures : ~(t - d.born < LockoutSeconds)
  BY <1>1, GuardAssumption
<1>3. guard.failures \subseteq denials
  BY DEF PruneInv
<1> QED
  BY <1>1, <1>2, <1>3 DEF Recent, Live

LEMMA BudgetLeave ==
    ASSUME TypeInv, BudgetInv, NEW p \in Prompts, Leave(p),
           UNCHANGED <<wall, attempts, guard, denials>>
    PROVE  BudgetInv'
<1>1. \A q \in Prompts :
         pc'[q] # "idle" => /\ pc'[q] = pc[q] /\ mem'[q] = mem[q]
                            /\ stamp'[q] = stamp[q] /\ verdict'[q] = verdict[q]
  BY LeaveOthers
<1>2. SteadyInv'
  BY <1>1 DEF BudgetInv, SteadyInv, wall
<1>3. PruneInv'
  BY <1>1 DEF BudgetInv, PruneInv, wall
<1>4. RoomInv'
  BY <1>1 DEF BudgetInv, RoomInv, RoomOf, Live
<1>5. FailureBudget'
  BY DEF BudgetInv, FailureBudget, wall
<1> QED
  BY <1>2, <1>3, <1>4, <1>5 DEF BudgetInv

\* The step that adds a denial: a window that holds it lies within the live
\* denials and the new one.
LEMMA BudgetDenial ==
    ASSUME BaseInv, BudgetInv, NEW p \in Prompts, RecordDenial(p)
    PROVE  FailureBudget'
<1> DEFINE b == stamp[p].born
           In(t, D) == { d \in D : t <= d.born /\ d.born < t + LockoutSeconds }
<1>1. /\ pc[p] = "write" /\ verdict[p] = NoStep /\ uptime' = uptime
      /\ denials' = denials \cup {stamp[p]}
  BY DEF RecordDenial, wall
<1>2. /\ b \in Nat /\ stamp[p] \in Failures /\ IsFiniteSet(denials)
      /\ \A d \in denials : d.born \in Nat /\ d.born <= b
  BY <1>1 DEF BudgetInv, SteadyInv, BaseInv, TypeInv, TypeOK, FiniteInv, Failures
<1>3. Cardinality(Live(b)) < MaxFailures
  BY <1>1 DEF BudgetInv, RoomInv, RoomOf
<1>4. IsFiniteSet(Live(b)) /\ Cardinality(Live(b)) \in Nat
  BY <1>2, LiveFacts DEF BaseInv
<1> SUFFICES ASSUME NEW t \in 0 .. uptime
             PROVE  Cardinality(In(t, denials')) <= MaxFailures
  BY <1>1 DEF FailureBudget
<1>5. CASE t <= b /\ b < t + LockoutSeconds
  <2>1. \A d \in In(t, denials) : d \in Live(b)
    BY <1>2, <1>5, GuardAssumption DEF Live
  <2>2. In(t, denials') \subseteq Live(b) \cup {stamp[p]}
    BY <1>1, <2>1
  <2>3. /\ IsFiniteSet(Live(b) \cup {stamp[p]})
        /\ \/ Cardinality(Live(b) \cup {stamp[p]}) = Cardinality(Live(b))
           \/ Cardinality(Live(b) \cup {stamp[p]}) = Cardinality(Live(b)) + 1
    BY <1>4, FS_AddElement
  <2>4. /\ IsFiniteSet(In(t, denials'))
        /\ Cardinality(In(t, denials')) <= Cardinality(Live(b) \cup {stamp[p]})
    BY <2>2, <2>3, FS_Subset
  <2>5. Cardinality(In(t, denials')) \in Nat
    BY <2>4, FS_CardinalityType
  <2> HIDE DEF In
  <2> QED
    BY <1>3, <1>4, <2>3, <2>4, <2>5, GuardAssumption
<1>6. CASE ~(t <= b /\ b < t + LockoutSeconds)
  <2>1. In(t, denials') = In(t, denials)
    BY <1>1, <1>6
  <2>2. Cardinality(In(t, denials)) <= MaxFailures
    BY DEF BudgetInv, FailureBudget
  <2> QED
    BY <2>1, <2>2
<1> QED
  BY <1>5, <1>6

LEMMA BudgetNext ==
    ASSUME ~Overlap, Offsets = {0}, BaseInv, BaseInv', BudgetInv, [Next]_vars
    PROVE  BudgetInv'
<1> USE DEF BudgetInv
<1>0. TypeInv /\ SerialInv /\ BoundInv /\ TypeInv'
  BY DEF BaseInv
<1>a. CASE UNCHANGED vars
  BY <1>a DEF vars, wall, disk, local, ghosts, SteadyInv, PruneInv, RoomInv, RoomOf, Live,
              FailureBudget
<1>b. CASE Tick
  <2>1. /\ uptime' = uptime + 1 /\ uptime \in Nat
        /\ UNCHANGED <<offset, attempts, guard, pc, mem, stamp, verdict, denials>>
    BY <1>b, <1>0 DEF Tick, disk, local, ghosts, TypeInv, TypeOK
  <2>2. /\ \A d \in denials : d.born \in Nat
        /\ \A q \in Prompts : stamp[q].born \in Nat
    BY <1>0 DEF TypeInv, TypeOK, Failures
  <2>3. SteadyInv'
    BY <2>1, <2>2 DEF SteadyInv
  <2>4. PruneInv'
    BY <2>1, <2>2, GuardAssumption DEF PruneInv
  <2>5. RoomInv'
    BY <2>1 DEF RoomInv, RoomOf, Live
  <2>6. FailureBudget'
    <3> DEFINE In(t) == { d \in denials : t <= d.born /\ d.born < t + LockoutSeconds }
    <3> SUFFICES ASSUME NEW t \in 0 .. uptime + 1
                 PROVE  Cardinality(In(t)) <= MaxFailures
      BY <2>1 DEF FailureBudget
    <3>1. CASE t \in 0 .. uptime
      BY <3>1 DEF FailureBudget
    <3>2. CASE t = uptime + 1
      <4>1. In(t) = {}
        BY <2>1, <2>2, <3>2 DEF SteadyInv
      <4> QED
        BY <4>1, NoFailures, GuardAssumption
    <3> QED
      BY <2>1, <3>1, <3>2
  <2> QED
    BY <2>3, <2>4, <2>5, <2>6
<1>c. CASE AdjustClock
  BY <1>c DEF AdjustClock, SteadyInv
<1>d. ASSUME NEW p \in Prompts, Prompt(p)
      PROVE  BudgetInv'
  <2>1. ASSUME NEW c \in Codes \cup {Malformed}, Submit(p, c)
        PROVE  BudgetInv'
    <3>1. /\ AllIdle /\ pc' = [pc EXCEPT ![p] = "read"]
          /\ stamp' = [stamp EXCEPT ![p] =
                         [at |-> Clock, id |-> attempts + 1, born |-> uptime]]
          /\ attempts' = attempts + 1
          /\ UNCHANGED <<uptime, offset, guard, mem, verdict, denials>>
      BY <2>1, UnlockAssumption DEF Submit, Goto, wall, disk, ghosts
    <3>2. Clock = uptime /\ uptime \in Nat /\ attempts \in Nat
      BY <1>0 DEF SteadyInv, Clock, TypeInv, TypeOK
    <3>3. \A q \in Prompts : pc'[q] # "idle" =>
             q = p /\ stamp'[q] = [at |-> uptime, id |-> attempts + 1, born |-> uptime]
      BY <1>0, <3>1, <3>2 DEF AllIdle, TypeInv, TypeOK
    <3>4. SteadyInv'
      BY <3>1, <3>2, <3>3 DEF SteadyInv
    <3>5. PruneInv'
      BY <3>1, <3>3 DEF PruneInv
    <3>6. RoomInv'
      BY <1>0, <3>1 DEF RoomInv, RoomOf, AllIdle, TypeInv, TypeOK
    <3>7. FailureBudget'
      BY <3>1 DEF FailureBudget
    <3> QED
      BY <3>4, <3>5, <3>6, <3>7
  <2>2. CASE ReadGuard(p)
    <3>1. PICK g \in Loaded : mem' = [mem EXCEPT ![p] = Pruned(g, stamp[p].at)]
      BY <2>2 DEF ReadGuard
    <3>2. /\ pc[p] = "read" /\ pc' = [pc EXCEPT ![p] = "vault"]
          /\ UNCHANGED <<uptime, offset, attempts, guard, stamp, verdict, denials>>
      BY <2>2 DEF ReadGuard, Goto, wall, disk, ghosts
    <3>3. /\ stamp[p].at = stamp[p].born /\ stamp[p].born \in Nat
          /\ \A d \in denials : d.born <= stamp[p].born
          /\ \A d \in denials \ guard.failures :
                d.born + LockoutSeconds <= stamp[p].born
      BY <1>0, <3>2 DEF SteadyInv, PruneInv, TypeInv, TypeOK, Failures
    <3>4. g = guard
      BY <1>0, LoadedType DEF SerialInv, FileInv, TypeInv, TypeOK
    <3>5. Pruned(g, stamp[p].at).failures = Live(stamp[p].born)
      BY <1>0, <3>3, <3>4, PrunedIsLive, PrunedFacts DEF TypeInv, FiniteInv
    <3>6. RoomInv'
      <4>1. pc'[p] = "vault" /\ mem'[p].failures = Live(stamp[p].born)
        BY <1>0, <3>1, <3>2, <3>5 DEF TypeInv, TypeOK
      <4>2. RoomOf(p)'
        BY <3>2, <4>1 DEF RoomOf, Live
      <4>3. \A q \in Prompts : q # p => pc'[q] = pc[q] /\ mem'[q] = mem[q]
        BY <1>0, <3>1, <3>2 DEF TypeInv, TypeOK
      <4> QED
        BY <3>2, <4>2, <4>3, RoomKept
    <3>7. SteadyInv' /\ PruneInv'
      BY <1>0, <3>2 DEF SteadyInv, PruneInv, TypeInv, TypeOK
    <3>8. FailureBudget'
      BY <3>2 DEF FailureBudget
    <3> QED
      BY <3>6, <3>7, <3>8
  <2>3. CASE RefuseLocked(p)
    BY <1>0, <2>3, BudgetLeave DEF RefuseLocked, disk, ghosts
  <2>4. CASE FailRead(p)
    BY <1>0, <2>4, BudgetLeave DEF FailRead, disk, ghosts
  <2>5. CASE Accept(p)
    <3>1. PICK s \in MatchingStep(code[p], stamp[p].at) :
              /\ mem' = [mem EXCEPT ![p] = RecordSuccess(mem[p], s)]
              /\ verdict' = [verdict EXCEPT ![p] = s]
      BY <2>5 DEF Accept
    <3>2. /\ pc[p] = "vault" /\ pc' = [pc EXCEPT ![p] = "open"]
          /\ UNCHANGED <<uptime, offset, attempts, guard, stamp, denials>>
      BY <2>5 DEF Accept, Goto, wall, disk, ghosts
    <3>3. s # NoStep /\ RecordSuccess(mem[p], s).failures = {}
      BY <1>0, MatchingStepType DEF TypeInv, TypeOK, Failures, Steps, NoStep, RecordSuccess
    <3>4. RoomInv'
      <4>1. pc'[p] = "open" /\ verdict'[p] = s /\ mem'[p].failures = {}
        BY <1>0, <3>1, <3>2, <3>3 DEF TypeInv, TypeOK
      <4>2. RoomOf(p)'
        BY <3>3, <4>1 DEF RoomOf
      <4>3. \A q \in Prompts : q # p => /\ pc'[q] = pc[q]
                                        /\ mem'[q] = mem[q]
                                        /\ verdict'[q] = verdict[q]
        BY <1>0, <3>1, <3>2 DEF TypeInv, TypeOK
      <4> QED
        BY <3>2, <4>2, <4>3, RoomKept
    <3>5. SteadyInv' /\ PruneInv'
      BY <1>0, <3>2 DEF SteadyInv, PruneInv, TypeInv, TypeOK
    <3>6. FailureBudget'
      BY <3>2 DEF FailureBudget
    <3> QED
      BY <3>4, <3>5, <3>6
  <2>6. CASE Deny(p)
    <3>1. /\ pc[p] = "vault" /\ pc' = [pc EXCEPT ![p] = "open"]
          /\ mem' = [mem EXCEPT ![p] = RecordFailure(mem[p], stamp[p])]
          /\ UNCHANGED <<uptime, offset, attempts, guard, stamp, verdict, denials>>
      BY <2>6 DEF Deny, Goto, wall, disk, ghosts
    <3>2. /\ mem[p].failures = Live(stamp[p].born)
          /\ Cardinality(mem[p].failures) < MaxFailures
          /\ verdict[p] = NoStep
      BY <1>0, <3>1 DEF RoomInv, RoomOf, BoundInv, TypeInv, VerdictInv
    <3>3. RecordFailure(mem[p], stamp[p]).failures = mem[p].failures \cup {stamp[p]}
      BY <1>0, RecordFailureFacts DEF TypeInv, TypeOK, FiniteInv
    <3>4. RoomInv'
      <4>1. /\ pc'[p] = "open" /\ verdict'[p] = NoStep
            /\ mem'[p].failures = Live(stamp[p].born) \cup {stamp[p]}
        BY <1>0, <3>1, <3>2, <3>3 DEF TypeInv, TypeOK
      <4>2. RoomOf(p)'
        BY <3>1, <3>2, <4>1 DEF RoomOf, Live
      <4>3. \A q \in Prompts : q # p => pc'[q] = pc[q] /\ mem'[q] = mem[q]
        BY <1>0, <3>1 DEF TypeInv, TypeOK
      <4> QED
        BY <3>1, <4>2, <4>3, RoomKept
    <3>5. SteadyInv' /\ PruneInv'
      BY <1>0, <3>1 DEF SteadyInv, PruneInv, TypeInv, TypeOK
    <3>6. FailureBudget'
      BY <3>1 DEF FailureBudget
    <3> QED
      BY <3>4, <3>5, <3>6
  <2>7. CASE OpenGuard(p)
    <3>1. /\ pc[p] = "open" /\ pc' = [pc EXCEPT ![p] = "write"]
          /\ UNCHANGED <<uptime, offset, attempts, guard, stamp, mem, verdict, denials>>
      BY <2>7 DEF OpenGuard, Goto, wall, ghosts
    <3>a. \A q \in Prompts : pc'[q] # "idle" => pc[q] # "idle"
      BY <1>0, <3>1 DEF TypeInv, TypeOK
    <3>2. SteadyInv' /\ PruneInv' /\ FailureBudget'
      <4>1. SteadyInv'
        BY <3>1, <3>a DEF SteadyInv
      <4>2. PruneInv'
        BY <3>1, <3>a DEF PruneInv
      <4>3. FailureBudget'
        BY <3>1 DEF FailureBudget
      <4> QED
        BY <4>1, <4>2, <4>3
    <3>3. RoomInv'
      <4> SUFFICES ASSUME NEW q \in Prompts PROVE RoomOf(q)'
        BY DEF RoomInv
      <4>1. RoomOf(q)
        BY <1>0 DEF RoomInv
      <4>3. pc'[q] = pc[q] \/ (pc[q] = "open" /\ pc'[q] = "write")
        BY <1>0, <3>1 DEF TypeInv, TypeOK
      <4>4. pc[q] # "idle" => Live(stamp[q].born)' = Live(stamp[q].born)
        BY <3>1 DEF Live
      <4> QED
        BY <3>1, <4>1, <4>3, <4>4 DEF RoomOf
    <3> QED
      BY <3>2, <3>3
  <2>8. CASE FailWrite(p)
    BY <1>0, <2>8, BudgetLeave, PartFacts DEF FailWrite
  <2>9. CASE RecordAccept(p)
    <3>1. /\ pc[p] = "write" /\ pc' = [pc EXCEPT ![p] = "release"]
          /\ verdict[p] # NoStep /\ guard' = mem[p] /\ denials' = {}
          /\ UNCHANGED <<uptime, offset, attempts, stamp, mem, verdict>>
      BY <2>9 DEF RecordAccept, WriteOut, Goto, wall
    <3>2. guard'.failures = {}
      BY <3>1 DEF RoomInv, RoomOf
    <3>3. \A q \in Prompts : pc'[q] # "idle" => q = p /\ pc'[q] = "release"
      BY <1>0, <3>1 DEF SerialInv, Exclusive, TypeInv, TypeOK
    <3>4. SteadyInv'
      BY <3>1, <3>3 DEF SteadyInv
    <3>5. PruneInv'
      BY <3>1, <3>2 DEF PruneInv
    <3>6. RoomInv'
      BY <3>3 DEF RoomInv, RoomOf
    <3>7. FailureBudget'
      <4> SUFFICES ASSUME NEW t \in 0 .. uptime'
                   PROVE  Cardinality({ d \in denials' :
                              t <= d.born /\ d.born < t + LockoutSeconds }) <= MaxFailures
        BY DEF FailureBudget
      <4>1. { d \in denials' : t <= d.born /\ d.born < t + LockoutSeconds } = {}
        BY <3>1
      <4> QED
        BY <4>1, NoFailures, GuardAssumption
    <3> QED
      BY <3>4, <3>5, <3>6, <3>7
  <2>10. CASE RecordDenial(p)
    <3>1. /\ pc[p] = "write" /\ verdict[p] = NoStep /\ Leave(p) /\ guard' = mem[p]
          /\ denials' = denials \cup {stamp[p]}
          /\ UNCHANGED <<uptime, offset, attempts>>
      BY <2>10 DEF RecordDenial, WriteOut, wall
    <3>2. \A q \in Prompts : pc'[q] = "idle"
      BY <1>0, <3>1, LeaveOthers DEF SerialInv, Exclusive
    <3>3. guard'.failures = Live(stamp[p].born) \cup {stamp[p]}
      BY <3>1 DEF RoomInv, RoomOf
    <3>4. /\ stamp[p].at = stamp[p].born /\ stamp[p].born <= uptime
          /\ stamp[p].born \in Nat /\ uptime \in Nat
          /\ \A d \in denials : d.born \in Nat
      BY <1>0, <3>1 DEF SteadyInv, TypeInv, TypeOK, Failures
    <3>5. SteadyInv'
      BY <3>1, <3>2, <3>4 DEF SteadyInv
    <3>6. \A d \in denials' \ guard'.failures : d.born + LockoutSeconds <= uptime
      BY <3>1, <3>3, <3>4, GuardAssumption DEF Live
    <3>7. guard'.failures \subseteq denials'
      BY <3>1, <3>3 DEF Live
    <3>8. PruneInv'
      BY <3>1, <3>2, <3>6, <3>7 DEF PruneInv
    <3>9. RoomInv'
      BY <3>2 DEF RoomInv, RoomOf
    <3> QED
      BY <2>10, <3>5, <3>8, <3>9, BudgetDenial
  <2>11. CASE Release(p)
    BY <1>0, <2>11, BudgetLeave DEF Release, disk
  <2>12. CASE Crash(p)
    BY <1>0, <2>12, BudgetLeave, PartFacts DEF Crash
  <2> QED
    BY <1>d, <2>1, <2>2, <2>3, <2>4, <2>5, <2>6, <2>7, <2>8, <2>9, <2>10,
       <2>11, <2>12 DEF Prompt
<1> QED
  BY <1>a, <1>b, <1>c, <1>d DEF Next

LEMMA BudgetCorrect ==
    ASSUME ~Overlap, Offsets = {0}
    PROVE  Spec => [](BaseInv /\ BudgetInv)
<1>1. Init => BaseInv /\ BudgetInv
  <2>1. Init => BoundInv
    BY NoFailures, GuardAssumption, FreshGuardFacts DEF Init, BoundInv, FailuresBounded
  <2> QED
    BY <2>1, TypeInit, SerialInit, BudgetInit DEF BaseInv
<1>2. BaseInv /\ [Next]_vars => BaseInv'
  BY TypeNext, BoundNext, SubmitsAlone, SerialNext DEF BaseInv
<1>3. BaseInv /\ BudgetInv /\ [Next]_vars => (BaseInv /\ BudgetInv)'
  BY <1>2, BudgetNext
<1> QED
  BY <1>1, <1>3, PTL DEF Spec

\* While prompts do not overlap and the clock is steady, no window of
\* LOCKOUT_SECONDS between two successes sees more than MAX_FAILURES denied
\* codes, wherever calls crash or fail (guard.rs:10-14).
THEOREM DeniedWithinBudget ==
    ASSUME ~Overlap, Offsets = {0} PROVE Spec => []FailureBudget
  BY BudgetCorrect, PTL DEF BudgetInv

\* While prompts do not overlap and the clock is steady, the prompt is locked
\* exactly while MAX_FAILURES codes were denied in the last LOCKOUT_SECONDS
\* (guard.rs:39-43).
THEOREM LockoutExact ==
    ASSUME ~Overlap, Offsets = {0} PROVE Spec => []LockoutMatchesDenials
<1>1. BaseInv /\ BudgetInv => LockoutMatchesDenials
  <2> SUFFICES ASSUME BaseInv, BudgetInv PROVE LockoutMatchesDenials
    OBVIOUS
  <2>1. Clock = uptime /\ uptime \in Nat
    BY DEF BudgetInv, SteadyInv, BaseInv, TypeInv, TypeOK, Clock
  <2>2. Recent(guard, uptime) = Live(uptime)
    BY <2>1, PrunedIsLive DEF BaseInv, BudgetInv, PruneInv, SteadyInv
  <2> QED
    BY <2>1, <2>2 DEF LockoutMatchesDenials, IsLocked, Live
<1> QED
  BY <1>1, BudgetCorrect, PTL

-----------------------------------------------------------------------------
(* unlock() implements the one-time gate. *)

LEMMA StepAtMonotone ==
    ASSUME NEW a \in Nat, NEW b \in Nat, a <= b
    PROVE  StepAt(a) <= StepAt(b) /\ StepAt(b) \in Nat
<1> DEFINE k == StepSeconds
           x == a \div k
           y == b \div k
<1>1. k \in Nat /\ k > 0
  BY TotpAssumption
<1>2. x \in Nat /\ x * k <= a
  BY <1>1
<1>3. y \in Nat /\ b < (y + 1) * k
  BY <1>1
<1> HIDE DEF k, x, y
<1>4. x * k < (y + 1) * k
  <2>1. x * k \in Int /\ (y + 1) * k \in Int
    BY <1>1, <1>2, <1>3
  <2> QED
    BY <1>2, <1>3, <2>1
<1>5. ASSUME x >= y + 1 PROVE FALSE
  <2>1. x * k >= (y + 1) * k
    BY <1>1, <1>2, <1>3, <1>5
  <2>2. x * k \in Int /\ (y + 1) * k \in Int
    BY <1>1, <1>2, <1>3
  <2> QED
    BY <1>4, <2>1, <2>2
<1>6. x <= y
  BY <1>2, <1>3, <1>5
<1> QED
  BY <1>3, <1>6 DEF x, y, k, StepAt

LEMMA GateInit == Init => Gate!Init
<1> SUFFICES ASSUME Init PROVE Gate!Init
  OBVIOUS
<1>1. { r.step : r \in released } = {}
  BY DEF Init
<1> QED
  BY <1>1 DEF Init, Gate!Init, FreshGuard, NoStep

LEMMA GateStep ==
    ASSUME ~Overlap, Offsets = {0}, BaseInv, BudgetInv, [Next]_vars
    PROVE  [Gate!Next]_Gate!vars
<1> DEFINE same == UNCHANGED <<uptime, attempts, guard, released, denials>>
<1>0. TypeInv /\ SerialInv
  BY DEF BaseInv
<1>s. ASSUME same PROVE UNCHANGED Gate!vars
  BY <1>s DEF Gate!vars
<1>a. CASE UNCHANGED vars
  BY <1>a, <1>s DEF vars, wall, disk, ghosts
<1>b. CASE Tick
  <2>1. Gate!Pass
    BY <1>b DEF Tick, disk, ghosts, Gate!Pass
  <2> QED
    BY <2>1 DEF Gate!Next
<1>c. CASE AdjustClock
  BY <1>c DEF AdjustClock, BudgetInv, SteadyInv
<1>d. ASSUME NEW p \in Prompts, Prompt(p)
      PROVE  [Gate!Next]_Gate!vars
  <2>1. ASSUME NEW c \in Codes \cup {Malformed}, Submit(p, c)
        PROVE  Gate!Next
    <3>1. Gate!Ask
      BY <2>1 DEF Submit, wall, disk, ghosts, Gate!Ask
    <3> QED
      BY <3>1 DEF Gate!Next
  <2>2. CASE ReadGuard(p) \/ RefuseLocked(p) \/ FailRead(p)
    BY <1>s, <2>2 DEF ReadGuard, RefuseLocked, FailRead, wall, disk, ghosts
  <2>3. CASE Accept(p) \/ Deny(p) \/ OpenGuard(p)
    BY <1>s, <2>3 DEF Accept, Deny, OpenGuard, wall, disk, ghosts
  <2>4. CASE FailWrite(p) \/ Crash(p)
    BY <1>0, <1>s, <2>4, PartFacts DEF FailWrite, Crash, wall
  <2>5. CASE RecordAccept(p)
    <3>1. /\ pc[p] = "write" /\ verdict[p] # NoStep /\ guard' = mem[p]
          /\ denials' = {} /\ UNCHANGED <<uptime, attempts, released>>
      BY <2>5 DEF RecordAccept, WriteOut, Goto, wall
    <3>2. /\ mem[p].last = verdict[p] /\ guard.last < verdict[p]
          /\ verdict[p] \in MatchingStep(code[p], stamp[p].at)
      BY <1>0, <3>1 DEF SerialInv, CopyInv, TypeInv, VerdictInv
    <3>3. /\ stamp[p].at \in Nat /\ uptime \in Nat /\ stamp[p].at <= uptime
      BY <1>0, <3>1 DEF BudgetInv, SteadyInv, TypeInv, TypeOK, Failures
    <3>4. verdict[p] \in 0 .. StepAt(stamp[p].at) + SkewSteps
      BY <3>2 DEF MatchingStep, Matches, Window
    <3>5. StepAt(stamp[p].at) <= StepAt(uptime) /\ StepAt(uptime) \in Nat
          /\ StepAt(stamp[p].at) \in Nat
      BY <3>3, StepAtMonotone
    <3>6. verdict[p] \in 0 .. StepAt(uptime) + SkewSteps
      BY <3>4, <3>5, TotpAssumption
    <3>7. Gate!Use(verdict[p])
      BY <3>1, <3>2 DEF Gate!Use
    <3> QED
      BY <3>6, <3>7 DEF Gate!Next, StepAt
  <2>6. CASE RecordDenial(p)
    <3>1. /\ pc[p] = "write" /\ verdict[p] = NoStep /\ guard' = mem[p]
          /\ denials' = denials \cup {stamp[p]}
          /\ UNCHANGED <<uptime, attempts, released>>
      BY <2>6 DEF RecordDenial, WriteOut, wall
    <3>2. mem[p].last = guard.last
      BY <3>1 DEF BaseInv, SerialInv, CopyInv
    <3>3. Cardinality(Live(stamp[p].born)) < MaxFailures
      BY <3>1 DEF BudgetInv, RoomInv, RoomOf
    <3>4. /\ stamp[p].at = stamp[p].born /\ stamp[p].id \in 1 .. attempts
          /\ stamp[p].born \in 0 .. uptime /\ stamp[p] \in Failures
      BY <1>0, <3>1 DEF BudgetInv, SteadyInv, TypeInv, TypeOK, Failures
    <3>5. stamp[p] = [at |-> stamp[p].born, id |-> stamp[p].id, born |-> stamp[p].born]
      BY <3>4 DEF Failures
    <3>6. denials' = denials \cup
              {[at |-> stamp[p].born, id |-> stamp[p].id, born |-> stamp[p].born]}
      BY <3>1, <3>5, Zenon
    <3>7. UNCHANGED <<uptime, attempts, guard.last, { r.step : r \in released }>>
      BY <3>1, <3>2
    <3>8. Gate!Refuse(stamp[p].id, stamp[p].born)
      <4>1. Cardinality({ d \in denials : stamp[p].born - d.born < LockoutSeconds })
                < MaxFailures
        BY <3>3 DEF Live
      <4> QED
        BY <3>6, <3>7, <4>1 DEF Gate!Refuse
    <3> QED
      BY <3>4, <3>8 DEF Gate!Next
  <2>7. CASE Release(p)
    <3> DEFINE new == [id |-> stamp[p].id, step |-> verdict[p],
                       code |-> code[p], at |-> stamp[p].at]
    <3>1. /\ pc[p] = "release" /\ released' = released \cup {new}
          /\ UNCHANGED <<uptime, attempts, guard, denials>>
      BY <2>7 DEF Release, wall, disk
    <3>2. /\ guard.last = verdict[p] /\ verdict[p] # NoStep /\ verdict[p] \in Nat \cup {NoStep}
          /\ \A r \in released : r.step < verdict[p] /\ r.step \in Nat
      BY <1>0, <3>1 DEF SerialInv, CopyInv, TypeInv, TypeOK, VerdictInv, Releases, Steps
    <3>3. verdict[p] \notin { r.step : r \in released }
      BY <3>2 DEF NoStep
    <3>4. { r.step : r \in released' } = { r.step : r \in released } \cup {verdict[p]}
      <4>1. new.step = verdict[p]
        OBVIOUS
      <4> QED
        BY <3>1, <4>1
    <3>5. Gate!Open
      BY <3>1, <3>2, <3>3, <3>4 DEF Gate!Open, NoStep
    <3> QED
      BY <3>5 DEF Gate!Next
  <2> QED
    BY <1>d, <2>1, <2>2, <2>3, <2>4, <2>5, <2>6, <2>7 DEF Prompt
<1> QED
  BY <1>a, <1>b, <1>c, <1>d DEF Next

\* While prompts do not overlap and the clock is steady, everything unlock()
\* does is something the one-time gate may do (unlock.rs:10-12).
THEOREM ImplementsGate == ASSUME ~Overlap, Offsets = {0} PROVE Spec => GateSpec
<1>1. BaseInv /\ BudgetInv /\ [Next]_vars => [Gate!Next]_Gate!vars
  BY GateStep
<1>2. Spec => [](BaseInv /\ BudgetInv)
  BY BudgetCorrect
<1> QED
  BY GateInit, <1>1, <1>2, PTL DEF Spec, GateSpec, Gate!Spec
=============================================================================
