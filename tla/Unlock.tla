------------------------------- MODULE Unlock -------------------------------
(***************************************************************************)
(* unlock() of otpuac-core/src/unlock.rs, run by the UAC prompts of one    *)
(* machine.  Each prompt is a consent.exe of its own, so the only state    *)
(* two calls share is guard.json, which the code reads, changes in memory  *)
(* and writes back without a lock.  Every file access is a step: other     *)
(* prompts, the clock, an I/O error or the death of the process may come   *)
(* between any two of them.                                                *)
(*                                                                         *)
(* Overlap says whether a prompt may submit while another one is inside    *)
(* unlock().  One secure desktop shows one prompt at a time; two sessions  *)
(* of the same machine (fast user switching, remote desktop) do not wait   *)
(* for each other.                                                         *)
(***************************************************************************)
EXTENDS Totp, Guard

CONSTANTS
    Prompts,      \* the consent.exe processes
    Malformed,    \* any input that is not six digits after trimming
    Overlap,      \* TRUE: prompts of several sessions run at once
    Offsets,      \* wall clock minus true time, the values it may take
    MaxUptime,    \* bound: seconds of true time
    MaxAttempts   \* bound: number of submissions

ASSUME UnlockAssumption ==
    /\ Malformed \notin Codes
    /\ Overlap \in BOOLEAN
    /\ Offsets \subseteq Int
    /\ Offsets # {}
    /\ MaxUptime \in Nat
    /\ MaxAttempts \in Nat

VARIABLES
    uptime,    \* true seconds since the model starts
    offset,    \* the wall clock's error
    attempts,  \* number of submissions so far
    file,      \* guard.json: does it exist, does it parse
    size,      \* length of guard.json
    guard,     \* the last guard that was written out in full
    pc,        \* pc[p]: the next step of prompt p
    code,      \* code[p]: the submitted code
    stamp,     \* stamp[p]: time and number of the attempt, as a failure entry
    mem,       \* mem[p]: the local variable `guard'
    verdict,   \* verdict[p]: the accepted step, NoStep for a denial
    released,  \* history: credentials handed out
    denials,   \* history: denials since the last recorded success
    disturbed  \* history: a write failed half way or a process died in it

wall   == <<uptime, offset>>
disk   == <<file, size, guard>>
local  == <<pc, code, stamp, mem, verdict>>
ghosts == <<released, denials, disturbed>>
vars   == <<wall, attempts, disk, local, ghosts>>

NoStamp == [at |-> 0, id |-> 0, born |-> 0]

Releases == [id : Nat, step : Steps, code : Codes, at : Nat]

\* Mutant: a clock before the epoch is not taken for the epoch.
ClockUnclipped == uptime + offset

\* now_unix(): duration_since(UNIX_EPOCH).unwrap_or_default().
Clock == IF uptime + offset >= 0 THEN uptime + offset ELSE 0

TypeOK ==
    /\ uptime \in Nat /\ offset \in Offsets /\ attempts \in Nat
    /\ file \in {"missing", "ok", "torn"} /\ size \in Nat
    /\ guard \in Guards
    /\ pc \in [Prompts -> {"idle", "read", "vault", "open", "write", "release"}]
    /\ code \in [Prompts -> Codes \cup {Malformed}]
    /\ stamp \in [Prompts -> Failures]
    /\ mem \in [Prompts -> Guards]
    /\ verdict \in [Prompts -> Steps \cup {NoStep}]
    /\ released \subseteq Releases
    /\ denials \subseteq Failures
    /\ disturbed \in BOOLEAN

Init ==
    /\ uptime = 0 /\ offset \in Offsets /\ attempts = 0
    /\ file = "missing" /\ size = 0 /\ guard = FreshGuard
    /\ pc = [p \in Prompts |-> "idle"]
    /\ code = [p \in Prompts |-> Malformed]
    /\ stamp = [p \in Prompts |-> NoStamp]
    /\ mem = [p \in Prompts |-> FreshGuard]
    /\ verdict = [p \in Prompts |-> NoStep]
    /\ released = {} /\ denials = {} /\ disturbed = FALSE
-----------------------------------------------------------------------------
AllIdle == \A p \in Prompts : pc[p] = "idle"

Goto(p, from, to) == pc[p] = from /\ pc' = [pc EXCEPT ![p] = to]

\* unlock() returns, with or without a credential; its locals are gone.
Leave(p) ==
    /\ pc' = [pc EXCEPT ![p] = "idle"]
    /\ code' = [code EXCEPT ![p] = Malformed]
    /\ stamp' = [stamp EXCEPT ![p] = NoStamp]
    /\ mem' = [mem EXCEPT ![p] = FreshGuard]
    /\ verdict' = [verdict EXCEPT ![p] = NoStep]

\* Submit clicked: unlock(&dir, &code, now_unix()).
Submit(p, c) ==
    /\ Goto(p, "idle", "read")
    /\ attempts < MaxAttempts
    /\ Overlap \/ AllIdle
    /\ attempts' = attempts + 1
    /\ code' = [code EXCEPT ![p] = c]
    /\ stamp' = [stamp EXCEPT ![p] =
                   [at |-> Clock, id |-> attempts + 1, born |-> uptime]]
    /\ UNCHANGED <<wall, disk, mem, verdict, ghosts>>

\* Guard::read: a missing file is a fresh guard, text that does not parse is
\* an error (so there is nothing to load).
Loaded == CASE file = "missing" -> {FreshGuard}
            [] file = "ok"      -> {guard}
            [] file = "torn"    -> {}

\* guard.is_locked(now) on the copy just read; LockedOut returns at once and
\* writes nothing.
ReadGuard(p) ==
    /\ Goto(p, "read", "vault")
    /\ \E g \in Loaded :
          /\ ~IsLocked(g, stamp[p].at)
          /\ mem' = [mem EXCEPT ![p] = Pruned(g, stamp[p].at)]
    /\ UNCHANGED <<wall, attempts, disk, code, stamp, verdict, ghosts>>

\* Mutant: an attempt during the lockout is recorded as a failure as well.
RefuseAndRecord(p) ==
    /\ pc[p] = "read"
    /\ \E g \in Loaded :
          /\ IsLocked(g, stamp[p].at)
          /\ guard' = RecordFailure(Pruned(g, stamp[p].at), stamp[p])
    /\ size' = JsonSize(guard') /\ file' = "ok"
    /\ Leave(p)
    /\ UNCHANGED <<wall, attempts, ghosts>>

RefuseLocked(p) ==
    /\ pc[p] = "read"
    /\ \E g \in Loaded : IsLocked(g, stamp[p].at)
    /\ Leave(p)
    /\ UNCHANGED <<wall, attempts, disk, ghosts>>

\* Mutant: a guard that does not parse is read again until it does.
FailReadOfVault(p) ==
    /\ pc[p] \in {"vault", "release"}
    /\ Leave(p)
    /\ UNCHANGED <<wall, attempts, disk, ghosts>>

\* The `?' after Guard::read, Vault::read, totp_secret and vault.credential:
\* guard.json torn or unreadable, vault.json missing, malformed, of another
\* version, or sealed on another machine.
FailRead(p) ==
    /\ pc[p] \in {"read", "vault", "release"}
    /\ Leave(p)
    /\ UNCHANGED <<wall, attempts, disk, ghosts>>

\* Mutant: the credential is released before the guard is written.
AcceptUnrecorded(p) ==
    /\ Goto(p, "vault", "release")
    /\ \E s \in MatchingStep(code[p], stamp[p].at) :
          /\ ~IsSpent(mem[p], s)
          /\ mem' = [mem EXCEPT ![p] = RecordSuccess(mem[p], s)]
          /\ verdict' = [verdict EXCEPT ![p] = s]
    /\ UNCHANGED <<wall, attempts, disk, code, stamp, ghosts>>

\* The vault is read and the code decided; the guard changes in memory only.
Accept(p) ==
    /\ Goto(p, "vault", "open")
    /\ \E s \in MatchingStep(code[p], stamp[p].at) :
          /\ ~IsSpent(mem[p], s)
          /\ mem' = [mem EXCEPT ![p] = RecordSuccess(mem[p], s)]
          /\ verdict' = [verdict EXCEPT ![p] = s]
    /\ UNCHANGED <<wall, attempts, disk, code, stamp, ghosts>>

\* CodeReused and CodeRejected.
Deny(p) ==
    /\ Goto(p, "vault", "open")
    /\ \A s \in MatchingStep(code[p], stamp[p].at) : IsSpent(mem[p], s)
    /\ mem' = [mem EXCEPT ![p] = RecordFailure(mem[p], stamp[p])]
    /\ UNCHANGED <<wall, attempts, disk, code, stamp, verdict, ghosts>>

\* Mutant: the file is opened without being truncated.
OpenWithoutTruncate(p) ==
    /\ Goto(p, "open", "write")
    /\ UNCHANGED <<wall, attempts, disk, code, stamp, mem, verdict, ghosts>>

\* fs::write, first half: the file is created or truncated.
OpenGuard(p) ==
    /\ Goto(p, "open", "write")
    /\ file' = "torn" /\ size' = 0
    /\ UNCHANGED <<wall, attempts, guard, code, stamp, mem, verdict, ghosts>>

\* What a write that stops half way leaves: the part of the text that got
\* through, over what another prompt may have put there meanwhile.
PartWritten(p) ==
    /\ UNCHANGED guard
    /\ \/ UNCHANGED <<file, size>>
       \/ /\ pc[p] = "write" /\ file' = "torn"
          /\ \E part \in 1 .. JsonSize(mem[p]) - 1 :
                size' = IF size < part THEN part ELSE size

\* The open or the write fails: unlock() returns the error, whatever the
\* verdict.
FailWrite(p) ==
    /\ pc[p] \in {"open", "write"}
    /\ disturbed' = (disturbed \/ pc[p] = "write")
    /\ PartWritten(p)
    /\ Leave(p)
    /\ UNCHANGED <<wall, attempts, released, denials>>

\* fs::write, second half: the text goes to the start of the file.  Behind
\* a longer text that another prompt wrote meanwhile its tail stays.
WriteOut(p) ==
    /\ guard' = mem[p]
    /\ IF size <= JsonSize(mem[p])
       THEN file' = "ok" /\ size' = JsonSize(mem[p])
       ELSE file' = "torn" /\ size' = size

\* Written, and the verdict was a step: on to vault.credential().
RecordAccept(p) ==
    /\ Goto(p, "write", "release")
    /\ verdict[p] # NoStep
    /\ WriteOut(p)
    /\ denials' = {}
    /\ UNCHANGED <<wall, attempts, code, stamp, mem, verdict, released, disturbed>>

\* Written, and the verdict was a denial, which `outcome?' now returns.
RecordDenial(p) ==
    /\ pc[p] = "write"
    /\ verdict[p] = NoStep
    /\ WriteOut(p)
    /\ denials' = denials \cup {stamp[p]}
    /\ Leave(p)
    /\ UNCHANGED <<wall, attempts, released, disturbed>>

\* vault.credential() succeeds.
Release(p) ==
    /\ pc[p] = "release"
    /\ released' = released \cup {[id |-> stamp[p].id, step |-> verdict[p],
                                   code |-> code[p], at |-> stamp[p].at]}
    /\ Leave(p)
    /\ UNCHANGED <<wall, attempts, disk, denials, disturbed>>

\* consent.exe is closed or dies inside unlock().
Crash(p) ==
    /\ pc[p] # "idle"
    /\ disturbed' = (disturbed \/ pc[p] = "write")
    /\ PartWritten(p)
    /\ Leave(p)
    /\ UNCHANGED <<wall, attempts, released, denials>>

Tick ==
    /\ uptime < MaxUptime
    /\ uptime' = uptime + 1
    /\ UNCHANGED <<offset, attempts, disk, local, ghosts>>

\* The wall clock is corrected or set.
AdjustClock ==
    /\ offset' \in Offsets \ {offset}
    /\ UNCHANGED <<uptime, attempts, disk, local, ghosts>>

Prompt(p) ==
    \/ \E c \in Codes \cup {Malformed} : Submit(p, c)
    \/ ReadGuard(p) \/ RefuseLocked(p) \/ FailRead(p)
    \/ Accept(p) \/ Deny(p)
    \/ OpenGuard(p) \/ FailWrite(p) \/ RecordAccept(p) \/ RecordDenial(p)
    \/ Release(p) \/ Crash(p)

Next == Tick \/ AdjustClock \/ \E p \in Prompts : Prompt(p)

Spec == Init /\ [][Next]_vars
-----------------------------------------------------------------------------
(* Properties. *)

\* A later attempt that gets the credential unlocks with a later time step:
\* no step, and no step before it, opens the gate twice, whatever crashes,
\* failed writes and clock corrections come in between (guard.rs:18).
ReleasesIncrease ==
    \A q, r \in released : q.id < r.id => q.step < r.step

\* One time step releases the credential to at most one attempt
\* (the test valid_code_releases_the_credential_once, unlock.rs:73).
ReleasedOnce ==
    \A q, r \in released : q.step = r.step => q.id = r.id

\* Whatever has been released is in the guard that was written out last, and
\* the file is not gone, so that the next prompt cannot read a fresh guard
\* ("recorded in the guard file first", unlock.rs:11-12).
RecordedFirst ==
    \A r \in released : file # "missing" /\ r.step <= guard.last

\* Between two successes no window of LockoutSeconds sees more than
\* MaxFailures denied codes, whichever prompts they were typed into
\* (guard.rs:10-14).
FailureBudget ==
    \A t \in 0 .. uptime :
        Cardinality({ d \in denials : t <= d.born /\ d.born < t + LockoutSeconds })
            <= MaxFailures

\* The guard on disk locks the prompt exactly while MaxFailures codes were
\* denied within the last LockoutSeconds of true time: attempts that were
\* refused for another reason do not count, and none that counts is lost.
LockoutMatchesDenials ==
    AllIdle =>
        (IsLocked(guard, Clock) <=>
            Cardinality({ d \in denials : uptime - d.born < LockoutSeconds })
                >= MaxFailures)

\* A lockout does not outlive its window: while the prompt is locked, one of
\* the failures it is locked for really happened less than LockoutSeconds ago
\* (guard.rs:12-13; "try again in a few minutes", error.rs:13).
LockoutEnds ==
    IsLocked(guard, Clock) =>
        \E f \in guard.failures : uptime - f.born < LockoutSeconds

\* With no call under way guard.json parses, unless a write failed or a
\* process died between the truncation and the text: one call after another
\* never leaves a file behind that denies every later attempt.
TornOnlyByFault == AllIdle /\ file = "torn" => disturbed

\* A code that is valid at the time of the attempt, for a step later than
\* every recorded one, is not answered with a denial ("if it is valid and
\* unused, returns the managed credential", unlock.rs:10-11).
OnlyBadCodesDenied ==
    \A p \in Prompts :
        pc[p] \in {"open", "write"} /\ verdict[p] = NoStep =>
            \A s \in 0 .. StepAt(MaxUptime) + SkewSteps :
                ValidFor(code[p], s, stamp[p].at) => s <= guard.last

\* The credential goes out only for a code that is valid, at the time of its
\* attempt, for the step it is recorded under (totp.rs:29-39).
OnlyValidCodesReleased ==
    \A r \in released : ValidFor(r.code, r.step, r.at)

\* The failure list never outgrows the limit, even when prompts overwrite
\* each other's file (guard.rs:39-43, 49-51).
FailuresBounded ==
    /\ Cardinality(guard.failures) <= MaxFailures
    /\ \A p \in Prompts : Cardinality(mem[p].failures) <= MaxFailures
=============================================================================
