---------------------------- MODULE OneTimeGate ----------------------------
(***************************************************************************)
(* What unlock() promises, without files, prompts or codes: a gate that    *)
(* uses up time steps in increasing order, opens at most once for each     *)
(* step it used up, and between two uses refuses at most MaxFailures       *)
(* attempts in any LockoutSeconds (unlock.rs:10-12, guard.rs:10-22).       *)
(***************************************************************************)
EXTENDS Integers

CONSTANTS
    StepSeconds, SkewSteps, LockoutSeconds, MaxFailures,
    Count(_)  \* the number of elements of a finite set

VARIABLES
    now,      \* the time
    asked,    \* number of attempts made
    spent,    \* the newest step used up, -1 for none
    opened,   \* the steps the gate opened for
    refused   \* the attempts refused since a step was last used up

vars == <<now, asked, spent, opened, refused>>

Init ==
    /\ now = 0 /\ asked = 0 /\ spent = -1
    /\ opened = {} /\ refused = {}

Pass ==
    /\ now' = now + 1
    /\ UNCHANGED <<asked, spent, opened, refused>>

Ask ==
    /\ asked' = asked + 1
    /\ UNCHANGED <<now, spent, opened, refused>>

\* A newer step is used up; it lies at most SkewSteps steps ahead.
Use(s) ==
    /\ spent < s
    /\ spent' = s
    /\ refused' = {}
    /\ UNCHANGED <<now, asked, opened>>

\* The step that is used up opens the gate, once.
Open ==
    /\ spent # -1
    /\ spent \notin opened
    /\ opened' = opened \cup {spent}
    /\ UNCHANGED <<now, asked, spent, refused>>

\* Attempt i, made at time t, is refused while the budget lasts.
Refuse(i, t) ==
    /\ Count({ d \in refused : t - d.born < LockoutSeconds }) < MaxFailures
    /\ refused' = refused \cup {[at |-> t, id |-> i, born |-> t]}
    /\ UNCHANGED <<now, asked, spent, opened>>

Next ==
    \/ Pass \/ Ask \/ Open
    \/ \E s \in 0 .. (now \div StepSeconds) + SkewSteps : Use(s)
    \/ \E i \in 1 .. asked, t \in 0 .. now : Refuse(i, t)

Spec == Init /\ [][Next]_vars
=============================================================================
