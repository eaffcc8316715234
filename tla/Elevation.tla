----------------------------- MODULE Elevation -----------------------------
(***************************************************************************)
(* Prompts as the user meets them: the tile of Tile around the unlock() of *)
(* Unlock.  A submitted tile calls unlock(), whose return is the tile's    *)
(* next step; everything else either side does alone.                      *)
(***************************************************************************)
EXTENDS Unlock

CONSTANTS
    Blank, Empty,  \* as in Tile
    MaxTypings     \* bound: how often something is typed

ASSUME ElevationAssumption ==
    /\ {Blank, Empty} \cap (Codes \cup {Malformed}) = {} /\ Blank # Empty
    /\ MaxTypings \in Nat

VARIABLES
    alive, field, title, step, plain, buffer, lsa, answer, fresh,  \* the tiles
    ticket,     \* history: ticket[p] is the release prompt p is packing
    delivered,  \* history: the releases that reached Windows
    typings,    \* history: how often something was typed
    overlapped  \* history: two prompts were inside unlock() at once

T == INSTANCE Tile WITH
         Tiles <- Prompts, Texts <- Codes \cup {Malformed}, pc <- step

tiles    == <<alive, field, title, step, plain, buffer, lsa, answer, fresh>>
history  == <<ticket, delivered, typings, overlapped>>
allVars  == <<vars, tiles, history>>

NoTicket == [id |-> 0, step |-> 0, code |-> Malformed, at |-> 0]

ElevationTypeOK ==
    /\ T!TypeOK
    /\ ticket \in [Prompts -> [id : Nat, step : Steps, code : Codes \cup {Malformed}, at : Nat]]
    /\ delivered \subseteq Releases
    /\ typings \in Nat /\ overlapped \in BOOLEAN

ElevationInit ==
    /\ Init
    /\ T!Init
    /\ ticket = [p \in Prompts |-> NoTicket]
    /\ delivered = {} /\ typings = 0 /\ overlapped = FALSE
-----------------------------------------------------------------------------
\* The host makes a tile, selects another one, lets it go, or submits nothing.
TileOnly(p) ==
    /\ T!New(p) \/ T!SetDeselected(p) \/ T!Drop(p) \/ T!SubmitBlank(p)
    /\ UNCHANGED <<vars, history>>

Type(p, text) ==
    /\ typings < MaxTypings
    /\ T!SetStringValue(p, text)
    /\ typings' = typings + 1
    /\ UNCHANGED <<vars, ticket, delivered, overlapped>>

\* Mutant: the attempt gets the time at which the model started.
CallUnlockStale(p) ==
    /\ Overlap \/ \A q \in Prompts : step[q] = "idle"
    /\ T!Submit(p)
    /\ Goto(p, "idle", "read")
    /\ attempts < MaxAttempts
    /\ attempts' = attempts + 1
    /\ code' = [code EXCEPT ![p] = field[p]]
    /\ stamp' = [stamp EXCEPT ![p] = [at |-> 0, id |-> attempts + 1, born |-> uptime]]
    /\ UNCHANGED <<wall, disk, mem, verdict, ghosts, history>>

\* GetSerialization calls unlock(&default_data_dir(), &code, now_unix()).  One
\* desktop does not show a second prompt before the first is through.
CallUnlock(p) ==
    /\ Overlap \/ \A q \in Prompts : step[q] = "idle"
    /\ T!Submit(p)
    /\ Submit(p, field[p])
    /\ overlapped' = (overlapped \/ ~AllIdle)
    /\ UNCHANGED <<ticket, delivered, typings>>

\* What unlock() does on its own.
InsideUnlock(p) ==
    /\ \/ ReadGuard(p) \/ Accept(p) \/ Deny(p) \/ OpenGuard(p) \/ RecordAccept(p)
    /\ UNCHANGED <<tiles, history>>

\* CodeReused if the code belongs to a step, CodeRejected otherwise.
Refusal(p) ==
    IF MatchingStep(code[p], stamp[p].at) = {} THEN "rejected" ELSE "reused"

\* unlock() returns an error.
UnlockErr(p) ==
    /\ \/ RefuseLocked(p) /\ T!UnlockFailed(p, "locked")
       \/ RecordDenial(p) /\ T!UnlockFailed(p, Refusal(p))
       \/ (FailRead(p) \/ FailWrite(p)) /\ T!UnlockFailed(p, "io")
    /\ UNCHANGED history

\* unlock() returns the credential.
UnlockOk(p) ==
    /\ Release(p)
    /\ T!UnlockOk(p)
    /\ ticket' = [ticket EXCEPT ![p] = [id |-> stamp[p].id, step |-> verdict[p],
                                        code |-> code[p], at |-> stamp[p].at]]
    /\ UNCHANGED <<delivered, typings, overlapped>>

\* pack_credential.
Packing(p) ==
    /\ T!PackStep(p)
    /\ delivered' = IF step[p] = "finish" THEN delivered \cup {ticket[p]} ELSE delivered
    /\ UNCHANGED <<vars, ticket, typings, overlapped>>

PackingFails(p) ==
    /\ T!PackFailed(p)
    /\ UNCHANGED <<vars, history>>

\* consent.exe dies, inside unlock() or not.
Death(p) ==
    /\ T!Die(p)
    /\ Crash(p) \/ (pc[p] = "idle" /\ UNCHANGED vars)
    /\ UNCHANGED history

Environment ==
    /\ Tick \/ AdjustClock
    /\ UNCHANGED <<tiles, history>>

\* What a submitted call does next, faults aside.
Goes(p) ==
    \/ InsideUnlock(p) \/ UnlockOk(p) \/ Packing(p)
    \/ (RefuseLocked(p) \/ RecordDenial(p) \/ pc[p] = "read") /\ UnlockErr(p)

ElevationNext ==
    \/ Environment
    \/ \E p \in Prompts :
          \/ TileOnly(p) \/ CallUnlock(p) \/ InsideUnlock(p) \/ UnlockErr(p)
          \/ UnlockOk(p) \/ Packing(p) \/ PackingFails(p) \/ Death(p)
          \/ \E text \in Codes \cup {Malformed, Blank} : Type(p, text)

ElevationSpec == ElevationInit /\ [][ElevationNext]_allVars

FairElevation == ElevationSpec /\ \A p \in Prompts : WF_allVars(Goes(p))
-----------------------------------------------------------------------------
(* Properties. *)

\* To a prompt unlock() is the unlock() of Unlock: whatever holds of Unlock
\* holds of the product (credential.rs:363).
UnlockSpec == Spec

\* As long as no two prompts were inside unlock() at once, no time step reaches
\* Windows as a credential twice, and what reached it is recorded on disk
\* ("recorded in the guard file first", unlock.rs:11-12): deaths, failing files
\* and packings, and other prompts before and after notwithstanding.
DeliveredOnce ==
    ~overlapped =>
        /\ \A d, e \in delivered : d.step = e.step => d.id = e.id
        /\ \A d \in delivered : file # "missing" /\ d.step <= guard.last

\* Nothing but typing spends attempts: there are no more calls of unlock(), and
\* so no more failures, than times somebody typed.
AttemptsAreTyped == attempts <= typings

\* When the tile tells that a code was rejected or used before, the failure is
\* on disk; when it tells anything else, no failure was added ("Every attempt
\* is recorded", docs/security-model.md:40-41, which is wider than the code: an
\* attempt that is locked out is refused before anything is recorded,
\* unlock.rs:16-18).
DenialToldWhenRecorded ==
    [][\A p \in Prompts : step[p] = "unlock" /\ step'[p] = "idle" /\ alive'[p] =>
          (title'[p] \in {"rejected", "reused"} <=> stamp[p] \in guard'.failures)]_allVars

\* A submission always comes to an end: unlock() and the packing return, or the
\* process dies.
SubmissionEnds == \A p \in Prompts : (step[p] # "idle") ~> (step[p] = "idle")

\* A credential that unlock() released reaches Windows, or the user is told that
\* it could not be packed, or the prompt is gone: the used-up code is never lost
\* in silence (credential.rs:366-381).  A title that an earlier submission left
\* does not count while the call runs.
ReleasedIsAccountedFor ==
    \A p \in Prompts :
        (step[p] = "size") ~> (\/ ticket[p] \in delivered
                               \/ step[p] = "idle" /\ title[p] = "pack failed"
                               \/ ~alive[p])
=============================================================================
