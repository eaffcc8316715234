-------------------------- MODULE ElevationProofs --------------------------
(***************************************************************************)
(* Theorems about the tile and unlock() together: the product is an        *)
(* unlock() of Unlock, so what UnlockProofs shows carries over, up to the  *)
(* credential that Windows gets.                                           *)
(***************************************************************************)
EXTENDS Elevation, UnlockProofs

-----------------------------------------------------------------------------
(* What a tile knows of its call.                                          *)

Contents == Codes \cup {Malformed, Blank, Empty}

Places == {"idle", "unlock"} \cup T!PackSteps

TileInv ==
    /\ field \in [Prompts -> Contents]
    /\ step \in [Prompts -> Places]
    /\ ticket = [p \in Prompts |-> ticket[p]]

LEMMA TileInit == ElevationInit => TileInv
  BY DEF ElevationInit, T!Init, TileInv, Contents, Places

\* The steps of the tile keep its field and its place.
LEMMA TileKeeps ==
    ASSUME TileInv, NEW p \in Prompts,
           \/ T!New(p) \/ T!SetDeselected(p) \/ T!Drop(p) \/ T!SubmitBlank(p)
           \/ T!Submit(p) \/ T!UnlockOk(p) \/ T!PackStep(p) \/ T!PackFailed(p) \/ T!Die(p)
           \/ \E text \in Codes \cup {Malformed, Blank} : T!SetStringValue(p, text)
           \/ \E error \in T!Errors : T!UnlockFailed(p, error)
    PROVE  field' \in [Prompts -> Contents] /\ step' \in [Prompts -> Places]
<1> USE DEF TileInv, Contents, Places, T!PackSteps
<1>1. CASE T!New(p) \/ T!SetDeselected(p) \/ T!Drop(p) \/ T!SubmitBlank(p)
  BY <1>1 DEF T!New, T!SetDeselected, T!Drop, T!SubmitBlank
<1>2. CASE T!Submit(p)
  BY <1>2 DEF T!Submit
<1>3. CASE T!UnlockOk(p)
  BY <1>3 DEF T!UnlockOk, T!Goto
<1>4. CASE T!PackStep(p)
  BY <1>4 DEF T!PackStep, T!Size, T!Alloc, T!Pack, T!LsaConnect, T!LsaLookup,
              T!Finish, T!Goto
<1>5. CASE T!PackFailed(p) \/ T!Die(p)
  BY <1>5 DEF T!PackFailed, T!Die
<1>6. ASSUME NEW text \in Codes \cup {Malformed, Blank}, T!SetStringValue(p, text)
      PROVE  field' \in [Prompts -> Contents] /\ step' \in [Prompts -> Places]
  BY <1>6 DEF T!SetStringValue
<1>7. ASSUME NEW error \in T!Errors, T!UnlockFailed(p, error)
      PROVE  field' \in [Prompts -> Contents] /\ step' \in [Prompts -> Places]
  BY <1>7 DEF T!UnlockFailed, T!Goto
<1> QED
  BY <1>1, <1>2, <1>3, <1>4, <1>5, <1>6, <1>7

LEMMA TileNext == TileInv /\ [ElevationNext]_allVars => TileInv'
<1> SUFFICES ASSUME TileInv, [ElevationNext]_allVars PROVE TileInv'
  OBVIOUS
<1>1. CASE UNCHANGED allVars
  BY <1>1 DEF allVars, tiles, history, TileInv
<1>2. CASE Environment
  BY <1>2 DEF Environment, tiles, history, TileInv
<1>3. ASSUME NEW p \in Prompts,
             \/ TileOnly(p) \/ CallUnlock(p) \/ InsideUnlock(p) \/ UnlockErr(p)
             \/ UnlockOk(p) \/ Packing(p) \/ PackingFails(p) \/ Death(p)
             \/ \E text \in Codes \cup {Malformed, Blank} : Type(p, text)
      PROVE  TileInv'
  <2>1. ticket' = [q \in Prompts |-> ticket'[q]]
    BY <1>3 DEF TileInv, TileOnly, CallUnlock, InsideUnlock, UnlockErr, UnlockOk,
                Packing, PackingFails, Death, Type, history
  <2>2. CASE InsideUnlock(p)
    BY <2>1, <2>2 DEF InsideUnlock, tiles, TileInv
  <2>3. CASE UnlockErr(p)
    <3>1. \E error \in T!Errors : T!UnlockFailed(p, error)
      BY <2>3 DEF UnlockErr, Refusal, T!Errors, T!Denials
    <3> QED
      BY <2>1, <3>1, TileKeeps DEF TileInv
  <2>4. CASE ~InsideUnlock(p) /\ ~UnlockErr(p)
    <3>1. \/ T!New(p) \/ T!SetDeselected(p) \/ T!Drop(p) \/ T!SubmitBlank(p)
          \/ T!Submit(p) \/ T!UnlockOk(p) \/ T!PackStep(p) \/ T!PackFailed(p) \/ T!Die(p)
          \/ \E text \in Codes \cup {Malformed, Blank} : T!SetStringValue(p, text)
      BY <1>3, <2>4 DEF TileOnly, CallUnlock, UnlockOk, Packing, PackingFails, Death, Type
    <3> QED
      BY <2>1, <3>1, TileKeeps DEF TileInv
  <2> QED
    BY <2>2, <2>3, <2>4
<1> QED
  BY <1>1, <1>2, <1>3 DEF ElevationNext

-----------------------------------------------------------------------------
(* The product implements unlock().                                        *)

LEMMA UnlockStep == TileInv /\ [ElevationNext]_allVars => [Next]_vars
<1> SUFFICES ASSUME TileInv, [ElevationNext]_allVars PROVE [Next]_vars
  OBVIOUS
<1>1. CASE UNCHANGED allVars
  BY <1>1 DEF allVars
<1>2. CASE Environment
  BY <1>2 DEF Environment, Next
<1>3. ASSUME NEW p \in Prompts, TileOnly(p) \/ Packing(p) \/ PackingFails(p)
      PROVE  UNCHANGED vars
  BY <1>3 DEF TileOnly, Packing, PackingFails
<1>4. ASSUME NEW p \in Prompts, CallUnlock(p)
      PROVE  Prompt(p)
  <2>1. field[p] \in Codes \cup {Malformed} /\ Submit(p, field[p])
    BY <1>4 DEF CallUnlock, T!Submit, TileInv, Contents
  <2> QED
    BY <2>1 DEF Prompt
<1>5. ASSUME NEW p \in Prompts, InsideUnlock(p) \/ UnlockErr(p) \/ UnlockOk(p)
      PROVE  Prompt(p)
  BY <1>5 DEF InsideUnlock, UnlockErr, UnlockOk, Prompt
<1>6. ASSUME NEW p \in Prompts, Death(p)
      PROVE  Prompt(p) \/ UNCHANGED vars
  BY <1>6 DEF Death, Prompt
<1>7. ASSUME NEW p \in Prompts, NEW text \in Codes \cup {Malformed, Blank}, Type(p, text)
      PROVE  UNCHANGED vars
  BY <1>7 DEF Type
<1> QED
  BY <1>1, <1>2, <1>3, <1>4, <1>5, <1>6, <1>7 DEF ElevationNext, Next

\* Seen from unlock() a tile is a caller like any other: whatever is typed,
\* whichever call of the packing fails and whenever the process dies, the
\* product runs the unlock() of Unlock (credential.rs:363).
THEOREM ElevationIsUnlock == ElevationSpec => UnlockSpec
<1>1. ElevationInit => Init
  BY DEF ElevationInit
<1> QED
  BY <1>1, TileInit, TileNext, UnlockStep, PTL DEF ElevationSpec, UnlockSpec, Spec

-----------------------------------------------------------------------------
(* What reaches Windows.                                                   *)

\* A call that packs a credential was released it by unlock().
TicketInv == \A p \in Prompts : step[p] \in T!PackSteps => ticket[p] \in released

DeliveryInv == delivered \subseteq released /\ TicketInv

LEMMA ReleasedGrow == ASSUME [Next]_vars PROVE released \subseteq released'
<1>1. CASE UNCHANGED vars
  BY <1>1 DEF vars, ghosts
<1>2. CASE Tick \/ AdjustClock
  BY <1>2 DEF Tick, AdjustClock, ghosts
<1>3. ASSUME NEW p \in Prompts, Prompt(p) PROVE released \subseteq released'
  BY <1>3 DEF Prompt, Submit, ReadGuard, RefuseLocked, FailRead, Accept, Deny,
     OpenGuard, FailWrite, RecordAccept, RecordDenial, Release, Crash, ghosts
<1> QED
  BY <1>1, <1>2, <1>3 DEF Next

LEMMA DeliveryNext ==
    TileInv /\ DeliveryInv /\ [ElevationNext]_allVars => DeliveryInv'
<1> SUFFICES ASSUME TileInv, DeliveryInv, [ElevationNext]_allVars PROVE DeliveryInv'
  OBVIOUS
<1> USE DEF DeliveryInv, TicketInv
<1>0. released \subseteq released'
  BY UnlockStep, ReleasedGrow
<1>1. CASE UNCHANGED allVars
  BY <1>0, <1>1 DEF allVars, tiles, history
<1>2. CASE Environment
  BY <1>0, <1>2 DEF Environment, tiles, history
<1>3. ASSUME NEW p \in Prompts, UnlockOk(p) PROVE DeliveryInv'
  <2>1. ticket'[p] \in released' /\ delivered' = delivered
    BY <1>3 DEF UnlockOk, Release, TileInv
  <2>2. \A q \in Prompts : q # p => ticket'[q] = ticket[q] /\ step'[q] = step[q]
    BY <1>3 DEF UnlockOk, T!UnlockOk, T!Goto, TileInv
  <2> QED
    BY <1>0, <2>1, <2>2
<1>4. ASSUME NEW p \in Prompts, Packing(p) PROVE DeliveryInv'
  <2>1. step[p] \in T!PackSteps /\ UNCHANGED <<released, ticket>>
    BY <1>4 DEF Packing, vars, ghosts, T!PackStep, T!Size, T!Alloc, T!Pack, T!LsaConnect,
                T!LsaLookup, T!Finish, T!Goto, T!PackSteps
  <2>2. \A q \in Prompts : q # p => step'[q] = step[q]
    BY <1>4 DEF Packing, T!PackStep, T!Size, T!Alloc, T!Pack, T!LsaConnect,
                T!LsaLookup, T!Finish, T!Goto, TileInv
  <2>3. delivered' \subseteq released'
    BY <1>4, <2>1 DEF Packing
  <2> QED
    BY <2>1, <2>2, <2>3
<1>5. ASSUME NEW p \in Prompts,
             \/ TileOnly(p) \/ CallUnlock(p) \/ InsideUnlock(p) \/ UnlockErr(p)
             \/ PackingFails(p) \/ Death(p)
             \/ \E text \in Codes \cup {Malformed, Blank} : Type(p, text)
      PROVE  DeliveryInv'
  <2>1. UNCHANGED <<ticket, delivered>>
    BY <1>5 DEF TileOnly, CallUnlock, InsideUnlock, UnlockErr, PackingFails, Death,
                Type, history
  <2>2. \A q \in Prompts : step'[q] \in T!PackSteps => step[q] \in T!PackSteps
    <3>1. CASE TileOnly(p)
      BY <3>1 DEF TileOnly, T!New, T!SetDeselected, T!Drop, T!SubmitBlank
    <3>2. CASE CallUnlock(p)
      BY <3>2 DEF CallUnlock, T!Submit, T!PackSteps, TileInv
    <3>3. CASE InsideUnlock(p)
      BY <3>3 DEF InsideUnlock, tiles
    <3>4. CASE UnlockErr(p)
      <4>1. PICK error : T!UnlockFailed(p, error)
        BY <3>4 DEF UnlockErr
      <4> QED
        BY <4>1 DEF T!UnlockFailed, T!Goto, T!PackSteps, TileInv
    <3>5. CASE PackingFails(p) \/ Death(p)
      <4>1. step' = [step EXCEPT ![p] = "idle"]
        BY <3>5 DEF PackingFails, Death, T!PackFailed, T!Die, T!Goto
      <4> QED
        BY <4>1 DEF T!PackSteps, TileInv
    <3>6. CASE \E text \in Codes \cup {Malformed, Blank} : Type(p, text)
      BY <3>6 DEF Type, T!SetStringValue
    <3> QED
      BY <1>5, <3>1, <3>2, <3>3, <3>4, <3>5, <3>6
  <2> QED
    BY <1>0, <2>1, <2>2
<1> QED
  BY <1>1, <1>2, <1>3, <1>4, <1>5 DEF ElevationNext

\* Calls that no two prompts make at once do not overlap, whatever Overlap says.
SoloInv == ~overlapped => SerialInv

LEMMA SoloNext ==
    ASSUME TileInv, TypeInv, SoloInv, [ElevationNext]_allVars
    PROVE  SoloInv'
<1>1. overlapped => overlapped'
  BY DEF ElevationNext, Environment, TileOnly, CallUnlock, InsideUnlock, UnlockErr,
         UnlockOk, Packing, PackingFails, Death, Type, allVars, history
<1>2. ASSUME ~overlapped' PROVE attempts' # attempts => AllIdle
  <2>1. CASE UNCHANGED allVars \/ Environment
    BY <2>1 DEF allVars, vars, Environment, Tick, AdjustClock
  <2>2. ASSUME NEW p \in Prompts, CallUnlock(p) PROVE AllIdle
    BY <1>2, <2>2 DEF CallUnlock
  <2>3. ASSUME NEW p \in Prompts, InsideUnlock(p) \/ UnlockErr(p) \/ UnlockOk(p)
        PROVE  attempts' = attempts
    BY <2>3 DEF InsideUnlock, UnlockErr, UnlockOk, ReadGuard, RefuseLocked, FailRead,
       Accept, Deny, OpenGuard, FailWrite, RecordAccept, RecordDenial, Release
  <2>4. ASSUME NEW p \in Prompts,
               \/ TileOnly(p) \/ Packing(p) \/ PackingFails(p) \/ Death(p)
               \/ \E text \in Codes \cup {Malformed, Blank} : Type(p, text)
        PROVE  attempts' = attempts
    BY <2>4 DEF TileOnly, Packing, PackingFails, Death, Type, Crash, vars
  <2> QED
    BY <2>1, <2>2, <2>3, <2>4 DEF ElevationNext
<1> QED
  BY <1>1, <1>2, UnlockStep, SerialNext DEF SoloInv

\* As long as no two prompts were inside unlock() at once, no time step brings
\* Windows a credential twice, and what reached Windows is recorded in the guard
\* file (unlock.rs:11-12): through failed reads, writes and packings, deaths and
\* clock changes.
THEOREM DeliveriesOnce == ElevationSpec => []DeliveredOnce
<1> DEFINE Inv == TileInv /\ TypeInv /\ SoloInv /\ DeliveryInv
<1>1. ElevationInit => Inv
  <2>1. ElevationInit => DeliveryInv
    BY DEF ElevationInit, T!Init, DeliveryInv, TicketInv, T!PackSteps
  <2>2. ElevationInit => TypeInv /\ SerialInv
    BY TypeInit, SerialInit DEF ElevationInit
  <2> QED
    BY <2>1, <2>2, TileInit DEF SoloInv
<1>2. Inv /\ [ElevationNext]_allVars => Inv'
  BY TileNext, UnlockStep, TypeNext, SoloNext, DeliveryNext
<1>3. Inv => DeliveredOnce
  <2> SUFFICES ASSUME TypeInv, SerialInv, delivered \subseteq released
               PROVE  DeliveredOnce
    BY DEF SoloInv, DeliveryInv, DeliveredOnce
  <2>1. \A r \in released : r.id \in Nat /\ r.step \in Nat
    BY DEF TypeInv, TypeOK, Releases, Steps
  <2>2. ASSUME NEW d \in released, NEW e \in released, d.step = e.step
        PROVE  d.id = e.id
    <3>1. ~(d.id < e.id) /\ ~(e.id < d.id)
      BY <2>1, <2>2 DEF SerialInv, ReleasesIncrease
    <3> QED
      BY <2>1, <3>1
  <2>3. \A r \in released : file # "missing" /\ r.step <= guard.last
    BY DEF SerialInv, RecordedFirst
  <2> QED
    BY <2>2, <2>3 DEF DeliveredOnce
<1>4. ElevationSpec => []Inv
  BY <1>1, <1>2, PTL DEF ElevationSpec
<1> QED
  BY <1>3, <1>4, PTL

-----------------------------------------------------------------------------
(* The product is a set of tiles.                                          *)

TP == INSTANCE TileProofs WITH
          Tiles <- Prompts, Texts <- Codes \cup {Malformed}, pc <- step

LEMMA TileConstants == TP!TileAssumption
  BY ElevationAssumption DEF TP!TileAssumption

\* Whatever a prompt does is a step of its tile, or none.
LEMMA TileStep == [ElevationNext]_allVars => [T!Next]_tiles
<1> SUFFICES ASSUME [ElevationNext]_allVars PROVE [T!Next]_tiles
  OBVIOUS
<1>1. CASE UNCHANGED allVars \/ Environment
  BY <1>1 DEF allVars, Environment
<1>2. ASSUME NEW p \in Prompts,
             \/ TileOnly(p) \/ CallUnlock(p) \/ UnlockOk(p)
             \/ Packing(p) \/ PackingFails(p) \/ Death(p)
      PROVE  T!Next
  BY <1>2 DEF TileOnly, CallUnlock, UnlockOk, Packing, PackingFails, Death, T!Next, T!Host
<1>3. ASSUME NEW p \in Prompts, UnlockErr(p)
      PROVE  T!Next
  <2>1. \E error \in T!Errors : T!UnlockFailed(p, error)
    BY <1>3 DEF UnlockErr, Refusal, T!Errors, T!Denials
  <2> QED
    BY <2>1 DEF T!Next
<1>4. ASSUME NEW p \in Prompts, InsideUnlock(p)
      PROVE  UNCHANGED tiles
  BY <1>4 DEF InsideUnlock
<1>5. ASSUME NEW p \in Prompts, NEW text \in Codes \cup {Malformed, Blank}, Type(p, text)
      PROVE  T!Next
  BY <1>5 DEF Type, T!Next, T!Host
<1> QED
  BY <1>1, <1>2, <1>3, <1>4, <1>5 DEF ElevationNext

\* Seen from the tile, unlock() is the outside that answers as it likes: what is
\* shown of Tile holds of every prompt of the product (credential.rs:335-382).
THEOREM ElevationIsTile == ElevationSpec => T!Spec
<1>1. ElevationInit => T!Init
  BY DEF ElevationInit
<1>2. [ElevationNext]_allVars => [T!Next]_(T!vars)
  BY TileStep DEF T!vars, tiles
<1> QED
  BY <1>1, <1>2, PTL DEF ElevationSpec, T!Spec

\* TileProofs brings a copy of Tile of its own; it is the same one.
LEMMA SameTiles ==
    /\ T!Init <=> TP!Init
    /\ [T!Next]_(T!vars) <=> [TP!Next]_(TP!vars)
    /\ T!TypeOK <=> TP!TypeOK
  BY DEF T!Init, T!vars, T!Next, T!Host, T!New, T!SetDeselected, T!Drop, T!SetStringValue,
         T!SubmitBlank, T!Submit, T!UnlockOk, T!UnlockFailed, T!PackStep, T!Size, T!Alloc, T!Pack,
         T!LsaConnect, T!LsaLookup, T!Finish, T!PackFailed, T!WipesAndFrees, T!Explain, T!Die,
         T!Ready, T!Goto, T!PackSteps, T!Denials, T!Errors, T!Messages, T!Answers, T!NoAnswer,
         T!TypeOK,
         TP!Init, TP!vars, TP!Next, TP!Host, TP!New, TP!SetDeselected, TP!Drop, TP!SetStringValue,
         TP!SubmitBlank, TP!Submit, TP!UnlockOk, TP!UnlockFailed, TP!PackStep, TP!Size, TP!Alloc,
         TP!Pack, TP!LsaConnect, TP!LsaLookup, TP!Finish, TP!PackFailed, TP!WipesAndFrees,
         TP!Explain, TP!Die, TP!Ready, TP!Goto, TP!PackSteps, TP!Denials, TP!Errors, TP!Messages,
         TP!Answers, TP!NoAnswer, TP!TypeOK

LEMMA TilesAlways == ElevationSpec => []TP!IInv
<1>1. ElevationInit => TP!IInv
  BY SameTiles, TileConstants, TP!IInvInit DEF ElevationInit
<1>2. TP!IInv /\ [ElevationNext]_allVars => TP!IInv'
  <2>1. [ElevationNext]_allVars => [T!Next]_(T!vars)
    BY TileStep DEF T!vars, tiles
  <2> QED
    BY <2>1, SameTiles, TileConstants, TP!IInvNext
<1> QED
  BY <1>1, <1>2, PTL DEF ElevationSpec

-----------------------------------------------------------------------------
(* Types.                                                                  *)

HistoryInv ==
    /\ ticket \in [Prompts -> [id : Nat, step : Steps, code : Codes \cup {Malformed}, at : Nat]]
    /\ typings \in Nat /\ overlapped \in BOOLEAN

LEMMA HistoryNext ==
    TypeInv /\ HistoryInv /\ [ElevationNext]_allVars => HistoryInv'
<1> SUFFICES ASSUME TypeInv, HistoryInv, [ElevationNext]_allVars PROVE HistoryInv'
  OBVIOUS
<1> USE DEF HistoryInv
<1>1. CASE UNCHANGED allVars \/ Environment
  BY <1>1 DEF allVars, Environment, history
<1>2. ASSUME NEW p \in Prompts, UnlockOk(p) PROVE HistoryInv'
  <2>1. /\ stamp[p].id \in Nat /\ stamp[p].at \in Nat /\ code[p] \in Codes \cup {Malformed}
        /\ verdict[p] \in Steps
    BY <1>2 DEF UnlockOk, Release, TypeInv, TypeOK, VerdictInv, Failures
  <2> QED
    BY <1>2, <2>1 DEF UnlockOk
<1>3. ASSUME NEW p \in Prompts,
             \/ TileOnly(p) \/ CallUnlock(p) \/ InsideUnlock(p) \/ UnlockErr(p)
             \/ Packing(p) \/ PackingFails(p) \/ Death(p)
             \/ \E text \in Codes \cup {Malformed, Blank} : Type(p, text)
      PROVE  HistoryInv'
  <2>1. /\ UNCHANGED ticket
        /\ typings' = typings \/ typings' = typings + 1
    BY <1>3 DEF TileOnly, CallUnlock, InsideUnlock, UnlockErr, Packing, PackingFails, Death,
                Type, history
  <2>2. overlapped' = overlapped \/ overlapped' = (overlapped \/ ~AllIdle)
    BY <1>3 DEF TileOnly, CallUnlock, InsideUnlock, UnlockErr, Packing, PackingFails, Death,
                Type, history
  <2>3. overlapped' \in BOOLEAN
    BY <2>2, Zenon
  <2> QED
    BY <2>1, <2>3
<1> QED
  BY <1>1, <1>2, <1>3 DEF ElevationNext

LEMMA HistoryInit == ElevationInit => HistoryInv
<1> SUFFICES ASSUME ElevationInit PROVE HistoryInv
  OBVIOUS
<1>1. NoTicket \in [id : Nat, step : Steps, code : Codes \cup {Malformed}, at : Nat]
  BY DEF NoTicket, Steps
<1>2. ticket = [p \in Prompts |-> NoTicket] /\ typings = 0 /\ overlapped = FALSE
  BY DEF ElevationInit
<1> QED
  BY <1>1, <1>2 DEF HistoryInv

\* The product keeps its types; what reaches Windows is always a release.
THEOREM ElevationTypes == ElevationSpec => []ElevationTypeOK
<1>1. ElevationInit => HistoryInv /\ TypeInv /\ TileInv /\ DeliveryInv
  <2>1. ElevationInit => DeliveryInv
    BY DEF ElevationInit, T!Init, DeliveryInv, TicketInv, T!PackSteps
  <2> QED
    BY <2>1, HistoryInit, TypeInit, TileInit DEF ElevationInit
<1>2. HistoryInv /\ TypeInv /\ TileInv /\ DeliveryInv /\ [ElevationNext]_allVars
        => (HistoryInv /\ TypeInv /\ TileInv /\ DeliveryInv)'
  BY HistoryNext, TileNext, UnlockStep, TypeNext, DeliveryNext
<1>3. TP!IInv /\ HistoryInv /\ TypeInv /\ DeliveryInv => ElevationTypeOK
  BY SameTiles DEF TP!IInv, HistoryInv, DeliveryInv, TypeInv, TypeOK, ElevationTypeOK
<1> QED
  BY <1>1, <1>2, <1>3, TilesAlways, PTL DEF ElevationSpec

-----------------------------------------------------------------------------
(* Attempts and typing.                                                    *)
(*                                                                         *)
(* A text that has been typed and not been submitted is worth one attempt, *)
(* and no tile has more than one.                                          *)

Typed == { p \in Prompts : fresh[p] }

TypedInv ==
    /\ IsFiniteSet(Typed)
    /\ attempts + Cardinality(Typed) <= typings

\* A step of p adds no tile but p to those with an unsubmitted text.
LEMMA TypedGrows ==
    ASSUME IsFiniteSet(Typed), NEW p \in Prompts,
           \A q \in Prompts \ {p} : fresh'[q] => fresh[q]
    PROVE  /\ IsFiniteSet(Typed') /\ Cardinality(Typed') \in Nat /\ Cardinality(Typed) \in Nat
           /\ Cardinality(Typed') <= Cardinality(Typed) + 1
           /\ (fresh'[p] => fresh[p]) => Cardinality(Typed') <= Cardinality(Typed)
           /\ fresh[p] /\ ~fresh'[p] => Cardinality(Typed') + 1 <= Cardinality(Typed)
<1>1. Cardinality(Typed) \in Nat
  BY FS_CardinalityType
<1>2. /\ IsFiniteSet(Typed \cup {p}) /\ Cardinality(Typed \cup {p}) \in Nat
      /\ Cardinality(Typed \cup {p}) <= Cardinality(Typed) + 1
  <2>1. /\ IsFiniteSet(Typed \cup {p})
        /\ \/ Cardinality(Typed \cup {p}) = Cardinality(Typed)
           \/ Cardinality(Typed \cup {p}) = Cardinality(Typed) + 1
    BY FS_AddElement
  <2> QED
    BY <1>1, <2>1
<1>3. Typed' \subseteq Typed \cup {p}
  BY DEF Typed
<1>4. IsFiniteSet(Typed') /\ Cardinality(Typed') <= Cardinality(Typed \cup {p})
  BY <1>2, <1>3, FS_Subset
<1>5. Cardinality(Typed') \in Nat
  BY <1>4, FS_CardinalityType
<1>6. ASSUME fresh'[p] => fresh[p]
      PROVE  Cardinality(Typed') <= Cardinality(Typed)
  <2>1. Typed' \subseteq Typed
    BY <1>6 DEF Typed
  <2> QED
    BY <2>1, FS_Subset
<1>7. ASSUME fresh[p], ~fresh'[p]
      PROVE  Cardinality(Typed') + 1 <= Cardinality(Typed)
  <2>1. IsFiniteSet(Typed \ {p}) /\ Cardinality(Typed \ {p}) = Cardinality(Typed) - 1
    BY <1>7, FS_RemoveElement DEF Typed
  <2>2. Typed' \subseteq Typed \ {p}
    BY <1>7 DEF Typed
  <2>3. Cardinality(Typed') <= Cardinality(Typed \ {p})
    BY <2>1, <2>2, FS_Subset
  <2> QED
    BY <1>1, <1>5, <2>1, <2>3
<1> QED
  BY <1>1, <1>2, <1>4, <1>5, <1>6, <1>7

LEMMA TypedNext ==
    ASSUME TypeInv, HistoryInv, TP!IInv, TypedInv, [ElevationNext]_allVars
    PROVE  TypedInv'
<1>0. /\ attempts \in Nat /\ typings \in Nat /\ fresh \in [Prompts -> BOOLEAN]
      /\ IsFiniteSet(Typed) /\ Cardinality(Typed) \in Nat
      /\ attempts + Cardinality(Typed) <= typings
  BY FS_CardinalityType DEF TypeInv, TypeOK, HistoryInv, TP!IInv, TP!TypeOK, TypedInv
<1>1. CASE UNCHANGED <<attempts, typings, fresh>>
  BY <1>0, <1>1 DEF TypedInv, Typed
<1>2. ASSUME NEW p \in Prompts, CallUnlock(p) PROVE TypedInv'
  <2>1. /\ attempts' = attempts + 1 /\ typings' = typings
        /\ fresh' = [fresh EXCEPT ![p] = FALSE]
    BY <1>2 DEF CallUnlock, Submit, T!Submit
  <2>2. fresh[p]
    <3>1. step[p] = "idle" /\ field[p] \notin {Blank, Empty}
      BY <1>2 DEF CallUnlock, T!Submit, T!Ready
    <3>2. TP!FreshInv(p) /\ field[p] \in Codes \cup {Malformed}
      BY <3>1 DEF TP!IInv, TP!TileInv, TP!TypeOK
    <3> QED
      BY <3>1, <3>2 DEF TP!FreshInv
  <2>3. IsFiniteSet(Typed') /\ Cardinality(Typed') \in Nat
        /\ Cardinality(Typed') + 1 <= Cardinality(Typed)
    BY <1>0, <2>1, <2>2, TypedGrows
  <2> QED
    BY <1>0, <2>1, <2>3 DEF TypedInv
<1>3. ASSUME NEW p \in Prompts, NEW text \in Codes \cup {Malformed, Blank}, Type(p, text)
      PROVE  TypedInv'
  <2>1. /\ attempts' = attempts /\ typings' = typings + 1
        /\ fresh' = [fresh EXCEPT ![p] = TRUE]
    BY <1>3 DEF Type, T!SetStringValue, vars
  <2>2. IsFiniteSet(Typed') /\ Cardinality(Typed') \in Nat
        /\ Cardinality(Typed') <= Cardinality(Typed) + 1
    BY <1>0, <2>1, TypedGrows
  <2> QED
    BY <1>0, <2>1, <2>2 DEF TypedInv
<1>4. ASSUME NEW p \in Prompts,
             \/ TileOnly(p) \/ InsideUnlock(p) \/ UnlockErr(p) \/ UnlockOk(p)
             \/ Packing(p) \/ PackingFails(p) \/ Death(p)
      PROVE  TypedInv'
  <2>1. attempts' = attempts /\ typings' = typings
    BY <1>4 DEF TileOnly, InsideUnlock, UnlockErr, UnlockOk, Packing, PackingFails, Death,
       history, vars, ReadGuard, RefuseLocked, FailRead, Accept, Deny, OpenGuard, FailWrite,
       RecordAccept, RecordDenial, Release, Crash
  <2>2. \/ UNCHANGED fresh \/ fresh' = [fresh EXCEPT ![p] = FALSE]
    <3>1. CASE TileOnly(p)
      BY <3>1 DEF TileOnly, T!New, T!SetDeselected, T!Drop, T!SubmitBlank
    <3>2. CASE InsideUnlock(p) \/ UnlockErr(p) \/ UnlockOk(p)
      BY <3>2 DEF InsideUnlock, tiles, UnlockErr, UnlockOk, T!UnlockFailed, T!UnlockOk
    <3>3. CASE Packing(p) \/ PackingFails(p) \/ Death(p)
      BY <3>3 DEF Packing, PackingFails, Death, T!PackStep, T!Size, T!Alloc, T!Pack,
         T!LsaConnect, T!LsaLookup, T!Finish, T!PackFailed, T!Die
    <3> QED
      BY <1>4, <3>1, <3>2, <3>3
  <2>3. IsFiniteSet(Typed') /\ Cardinality(Typed') \in Nat
        /\ Cardinality(Typed') <= Cardinality(Typed)
    BY <1>0, <2>2, TypedGrows
  <2> QED
    BY <1>0, <2>1, <2>3 DEF TypedInv
<1>5. UNCHANGED allVars \/ Environment => UNCHANGED <<attempts, typings, fresh>>
  BY DEF allVars, vars, tiles, history, Environment, Tick, AdjustClock
<1> QED
  BY <1>1, <1>2, <1>3, <1>4, <1>5 DEF ElevationNext

\* unlock() is called no more often than somebody typed: no prompt, however often
\* Windows asks it again, spends attempts by itself (credential.rs:195-198, 363).
THEOREM OnlyTypingCounts == ElevationSpec => []AttemptsAreTyped
<1>1. ElevationInit => TypeInv /\ HistoryInv /\ TypedInv
  <2> SUFFICES ASSUME ElevationInit PROVE TypeInv /\ HistoryInv /\ TypedInv
    OBVIOUS
  <2>1. TypeInv
    BY TypeInit DEF ElevationInit
  <2>2. HistoryInv
    BY HistoryInit
  <2>3. Typed = {} /\ attempts = 0 /\ typings = 0
    BY DEF ElevationInit, Init, T!Init, Typed
  <2> QED
    BY <2>1, <2>2, <2>3, FS_EmptySet DEF TypedInv
<1>2. TypeInv /\ HistoryInv /\ TP!IInv /\ TypedInv /\ TileInv /\ [ElevationNext]_allVars
        => (TypeInv /\ HistoryInv /\ TypedInv)'
  BY HistoryNext, UnlockStep, TypeNext, TypedNext
<1>3. ElevationInit => TileInv
  BY TileInit
<1>4. TileInv /\ [ElevationNext]_allVars => TileInv'
  BY TileNext
<1>5. TypeInv /\ HistoryInv /\ TypedInv => AttemptsAreTyped
  BY FS_CardinalityType DEF TypeInv, TypeOK, HistoryInv, TypedInv, AttemptsAreTyped
<1> QED
  BY <1>1, <1>2, <1>3, <1>4, <1>5, TilesAlways, PTL DEF ElevationSpec

-----------------------------------------------------------------------------
(* What the tile tells and what the guard file holds.                      *)

\* The number of p's attempt is its own: no failure in the file, or in the copy
\* of another call, has it.
OwnNumber(p) ==
    /\ stamp[p].id <= attempts
    /\ \A f \in guard.failures : f.id # stamp[p].id
    /\ \A q \in Prompts \ {p} :
          /\ \A f \in mem[q].failures : f.id # stamp[p].id
          /\ pc[q] # "idle" => stamp[q].id # stamp[p].id

NumberInv ==
    /\ \A f \in guard.failures : f.id <= attempts
    /\ \A p \in Prompts : \A f \in mem[p].failures : f.id <= attempts
    /\ \A p \in Prompts : pc[p] # "idle" => OwnNumber(p)

\* What a call is about to record: a failure of its own, or that all failures are
\* forgotten.
EntryInv ==
    \A p \in Prompts :
        /\ verdict[p] # NoStep => mem[p].failures = {}
        /\ pc[p] \in {"open", "write"} /\ verdict[p] = NoStep => stamp[p] \in mem[p].failures

LEMMA EntryNext ==
    ASSUME TypeInv, EntryInv, [Next]_vars
    PROVE  EntryInv'
<1>0. /\ pc \in [Prompts -> {"idle", "read", "vault", "open", "write", "release"}]
      /\ stamp \in [Prompts -> Failures] /\ mem \in [Prompts -> Guards]
      /\ verdict \in [Prompts -> Steps \cup {NoStep}]
  BY DEF TypeInv, TypeOK
<1>1. CASE UNCHANGED vars \/ Tick \/ AdjustClock
  BY <1>1 DEF vars, Tick, AdjustClock, local, EntryInv
<1>2. ASSUME NEW p \in Prompts, Prompt(p) PROVE EntryInv'
  <2>1. CASE \E c \in Codes \cup {Malformed} : Submit(p, c)
    <3>1. /\ pc'[p] = "read" /\ UNCHANGED <<mem, verdict>>
          /\ \A q \in Prompts : q # p => pc'[q] = pc[q] /\ stamp'[q] = stamp[q]
      BY <1>0, <2>1 DEF Submit, Goto
    <3> QED
      BY <3>1 DEF EntryInv
  <2>2. CASE ReadGuard(p)
    <3>1. /\ pc[p] = "read" /\ pc'[p] = "vault" /\ UNCHANGED <<stamp, verdict>>
          /\ \A q \in Prompts : q # p => pc'[q] = pc[q] /\ mem'[q] = mem[q]
      BY <1>0, <2>2 DEF ReadGuard, Goto
    <3>2. verdict[p] = NoStep
      BY <3>1 DEF TypeInv, VerdictInv
    <3> QED
      BY <3>1, <3>2 DEF EntryInv
  <2>3. CASE Accept(p)
    <3>1. PICK s \in MatchingStep(code[p], stamp[p].at) :
              /\ mem' = [mem EXCEPT ![p] = RecordSuccess(mem[p], s)]
              /\ verdict' = [verdict EXCEPT ![p] = s]
      BY <2>3 DEF Accept
    <3>2. s \in Steps /\ s # NoStep
      BY <1>0, <3>1, MatchingStepType DEF Failures, Steps, NoStep
    <3>3. RecordSuccess(mem[p], s).failures = {}
      BY DEF RecordSuccess
    <3>4. /\ verdict'[p] # NoStep /\ mem'[p].failures = {} /\ UNCHANGED stamp
          /\ \A q \in Prompts : q # p => /\ pc'[q] = pc[q] /\ mem'[q] = mem[q]
                                         /\ verdict'[q] = verdict[q]
      BY <1>0, <2>3, <3>1, <3>2, <3>3 DEF Accept, Goto
    <3> QED
      BY <3>4 DEF EntryInv
  <2>4. CASE Deny(p)
    <3>1. /\ pc[p] = "vault" /\ mem' = [mem EXCEPT ![p] = RecordFailure(mem[p], stamp[p])]
          /\ UNCHANGED <<stamp, verdict>> /\ \A q \in Prompts : q # p => pc'[q] = pc[q]
      BY <1>0, <2>4 DEF Deny, Goto
    <3>2. verdict[p] = NoStep
      BY <3>1 DEF TypeInv, VerdictInv
    <3>3. RecordFailure(mem[p], stamp[p]).failures = mem[p].failures \cup {stamp[p]}
      BY RecordFailureFacts DEF TypeInv, TypeOK, FiniteInv
    <3>4. stamp[p] \in mem'[p].failures /\ \A q \in Prompts : q # p => mem'[q] = mem[q]
      BY <1>0, <3>1, <3>3
    <3> QED
      BY <3>1, <3>2, <3>4 DEF EntryInv
  <2>5. CASE OpenGuard(p) \/ RecordAccept(p)
    <3>1. /\ UNCHANGED <<stamp, mem, verdict>>
          /\ \A q \in Prompts : pc'[q] \in {"open", "write"} => pc[q] \in {"open", "write"}
      BY <1>0, <2>5 DEF OpenGuard, RecordAccept, Goto
    <3> QED
      BY <3>1 DEF EntryInv
  <2>6. ASSUME Leave(p) PROVE EntryInv'
    <3>1. pc'[p] = "idle" /\ verdict'[p] = NoStep
          /\ \A q \in Prompts : q # p => /\ pc'[q] = pc[q] /\ mem'[q] = mem[q]
                                         /\ stamp'[q] = stamp[q] /\ verdict'[q] = verdict[q]
      BY <1>0, <2>6 DEF Leave
    <3> QED
      BY <3>1 DEF EntryInv
  <2> QED
    BY <1>2, <2>1, <2>2, <2>3, <2>4, <2>5, <2>6
       DEF Prompt, RefuseLocked, FailRead, FailWrite, RecordDenial, Release, Crash
<1> QED
  BY <1>1, <1>2 DEF Next

\* A step that makes no attempt keeps the numbers apart when no guard gets an
\* entry that is new to it and has somebody else's number.
LEMMA NumberKept ==
    ASSUME NumberInv, NEW p \in Prompts, UNCHANGED attempts,
           \A q \in Prompts : pc'[q] # "idle" => pc[q] # "idle" /\ stamp'[q] = stamp[q],
           \A q \in Prompts : q # p => mem'[q] = mem[q],
           \A f \in guard'.failures : \/ f \in guard.failures
                                      \/ f \in mem[p].failures /\ pc'[p] = "idle",
           \A f \in mem'[p].failures : \/ f \in guard.failures \/ f \in mem[p].failures
                                       \/ f = stamp[p] /\ pc[p] # "idle"
    PROVE  NumberInv'
<1>1. pc[p] # "idle" => OwnNumber(p)
  BY DEF NumberInv
<1>2. \A f \in guard'.failures : f.id <= attempts'
  BY DEF NumberInv
<1>3. \A f \in mem'[p].failures : f.id <= attempts'
  BY <1>1 DEF NumberInv, OwnNumber
<1>4. \A q \in Prompts : \A f \in mem'[q].failures : f.id <= attempts'
  BY <1>3 DEF NumberInv
<1>5. ASSUME NEW q \in Prompts, pc'[q] # "idle" PROVE OwnNumber(q)'
  <2>1. OwnNumber(q) /\ stamp'[q] = stamp[q]
    BY <1>5 DEF NumberInv
  <2>2. \A f \in guard'.failures : f.id # stamp[q].id
    BY <1>5, <2>1 DEF OwnNumber
  <2>3. q # p => \A f \in mem'[p].failures : f.id # stamp[q].id
    BY <1>5, <2>1 DEF OwnNumber
  <2>4. \A r \in Prompts \ {q} : /\ \A f \in mem'[r].failures : f.id # stamp[q].id
                                 /\ pc'[r] # "idle" => stamp'[r].id # stamp[q].id
    BY <2>1, <2>3 DEF OwnNumber
  <2> QED
    BY <2>1, <2>2, <2>4 DEF OwnNumber
<1> QED
  BY <1>2, <1>4, <1>5 DEF NumberInv

LEMMA NumberNext ==
    ASSUME TypeInv, EntryInv, NumberInv, [Next]_vars
    PROVE  NumberInv'
<1>0. /\ pc \in [Prompts -> {"idle", "read", "vault", "open", "write", "release"}]
      /\ stamp \in [Prompts -> Failures] /\ mem \in [Prompts -> Guards]
      /\ attempts \in Nat /\ guard \in Guards
  BY DEF TypeInv, TypeOK
<1>1. CASE UNCHANGED vars \/ Tick \/ AdjustClock
  BY <1>1 DEF vars, Tick, AdjustClock, disk, local, NumberInv, OwnNumber
<1>2. ASSUME NEW p \in Prompts, Prompt(p) PROVE NumberInv'
  <2>1. ASSUME NEW c \in Codes \cup {Malformed}, Submit(p, c) PROVE NumberInv'
    <3>1. /\ attempts' = attempts + 1 /\ UNCHANGED <<guard, mem>>
          /\ pc' = [pc EXCEPT ![p] = "read"]
          /\ stamp' = [stamp EXCEPT ![p] = [at |-> Clock, id |-> attempts + 1, born |-> uptime]]
      BY <2>1 DEF Submit, Goto, disk
    <3>2. /\ stamp'[p].id = attempts + 1
          /\ \A q \in Prompts : q # p => stamp'[q] = stamp[q] /\ pc'[q] = pc[q]
      BY <1>0, <3>1
    <3>3. /\ \A f \in guard.failures : f.id \in Nat /\ f.id <= attempts
          /\ \A q \in Prompts : \A f \in mem[q].failures : f.id \in Nat /\ f.id <= attempts
          /\ \A q \in Prompts : stamp[q].id \in Nat /\ (pc[q] # "idle" => stamp[q].id <= attempts)
      BY <1>0 DEF NumberInv, OwnNumber, Guards, Failures
    <3>4. OwnNumber(p)'
      BY <1>0, <3>1, <3>2, <3>3 DEF OwnNumber
    <3>5. ASSUME NEW q \in Prompts, q # p, pc[q] # "idle" PROVE OwnNumber(q)'
      <4>1. OwnNumber(q)
        BY <3>5 DEF NumberInv
      <4>2. stamp'[q].id = stamp[q].id /\ stamp[q].id <= attempts /\ stamp[q].id # attempts + 1
        BY <1>0, <3>2, <3>3, <3>5
      <4> QED
        BY <1>0, <3>1, <3>2, <3>3, <4>1, <4>2 DEF OwnNumber
    <3> QED
      BY <1>0, <3>1, <3>2, <3>3, <3>4, <3>5 DEF NumberInv
  <2>2. CASE ReadGuard(p)
    <3>1. PICK g \in Loaded : mem' = [mem EXCEPT ![p] = Pruned(g, stamp[p].at)]
      BY <2>2 DEF ReadGuard
    <3>2. Pruned(g, stamp[p].at).failures \subseteq g.failures
      <4>1. FiniteGuard(g) /\ stamp[p].at \in Nat
        BY <1>0, LoadedType DEF Failures
      <4> QED
        BY <4>1, PrunedFacts
    <3>3. g.failures \subseteq guard.failures
      BY <3>1 DEF Loaded, FreshGuard, TypeInv, TypeOK
    <3>4. /\ pc[p] = "read" /\ UNCHANGED <<attempts, guard, stamp>>
          /\ \A q \in Prompts : q # p => pc'[q] = pc[q] /\ mem'[q] = mem[q]
          /\ mem'[p] = Pruned(g, stamp[p].at)
      BY <1>0, <2>2, <3>1 DEF ReadGuard, Goto, disk
    <3> QED
      BY <3>2, <3>3, <3>4, NumberKept
  <2>3. CASE Accept(p)
    <3>1. PICK s : mem' = [mem EXCEPT ![p] = RecordSuccess(mem[p], s)]
      BY <2>3 DEF Accept
    <3>2. RecordSuccess(mem[p], s).failures = {}
      BY DEF RecordSuccess
    <3>3. /\ pc[p] = "vault" /\ UNCHANGED <<attempts, guard, stamp>>
          /\ \A q \in Prompts : q # p => pc'[q] = pc[q] /\ mem'[q] = mem[q]
          /\ mem'[p].failures = {}
      BY <1>0, <2>3, <3>1, <3>2 DEF Accept, Goto, disk
    <3> QED
      BY <3>3, NumberKept
  <2>4. CASE Deny(p)
    <3>1. RecordFailure(mem[p], stamp[p]).failures = mem[p].failures \cup {stamp[p]}
      BY RecordFailureFacts DEF TypeInv, TypeOK, FiniteInv
    <3>2. /\ pc[p] = "vault" /\ UNCHANGED <<attempts, guard, stamp>>
          /\ \A q \in Prompts : q # p => pc'[q] = pc[q] /\ mem'[q] = mem[q]
          /\ mem'[p].failures = mem[p].failures \cup {stamp[p]}
      BY <1>0, <2>4, <3>1 DEF Deny, Goto, disk
    <3> QED
      BY <3>2, NumberKept
  <2>5. CASE OpenGuard(p)
    <3>1. /\ pc[p] = "open" /\ UNCHANGED <<attempts, guard, stamp, mem>>
          /\ \A q \in Prompts : q # p => pc'[q] = pc[q]
      BY <1>0, <2>5 DEF OpenGuard, Goto
    <3> QED
      BY <3>1, NumberKept
  <2>6. CASE RecordAccept(p)
    <3>1. /\ pc[p] = "write" /\ verdict[p] # NoStep /\ guard' = mem[p]
          /\ UNCHANGED <<attempts, stamp, mem>>
          /\ \A q \in Prompts : q # p => pc'[q] = pc[q]
      BY <1>0, <2>6 DEF RecordAccept, WriteOut, Goto
    <3>2. guard'.failures = {}
      BY <3>1 DEF EntryInv
    <3> QED
      BY <3>1, <3>2, NumberKept
  <2>7. ASSUME Leave(p), UNCHANGED attempts, guard' \in {guard, mem[p]} PROVE NumberInv'
    <3>1. /\ pc'[p] = "idle" /\ mem'[p] = FreshGuard
          /\ \A q \in Prompts : q # p => /\ pc'[q] = pc[q] /\ mem'[q] = mem[q]
                                         /\ stamp'[q] = stamp[q]
      BY <1>0, <2>7 DEF Leave
    <3>2. mem'[p].failures = {}
      BY <3>1 DEF FreshGuard
    <3> QED
      BY <2>7, <3>1, <3>2, NumberKept
  <2>8. CASE RefuseLocked(p) \/ FailRead(p) \/ FailWrite(p) \/ Release(p) \/ Crash(p)
    BY <2>7, <2>8 DEF RefuseLocked, FailRead, FailWrite, PartWritten, Release, Crash, disk
  <2>9. CASE RecordDenial(p)
    BY <2>7, <2>9 DEF RecordDenial, WriteOut
  <2> QED
    BY <1>2, <2>1, <2>2, <2>3, <2>4, <2>5, <2>6, <2>8, <2>9 DEF Prompt
<1> QED
  BY <1>1, <1>2 DEF Next

LEMMA NumberInit == ElevationInit => EntryInv /\ NumberInv
<1> SUFFICES ASSUME ElevationInit PROVE EntryInv /\ NumberInv
  OBVIOUS
<1>1. /\ guard.failures = {}
      /\ \A p \in Prompts : /\ mem[p].failures = {} /\ pc[p] = "idle" /\ verdict[p] = NoStep
  BY DEF ElevationInit, Init, FreshGuard
<1> QED
  BY <1>1 DEF EntryInv, NumberInv

\* What an error of unlock() leaves in the title and in the guard file.
LEMMA ErrorTold ==
    ASSUME TypeInv, EntryInv, NumberInv, TP!IInv, NEW p \in Prompts, UnlockErr(p)
    PROVE  title'[p] \in {"rejected", "reused"} <=> stamp[p] \in guard'.failures
<1>0. title \in [Prompts -> T!Messages \cup {"none"}]
  BY SameTiles DEF TP!IInv, T!TypeOK
<1>1. ASSUME NEW error \in T!Errors, T!UnlockFailed(p, error)
      PROVE  title'[p] = IF error \in T!Denials THEN error ELSE "unlock failed"
  BY <1>0, <1>1 DEF T!UnlockFailed, T!Explain
<1>2. CASE RefuseLocked(p) /\ T!UnlockFailed(p, "locked")
  <2>1. title'[p] = "locked"
    BY <1>1, <1>2 DEF T!Errors, T!Denials
  <2>2. guard' = guard /\ pc[p] # "idle"
    BY <1>2 DEF RefuseLocked, disk
  <2> QED
    BY <2>1, <2>2 DEF NumberInv, OwnNumber
<1>3. CASE RecordDenial(p) /\ T!UnlockFailed(p, Refusal(p))
  <2>1. title'[p] \in {"rejected", "reused"}
    BY <1>1, <1>3 DEF T!Errors, T!Denials, Refusal
  <2>2. guard' = mem[p] /\ pc[p] = "write" /\ verdict[p] = NoStep
    BY <1>3 DEF RecordDenial, WriteOut
  <2> QED
    BY <2>1, <2>2 DEF EntryInv
<1>4. CASE (FailRead(p) \/ FailWrite(p)) /\ T!UnlockFailed(p, "io")
  <2>1. title'[p] = "unlock failed"
    <3>1. "io" \in T!Errors /\ "io" \notin T!Denials
      BY DEF T!Errors, T!Denials
    <3>2. T!UnlockFailed(p, "io")
      BY <1>4
    <3> QED
      BY <1>1, <3>1, <3>2
  <2>2. guard' = guard /\ pc[p] # "idle"
    <3>1. CASE FailRead(p)
      BY <3>1 DEF FailRead, disk
    <3>2. CASE FailWrite(p)
      BY <3>2 DEF FailWrite, PartWritten
    <3> QED
      BY <1>4, <3>1, <3>2
  <2>3. stamp[p] \notin guard.failures
    BY <2>2 DEF NumberInv, OwnNumber
  <2> QED
    BY <2>1, <2>2, <2>3
<1> QED
  BY <1>2, <1>3, <1>4 DEF UnlockErr

\* unlock() returns to a tile that lives on only with an error, or to the packing.
LEMMA OnlyErrorsReturn ==
    ASSUME TileInv, TP!IInv, [ElevationNext]_allVars, NEW p \in Prompts,
           step[p] = "unlock", step'[p] = "idle", alive'[p]
    PROVE  UnlockErr(p)
<1>0. step \in [Prompts -> Places] /\ alive \in [Prompts -> BOOLEAN]
  BY DEF TileInv, TP!IInv, TP!TypeOK
<1>1. ~UNCHANGED step
  OBVIOUS
<1>2. PICK q \in Prompts :
          \/ TileOnly(q) \/ CallUnlock(q) \/ InsideUnlock(q) \/ UnlockErr(q)
          \/ UnlockOk(q) \/ Packing(q) \/ PackingFails(q) \/ Death(q)
          \/ \E text \in Codes \cup {Malformed, Blank} : Type(q, text)
  BY <1>1 DEF ElevationNext, Environment, allVars, tiles
<1>3. ~TileOnly(q) /\ ~InsideUnlock(q) /\ \A text : ~Type(q, text)
  BY <1>1 DEF TileOnly, T!New, T!SetDeselected, T!Drop, T!SubmitBlank, InsideUnlock, tiles,
     Type, T!SetStringValue
<1>4. ~CallUnlock(q) /\ ~UnlockOk(q)
  BY <1>0 DEF CallUnlock, T!Submit, T!Ready, UnlockOk, T!UnlockOk, T!Goto
<1>5. ~Packing(q) /\ ~PackingFails(q)
  BY <1>0 DEF Packing, T!PackStep, T!Size, T!Alloc, T!Pack, T!LsaConnect, T!LsaLookup, T!Finish,
     PackingFails, T!PackFailed, T!Goto, T!PackSteps
<1>6. ~Death(q)
  BY <1>0 DEF Death, T!Die
<1>7. UnlockErr(q)
  BY <1>2, <1>3, <1>4, <1>5, <1>6
<1>8. q = p
  BY <1>0, <1>7 DEF UnlockErr, T!UnlockFailed, T!Goto
<1> QED
  BY <1>7, <1>8

\* The tile says "rejected" or "already used" exactly when the failure is on disk,
\* also while other prompts overwrite the file: no code is refused without being
\* counted, and no other error counts against the user (unlock.rs:23-37).
THEOREM DenialsCounted == ElevationSpec => DenialToldWhenRecorded
<1> DEFINE Told(p) ==
        step[p] = "unlock" /\ step'[p] = "idle" /\ alive'[p] =>
            (title'[p] \in {"rejected", "reused"} <=> stamp[p] \in guard'.failures)
<1>1. ElevationInit => TileInv /\ TypeInv /\ EntryInv /\ NumberInv
  BY TileInit, TypeInit, NumberInit DEF ElevationInit
<1>2. TileInv /\ TypeInv /\ EntryInv /\ NumberInv /\ [ElevationNext]_allVars
        => (TileInv /\ TypeInv /\ EntryInv /\ NumberInv)'
  BY TileNext, UnlockStep, TypeNext, EntryNext, NumberNext
<1>3. TP!IInv /\ TileInv /\ TypeInv /\ EntryInv /\ NumberInv /\ [ElevationNext]_allVars
        => [\A p \in Prompts : Told(p)]_allVars
  BY OnlyErrorsReturn, ErrorTold
<1> QED
  BY <1>1, <1>2, <1>3, TilesAlways, PTL DEF ElevationSpec, DenialToldWhenRecorded

-----------------------------------------------------------------------------
(* What was shown of the parts, of the whole.                              *)

\* Around the real unlock(), too, every call returns with its plaintext wiped, its
\* handle closed and its buffer owned, Windows is told of a credential exactly when
\* it gets one, and the title says so (credential.rs:352-380,
\* credential_pack.rs:21-75).
THEOREM ProductTiles ==
    ElevationSpec => [](T!NothingLeftBehind /\ T!FinishedHandsOver /\ T!TitleIsLastAnswer)
<1>1. TP!IInv => T!NothingLeftBehind /\ T!FinishedHandsOver /\ T!TitleIsLastAnswer
  BY DEF TP!IInv, TP!TileInv, TP!HoldsInv, TP!GoneInv, TP!ToldInv,
         T!NothingLeftBehind, T!FinishedHandsOver, T!TitleIsLastAnswer
<1> QED
  BY <1>1, TilesAlways, PTL

\* With prompts of several sessions around unlock(), the failure list stays within
\* its limit (guard.rs:39-43).
THEOREM ProductListBounded == ElevationSpec => []FailuresBounded
  BY ElevationIsUnlock, ListBounded, PTL DEF UnlockSpec

\* While prompts do not overlap and the clock is steady, what unlock() does for
\* tiles that users type into, submit and close implements the one-time gate.
THEOREM ProductImplementsGate ==
    ASSUME ~Overlap, Offsets = {0} PROVE ElevationSpec => GateSpec
  BY ElevationIsUnlock, ImplementsGate, PTL DEF UnlockSpec
=============================================================================
