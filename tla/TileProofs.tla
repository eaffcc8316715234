----------------------------- MODULE TileProofs -----------------------------
(***************************************************************************)
(* Theorems about Tile, for any number of tiles and any texts.             *)
(***************************************************************************)
EXTENDS Tile, TLAPS

USE TileAssumption
-----------------------------------------------------------------------------
(* The inductive invariant, of each tile by itself. *)

\* What a call holds at each of its steps: copies of the password until they are
\* wiped, the handle while it looks up the package, the buffer once there is one.
HoldsInv(t) ==
    /\ pc[t] = "idle" => plain[t] = {}
    /\ pc[t] \in {"connect", "lookup", "finish"} => "password_w" \notin plain[t]
    /\ lsa[t] => pc[t] = "lookup"
    /\ pc[t] \in {"idle", "unlock", "size", "alloc"} => buffer[t] # "ours"

\* A tile that is gone is in no call, and the field it had is empty.
GoneInv(t) == ~alive[t] => pc[t] = "idle" /\ field[t] = Empty

\* What Windows has been told: nothing of the last answer is left during a call.
ToldInv(t) ==
    /\ pc[t] # "idle" => buffer[t] # "theirs" /\ ~answer[t].finished
    /\ alive[t] /\ pc[t] = "idle" =>
          /\ answer[t].finished <=> buffer[t] = "theirs"
          /\ answer[t].finished => answer[t].ok
          /\ title[t] = "accepted" <=> answer[t].finished

\* A code that waits in the field was typed since the last submission.
FreshInv(t) ==
    /\ pc[t] = "idle" /\ field[t] \in Texts => fresh[t]
    /\ pc[t] \in PackSteps => field[t] = Empty

TileInv(t) == HoldsInv(t) /\ GoneInv(t) /\ ToldInv(t) /\ FreshInv(t)

IInv == TypeOK /\ \A t \in Tiles : TileInv(t)
-----------------------------------------------------------------------------
(* A step of one tile leaves the others as they are. *)

\* The variables of one tile.
Part(t) == <<alive[t], field[t], title[t], pc[t], plain[t], buffer[t], lsa[t], answer[t], fresh[t]>>

\* What a step of tile t does to any tile.
OneTile(t) == \A u \in Tiles \ {t} : Part(u)' = Part(u)

\* A tile whose variables are left alone keeps its invariant.
LEMMA PartKept ==
  ASSUME NEW t \in Tiles, TileInv(t), Part(t)' = Part(t)
  PROVE  TileInv(t)'
  BY DEF TileInv, HoldsInv, GoneInv, ToldInv, FreshInv, Part

\* set_error_status and the return: a message that is none of "accepted", and no
\* credential.
LEMMA Explained ==
  ASSUME TypeOK, NEW t \in Tiles, NEW message \in Messages, NEW ok \in BOOLEAN,
         Explain(t, message, ok)
  PROVE  /\ title' \in [Tiles -> Messages \cup {"none"}] /\ answer' \in [Tiles -> Answers]
         /\ title'[t] = message /\ ~answer'[t].finished
         /\ \A u \in Tiles \ {t} : title'[u] = title[u] /\ answer'[u] = answer[u]
  <1>1. PICK text \in {message, "none"} :
          answer' = [answer EXCEPT ![t] = [finished |-> FALSE, ok |-> ok, text |-> text]]
    BY DEF Explain
  <1>2. [finished |-> FALSE, ok |-> ok, text |-> text] \in Answers
    BY DEF Answers
  <1> QED
    BY <1>1, <1>2 DEF Explain, TypeOK

\* The host's calls that change the tile and return at once.
LEMMA HostSteps ==
  ASSUME TypeOK, NEW t \in Tiles, TileInv(t),
         \/ New(t) \/ SetDeselected(t) \/ Drop(t) \/ SubmitBlank(t) \/ Submit(t)
         \/ \E text \in Texts \cup {Blank, Empty} : SetStringValue(t, text)
  PROVE  TypeOK' /\ TileInv(t)' /\ OneTile(t)
  <1> USE DEF TypeOK, TileInv, HoldsInv, GoneInv, ToldInv, FreshInv, OneTile, Part, Ready
  <1> NoAnswer \in Answers /\ ~NoAnswer.finished /\ NoAnswer.ok
    BY DEF NoAnswer, Answers
  <1>1. CASE New(t)
    BY <1>1 DEF New
  <1>2. CASE SetDeselected(t)
    BY <1>2 DEF SetDeselected
  <1>3. CASE Drop(t)
    BY <1>3 DEF Drop
  <1>4. CASE SubmitBlank(t)
    <2>1. Explain(t, "enter", TRUE) /\ "enter" \in Messages
      BY <1>4 DEF SubmitBlank, Messages
    <2>2. /\ title' \in [Tiles -> Messages \cup {"none"}] /\ answer' \in [Tiles -> Answers]
          /\ title'[t] = "enter" /\ ~answer'[t].finished
          /\ \A u \in Tiles \ {t} : title'[u] = title[u] /\ answer'[u] = answer[u]
      BY <2>1, Explained
    <2>3. TypeOK' /\ OneTile(t)
      BY <1>4, <2>2 DEF SubmitBlank
    <2>4. HoldsInv(t)' /\ GoneInv(t)'
      BY <1>4 DEF SubmitBlank
    <2>5. ToldInv(t)'
      BY <1>4, <2>2 DEF SubmitBlank
    <2>6. FreshInv(t)'
      BY <1>4 DEF SubmitBlank
    <2> QED
      BY <2>3, <2>4, <2>5, <2>6
  <1>5. CASE Submit(t)
    BY <1>5 DEF Submit, PackSteps
  <1>6. CASE \E text \in Texts \cup {Blank, Empty} : SetStringValue(t, text)
    BY <1>6 DEF SetStringValue, PackSteps
  <1> QED
    BY <1>1, <1>2, <1>3, <1>4, <1>5, <1>6

\* unlock() returns, one way or the other.
LEMMA UnlockReturns ==
  ASSUME TypeOK, NEW t \in Tiles, TileInv(t),
         UnlockOk(t) \/ \E error \in Errors : UnlockFailed(t, error)
  PROVE  TypeOK' /\ TileInv(t)' /\ OneTile(t)
  <1> USE DEF TypeOK, TileInv, HoldsInv, GoneInv, ToldInv, FreshInv, OneTile, Part, Goto
  <1>1. CASE UnlockOk(t)
    BY <1>1 DEF UnlockOk, PackSteps
  <1>2. ASSUME NEW error \in Errors, UnlockFailed(t, error)
        PROVE  TypeOK' /\ TileInv(t)' /\ OneTile(t)
    <2> DEFINE message == IF error \in Denials THEN error ELSE "unlock failed"
    <2>1. message \in Messages /\ message # "accepted"
      BY DEF Messages, Denials
    <2>2. Explain(t, message, TRUE)
      BY <1>2 DEF UnlockFailed
    <2>3. /\ pc[t] = "unlock" /\ pc' = [pc EXCEPT ![t] = "idle"]
          /\ field' = [field EXCEPT ![t] = Empty] /\ plain' = [plain EXCEPT ![t] = {}]
          /\ UNCHANGED <<alive, buffer, lsa, fresh>>
      BY <1>2 DEF UnlockFailed
    <2> HIDE DEF message
    <2>4. /\ title' \in [Tiles -> Messages \cup {"none"}] /\ answer' \in [Tiles -> Answers]
          /\ title'[t] = message /\ ~answer'[t].finished
          /\ \A u \in Tiles \ {t} : title'[u] = title[u] /\ answer'[u] = answer[u]
      BY <2>1, <2>2, Explained
    <2>5. TypeOK' /\ OneTile(t)
      BY <2>3, <2>4
    <2>6. HoldsInv(t)' /\ GoneInv(t)'
      BY <2>3
    <2>7. ToldInv(t)'
      BY <2>1, <2>3, <2>4
    <2>8. FreshInv(t)'
      BY <2>3 DEF PackSteps
    <2> QED
      BY <2>5, <2>6, <2>7, <2>8
  <1> QED
    BY <1>1, <1>2

\* The calls of pack_credential, and the early returns between them.
LEMMA Packs ==
  ASSUME TypeOK, NEW t \in Tiles, TileInv(t), PackStep(t) \/ PackFailed(t)
  PROVE  TypeOK' /\ TileInv(t)' /\ OneTile(t)
  <1> USE DEF TypeOK, TileInv, HoldsInv, GoneInv, ToldInv, FreshInv, OneTile, Part, Goto, PackSteps
  <1>1. CASE Size(t)
    BY <1>1 DEF Size
  <1>2. CASE Alloc(t)
    BY <1>2 DEF Alloc
  <1>3. CASE Pack(t)
    BY <1>3 DEF Pack
  <1>4. CASE LsaConnect(t)
    BY <1>4 DEF LsaConnect
  <1>5. CASE LsaLookup(t)
    BY <1>5 DEF LsaLookup
  <1>6. CASE Finish(t)
    <2>1. [finished |-> TRUE, ok |-> TRUE, text |-> "none"] \in Answers /\ "accepted" \in Messages
      BY DEF Answers, Messages
    <2> QED
      BY <1>6, <2>1 DEF Finish
  <1>7. CASE PackFailed(t)
    <2>1. Explain(t, "pack failed", FALSE) /\ "pack failed" \in Messages
      BY <1>7 DEF PackFailed, Messages
    <2>2. /\ title' \in [Tiles -> Messages \cup {"none"}] /\ answer' \in [Tiles -> Answers]
          /\ title'[t] = "pack failed" /\ ~answer'[t].finished
          /\ \A u \in Tiles \ {t} : title'[u] = title[u] /\ answer'[u] = answer[u]
      BY <2>1, Explained
    <2>3. pc[t] \in PackSteps \ {"finish"} /\ pc' = [pc EXCEPT ![t] = "idle"]
          /\ UNCHANGED <<alive, field, fresh>>
      BY <1>7 DEF PackFailed
    <2>4. /\ plain' \in [Tiles -> SUBSET {"code", "password", "password_w"}] /\ plain'[t] = {}
          /\ \A u \in Tiles \ {t} : plain'[u] = plain[u]
      <3> DEFINE left == plain[t] \ (IF pc[t] \in {"size", "alloc", "pack"}
                           THEN {"code", "password", "password_w"} ELSE {"code", "password"})
      <3>1. plain[t] \in SUBSET {"code", "password", "password_w"}
        OBVIOUS
      <3>2. pc[t] \notin {"size", "alloc", "pack"} => "password_w" \notin plain[t]
        BY <2>3
      <3>3. left = {}
        BY <3>1, <3>2
      <3>4. plain' = [plain EXCEPT ![t] = left]
        BY <1>7 DEF PackFailed, WipesAndFrees
      <3> HIDE DEF left
      <3> QED
        BY <3>3, <3>4
    <2>5. /\ buffer' \in [Tiles -> {"none", "ours", "theirs"}] /\ buffer'[t] = "none"
          /\ \A u \in Tiles \ {t} : buffer'[u] = buffer[u]
      BY <1>7, <2>3 DEF PackFailed, WipesAndFrees
    <2>6. /\ lsa' \in [Tiles -> BOOLEAN] /\ ~lsa'[t]
          /\ \A u \in Tiles \ {t} : lsa'[u] = lsa[u]
      BY <1>7, <2>3 DEF PackFailed, WipesAndFrees
    <2>7. TypeOK'
      BY <2>2, <2>3, <2>4, <2>5, <2>6
    <2>10. OneTile(t)
      <3> SUFFICES ASSUME NEW u \in Tiles \ {t} PROVE Part(u)' = Part(u)
        OBVIOUS
      <3>1. pc'[u] = pc[u]
        BY <2>3
      <3> QED
        BY <2>2, <2>3, <2>4, <2>5, <2>6, <3>1
    <2>8. HoldsInv(t)'
      BY <2>3, <2>4, <2>5, <2>6
    <2>9. GoneInv(t)' /\ ToldInv(t)' /\ FreshInv(t)'
      BY <2>2, <2>3, <2>5
    <2> QED
      BY <2>7, <2>8, <2>9, <2>10
  <1> QED
    BY <1>1, <1>2, <1>3, <1>4, <1>5, <1>6, <1>7 DEF PackStep

\* consent.exe dies.
LEMMA Deaths ==
  ASSUME TypeOK, NEW t \in Tiles, TileInv(t), Die(t)
  PROVE  TypeOK' /\ TileInv(t)' /\ OneTile(t)
  BY DEF Die, TypeOK, TileInv, HoldsInv, GoneInv, ToldInv, FreshInv, OneTile, Part, PackSteps

\* The initial states, and every step, keep the invariant.
LEMMA IInvInit == Init => IInv
  <1> NoAnswer \in Answers
    BY DEF NoAnswer, Answers
  <1> QED
    BY DEF Init, IInv, TypeOK, TileInv, HoldsInv, GoneInv, ToldInv, FreshInv, PackSteps

\* ... one tile at a time.
LEMMA IInvNext == IInv /\ [Next]_vars => IInv'
  <1> SUFFICES ASSUME IInv, [Next]_vars PROVE IInv'
    OBVIOUS
  <1>1. ASSUME NEW t \in Tiles, TypeOK' /\ TileInv(t)' /\ OneTile(t) PROVE IInv'
    BY <1>1, PartKept DEF IInv, OneTile
  <1>2. CASE UNCHANGED vars
    BY <1>2, PartKept DEF IInv, vars, Part, TypeOK
  <1>3. CASE Next
    <2>1. PICK t \in Tiles :
            \/ Host(t) \/ UnlockOk(t) \/ (\E error \in Errors : UnlockFailed(t, error))
            \/ PackStep(t) \/ PackFailed(t) \/ Die(t)
      BY <1>3 DEF Next
    <2> TypeOK /\ TileInv(t)
      BY DEF IInv
    <2>2. TypeOK' /\ TileInv(t)' /\ OneTile(t)
      BY <2>1, HostSteps, UnlockReturns, Packs, Deaths DEF Host
    <2> QED
      BY <1>1, <2>2
  <1> QED
    BY <1>2, <1>3

\* So it always holds.
LEMMA IInvAlways == Spec => []IInv
  BY IInvInit, IInvNext, PTL DEF Spec
-----------------------------------------------------------------------------
(* The theorems. *)

\* Types of the tiles and of the calls of GetSerialization.
THEOREM TypeCorrect == Spec => []TypeOK
  <1>1. IInv => TypeOK
    BY DEF IInv
  <1> QED
    BY IInvAlways, <1>1, PTL

\* Whichever call of the packing fails, no plaintext, handle or buffer outlives
\* GetSerialization (credential_pack.rs:21-105, credential.rs:364-391).
THEOREM NothingLeft == Spec => []NothingLeftBehind
  <1>1. IInv => NothingLeftBehind
    BY DEF IInv, TileInv, HoldsInv, NothingLeftBehind
  <1> QED
    BY IInvAlways, <1>1, PTL

\* Windows is told of a credential exactly when it owns the buffer with it
\* (credential.rs:352-391).
THEOREM FinishedMeansBuffer == Spec => []FinishedHandsOver
  <1>1. IInv => FinishedHandsOver
    BY DEF IInv, TileInv, ToldInv, FinishedHandsOver
  <1> QED
    BY IInvAlways, <1>1, PTL

\* The title never claims an acceptance that the last answer did not give
\* (credential.rs:352-391, 420-441).
THEOREM TitleTrue == Spec => []TitleIsLastAnswer
  <1>1. IInv => TitleIsLastAnswer
    BY DEF IInv, TileInv, ToldInv, TitleIsLastAnswer
  <1> QED
    BY IInvAlways, <1>1, PTL

\* No code is submitted twice without being typed again (credential.rs:195-198,
\* 363-364).
THEOREM TypedAgain == Spec => CodeTypedAgain
  <1>1. IInv /\ [Next]_vars =>
          [\A t \in Tiles : pc[t] = "idle" /\ pc'[t] = "unlock" => fresh[t]]_vars
    <2> SUFFICES ASSUME IInv, Next, NEW t \in Tiles, pc[t] = "idle", pc'[t] = "unlock"
                 PROVE  fresh[t]
      OBVIOUS
    <2>1. PICK u \in Tiles :
            \/ Host(u) \/ UnlockOk(u) \/ (\E error \in Errors : UnlockFailed(u, error))
            \/ PackStep(u) \/ PackFailed(u) \/ Die(u)
      BY DEF Next
    <2> TypeOK /\ TileInv(t)
      BY DEF IInv
    <2>2. Submit(t)
      BY <2>1 DEF Host, New, SetDeselected, Drop, SetStringValue, SubmitBlank, Submit, UnlockOk,
                  UnlockFailed, PackStep, PackFailed, Size, Alloc, Pack, LsaConnect, LsaLookup,
                  Finish, Die, Goto, PackSteps, TypeOK
    <2> QED
      BY <2>2 DEF Submit, TypeOK, TileInv, FreshInv
  <1> QED
    BY IInvAlways, <1>1, PTL DEF Spec, CodeTypedAgain
=============================================================================
