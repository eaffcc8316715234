-------------------------------- MODULE Tile --------------------------------
(***************************************************************************)
(* The OTPUAC tile of a prompt (otpuac-provider: credential.rs and         *)
(* credential_pack.rs): the code field, the title, and what                *)
(* GetSerialization does around unlock(), up to the buffer it hands to     *)
(* Windows.  The result of unlock() comes from outside; every call of      *)
(* Windows in the packing of the credential is a step that may fail.  A    *)
(* tile is called by one thread, so the host does nothing to it while a    *)
(* call runs.                                                              *)
(***************************************************************************)
EXTENDS FiniteSets

CONSTANTS
    Tiles,  \* the tiles, one to a prompt
    Texts,  \* what can be typed and is more than white space
    Blank,  \* white space
    Empty   \* totp_code after zeroize()

ASSUME TileAssumption == Blank \notin Texts /\ Empty \notin Texts /\ Blank # Empty

VARIABLES
    alive,   \* alive[t]: the credential object exists
    field,   \* field[t]: totp_code
    title,   \* title[t]: status, the message shown as the title
    pc,      \* pc[t]: the next step of GetSerialization
    plain,   \* plain[t]: plaintext copies GetSerialization holds
    buffer,  \* buffer[t]: who owns the packed credential, if there is one
    lsa,     \* lsa[t]: a logon process handle is open
    answer,  \* answer[t]: what the last GetSerialization returned
    fresh    \* history: the field was typed into since it was last submitted,
             \* or the tile deselected

vars == <<alive, field, title, pc, plain, buffer, lsa, answer, fresh>>

Denials  == {"rejected", "reused", "locked"}
Errors   == Denials \cup {"io"}
Messages == Denials \cup {"enter", "accepted", "pack failed", "unlock failed"}

\* The steps after unlock() has returned a credential.
PackSteps == {"size", "alloc", "pack", "connect", "lookup", "finish"}

Answers == [finished : BOOLEAN, ok : BOOLEAN, text : Messages \cup {"none"}]

NoAnswer == [finished |-> FALSE, ok |-> TRUE, text |-> "none"]

TypeOK ==
    /\ alive \in [Tiles -> BOOLEAN] /\ lsa \in [Tiles -> BOOLEAN]
    /\ fresh \in [Tiles -> BOOLEAN]
    /\ field \in [Tiles -> Texts \cup {Blank, Empty}]
    /\ title \in [Tiles -> Messages \cup {"none"}]
    /\ pc \in [Tiles -> {"idle", "unlock"} \cup PackSteps]
    /\ plain \in [Tiles -> SUBSET {"code", "password", "password_w"}]
    /\ buffer \in [Tiles -> {"none", "ours", "theirs"}]
    /\ answer \in [Tiles -> Answers]

Init ==
    /\ alive = [t \in Tiles |-> FALSE]
    /\ field = [t \in Tiles |-> Empty]
    /\ title = [t \in Tiles |-> "none"]
    /\ pc = [t \in Tiles |-> "idle"]
    /\ plain = [t \in Tiles |-> {}]
    /\ buffer = [t \in Tiles |-> "none"]
    /\ lsa = [t \in Tiles |-> FALSE]
    /\ answer = [t \in Tiles |-> NoAnswer]
    /\ fresh = [t \in Tiles |-> FALSE]
-----------------------------------------------------------------------------
Goto(t, from, to) == pc[t] = from /\ pc' = [pc EXCEPT ![t] = to]

\* The host's turn.
Ready(t) == alive[t] /\ pc[t] = "idle"

\* new_credential: an empty field and no status.
New(t) ==
    /\ ~alive[t]
    /\ alive' = [alive EXCEPT ![t] = TRUE]
    /\ field' = [field EXCEPT ![t] = Empty]
    /\ title' = [title EXCEPT ![t] = "none"]
    /\ buffer' = [buffer EXCEPT ![t] = "none"]
    /\ answer' = [answer EXCEPT ![t] = NoAnswer]
    /\ UNCHANGED <<pc, plain, lsa, fresh>>

\* SetStringValue for the code field; other fields are refused.
SetStringValue(t, text) ==
    /\ Ready(t)
    /\ field' = [field EXCEPT ![t] = text]
    /\ fresh' = [fresh EXCEPT ![t] = TRUE]
    /\ UNCHANGED <<alive, title, pc, plain, buffer, lsa, answer>>

\* Mutant: the field keeps its code when another tile is selected.
DeselectOnly(t) ==
    /\ Ready(t)
    /\ fresh' = [fresh EXCEPT ![t] = FALSE]
    /\ UNCHANGED <<alive, field, title, pc, plain, buffer, lsa, answer>>

SetDeselected(t) ==
    /\ Ready(t)
    /\ field' = [field EXCEPT ![t] = Empty]
    /\ fresh' = [fresh EXCEPT ![t] = FALSE]
    /\ UNCHANGED <<alive, title, pc, plain, buffer, lsa, answer>>

\* The last reference is released: Drop wipes the field.
Drop(t) ==
    /\ Ready(t)
    /\ alive' = [alive EXCEPT ![t] = FALSE]
    /\ field' = [field EXCEPT ![t] = Empty]
    /\ fresh' = [fresh EXCEPT ![t] = FALSE]
    /\ UNCHANGED <<title, pc, plain, buffer, lsa, answer>>
-----------------------------------------------------------------------------
\* set_error_status, and the return.  The copy of the message for the host is
\* lost when its allocation fails.
Explain(t, message, hresultOk) ==
    /\ title' = [title EXCEPT ![t] = message]
    /\ \E text \in {message, "none"} :
          answer' = [answer EXCEPT ![t] =
                       [finished |-> FALSE, ok |-> hresultOk, text |-> text]]

\* Mutant: the title is left as it is when there is nothing to submit.
SubmitBlankSilently(t) ==
    /\ Ready(t)
    /\ field[t] \in {Blank, Empty}
    /\ buffer' = [buffer EXCEPT ![t] = "none"]
    /\ answer' = [answer EXCEPT ![t] = NoAnswer]
    /\ UNCHANGED <<alive, field, title, pc, plain, lsa, fresh>>

\* GetSerialization with nothing but white space in the field, which stays.
SubmitBlank(t) ==
    /\ Ready(t)
    /\ field[t] \in {Blank, Empty}
    /\ buffer' = [buffer EXCEPT ![t] = "none"]
    /\ Explain(t, "enter", TRUE)
    /\ UNCHANGED <<alive, field, pc, plain, lsa, fresh>>

\* Mutant: `serialization' is not zeroed.
SubmitStale(t) ==
    /\ Ready(t)
    /\ field[t] \notin {Blank, Empty}
    /\ pc' = [pc EXCEPT ![t] = "unlock"]
    /\ plain' = [plain EXCEPT ![t] = {"code"}]
    /\ answer' = [answer EXCEPT ![t] = NoAnswer]
    /\ fresh' = [fresh EXCEPT ![t] = FALSE]
    /\ UNCHANGED <<alive, field, title, buffer, lsa>>

\* GetSerialization up to the call of unlock(); `serialization' is zeroed.
Submit(t) ==
    /\ Ready(t)
    /\ field[t] \notin {Blank, Empty}
    /\ pc' = [pc EXCEPT ![t] = "unlock"]
    /\ plain' = [plain EXCEPT ![t] = {"code"}]
    /\ buffer' = [buffer EXCEPT ![t] = "none"]
    /\ answer' = [answer EXCEPT ![t] = NoAnswer]
    /\ fresh' = [fresh EXCEPT ![t] = FALSE]
    /\ UNCHANGED <<alive, field, title, lsa>>

\* unlock() returned a credential: clear_totp_code, and pack_credential makes
\* its copy of the password.
UnlockOk(t) ==
    /\ Goto(t, "unlock", "size")
    /\ field' = [field EXCEPT ![t] = Empty]
    /\ plain' = [plain EXCEPT ![t] = @ \cup {"password", "password_w"}]
    /\ UNCHANGED <<alive, title, buffer, lsa, answer, fresh>>

\* Mutant: a refused code stays in the field.
UnlockFailedKeepCode(t, error) ==
    /\ Goto(t, "unlock", "idle")
    /\ plain' = [plain EXCEPT ![t] = {}]
    /\ Explain(t, IF error \in Denials THEN error ELSE "unlock failed", TRUE)
    /\ UNCHANGED <<alive, field, buffer, lsa, fresh>>

\* Mutant: every error is shown as it is.
UnlockFailedVerbatim(t, error) ==
    /\ Goto(t, "unlock", "idle")
    /\ field' = [field EXCEPT ![t] = Empty]
    /\ plain' = [plain EXCEPT ![t] = {}]
    /\ Explain(t, error, TRUE)
    /\ UNCHANGED <<alive, buffer, lsa, fresh>>

\* unlock() returned an error: only a denial is shown as it is.
UnlockFailed(t, error) ==
    /\ Goto(t, "unlock", "idle")
    /\ field' = [field EXCEPT ![t] = Empty]
    /\ plain' = [plain EXCEPT ![t] = {}]
    /\ Explain(t, IF error \in Denials THEN error ELSE "unlock failed", TRUE)
    /\ UNCHANGED <<alive, buffer, lsa, fresh>>
-----------------------------------------------------------------------------
(* pack_credential, the calls that succeed.                                *)

\* CredPackAuthenticationBufferW for the size.
Size(t) ==
    /\ Goto(t, "size", "alloc")
    /\ UNCHANGED <<alive, field, title, plain, buffer, lsa, answer, fresh>>

Alloc(t) ==
    /\ Goto(t, "alloc", "pack")
    /\ buffer' = [buffer EXCEPT ![t] = "ours"]
    /\ UNCHANGED <<alive, field, title, plain, lsa, answer, fresh>>

\* CredPackAuthenticationBufferW into the buffer; password_w is wiped.
Pack(t) ==
    /\ Goto(t, "pack", "connect")
    /\ plain' = [plain EXCEPT ![t] = @ \ {"password_w"}]
    /\ UNCHANGED <<alive, field, title, buffer, lsa, answer, fresh>>

LsaConnect(t) ==
    /\ Goto(t, "connect", "lookup")
    /\ lsa' = [lsa EXCEPT ![t] = TRUE]
    /\ UNCHANGED <<alive, field, title, plain, buffer, answer, fresh>>

\* The handle is closed whether or not the package was found.
LsaLookup(t) ==
    /\ Goto(t, "lookup", "finish")
    /\ lsa' = [lsa EXCEPT ![t] = FALSE]
    /\ UNCHANGED <<alive, field, title, plain, buffer, answer, fresh>>

\* The buffer goes into `serialization', CPGSR_RETURN_CREDENTIAL_FINISHED.
Finish(t) ==
    /\ Goto(t, "finish", "idle")
    /\ buffer' = [buffer EXCEPT ![t] = "theirs"]
    /\ title' = [title EXCEPT ![t] = "accepted"]
    /\ answer' = [answer EXCEPT ![t] = [finished |-> TRUE, ok |-> TRUE, text |-> "none"]]
    /\ plain' = [plain EXCEPT ![t] = {}]
    /\ UNCHANGED <<alive, field, lsa, fresh>>

\* Mutant: a failure to find the authentication package keeps the buffer.
WipesOrFreesLess(t) ==
    /\ plain' = [plain EXCEPT ![t] = {}]
    /\ buffer' = [buffer EXCEPT ![t] = IF pc[t] = "pack" THEN "none" ELSE @]
    /\ lsa' = [lsa EXCEPT ![t] = FALSE]

\* What each early return of pack_credential undoes: password_w is wiped while
\* it is in use, the buffer freed once there is one, the handle closed once it
\* is open.  The strings the caller holds are wiped as they go out of scope.
WipesAndFrees(t) ==
    /\ plain' = [plain EXCEPT ![t] =
                   @ \ (IF pc[t] \in {"size", "alloc", "pack"}
                        THEN {"code", "password", "password_w"} ELSE {"code", "password"})]
    /\ buffer' = [buffer EXCEPT ![t] =
                    IF pc[t] \in {"pack", "connect", "lookup"} THEN "none" ELSE @]
    /\ lsa' = [lsa EXCEPT ![t] = IF pc[t] = "lookup" THEN FALSE ELSE @]

\* Mutant: the user is not told that packing failed.
PackFailedSilently(t) ==
    /\ pc[t] \in PackSteps \ {"finish"}
    /\ pc' = [pc EXCEPT ![t] = "idle"]
    /\ WipesAndFrees(t)
    /\ UNCHANGED <<alive, field, title, answer, fresh>>

\* A call fails: the error code is returned, next to the message.
PackFailed(t) ==
    /\ pc[t] \in PackSteps \ {"finish"}
    /\ pc' = [pc EXCEPT ![t] = "idle"]
    /\ WipesAndFrees(t)
    /\ Explain(t, "pack failed", FALSE)
    /\ UNCHANGED <<alive, field, fresh>>

PackStep(t) ==
    Size(t) \/ Alloc(t) \/ Pack(t) \/ LsaConnect(t) \/ LsaLookup(t) \/ Finish(t)

\* consent.exe dies, and the tile with it.
Die(t) ==
    /\ alive[t]
    /\ alive' = [alive EXCEPT ![t] = FALSE]
    /\ pc' = [pc EXCEPT ![t] = "idle"]
    /\ field' = [field EXCEPT ![t] = Empty]
    /\ plain' = [plain EXCEPT ![t] = {}]
    /\ buffer' = [buffer EXCEPT ![t] = "none"]
    /\ lsa' = [lsa EXCEPT ![t] = FALSE]
    /\ fresh' = [fresh EXCEPT ![t] = FALSE]
    /\ UNCHANGED <<title, answer>>

\* GetStringValue has no action: it changes nothing of the tile.  The copies of
\* the code that it makes, one in a Vec that is freed as it is and one for the
\* host (fields.rs:109-113, credential.rs:227-230), are outside `plain', which
\* holds the copies GetSerialization makes.
Host(t) ==
    \/ New(t) \/ SetDeselected(t) \/ Drop(t)
    \/ \E text \in Texts \cup {Blank, Empty} : SetStringValue(t, text)
    \/ SubmitBlank(t) \/ Submit(t)

Next ==
    \E t \in Tiles :
        \/ Host(t) \/ UnlockOk(t) \/ (\E error \in Errors : UnlockFailed(t, error))
        \/ PackStep(t) \/ PackFailed(t) \/ Die(t)

Spec == Init /\ [][Next]_vars
-----------------------------------------------------------------------------
(* Properties. *)

\* Whichever call fails, GetSerialization returns with each plaintext copy it
\* made of code and password wiped, the logon handle closed, and no buffer that
\* nobody owns ("Plaintext password and TOTP buffers are cleared",
\* docs/provider.md:25, as far as it is about that call; credential.rs:357-380,
\* credential_pack.rs:21-75).
NothingLeftBehind ==
    \A t \in Tiles : pc[t] = "idle" => plain[t] = {} /\ ~lsa[t] /\ buffer[t] # "ours"

\* The code that goes to unlock() was typed since the last submission, whatever
\* came of that, and since another tile was last selected: Windows asking again
\* spends no attempt (credential.rs:195-198, 363-364).
CodeTypedAgain ==
    [][\A t \in Tiles : pc[t] = "idle" /\ pc'[t] = "unlock" => fresh[t]]_vars

\* Windows is told that it got a credential exactly when it got the buffer, and
\* then the call succeeded (credential.rs:352-380).
FinishedHandsOver ==
    \A t \in Tiles : alive[t] /\ pc[t] = "idle" =>
        /\ answer[t].finished <=> buffer[t] = "theirs"
        /\ answer[t].finished => answer[t].ok

\* The title says that the code was accepted exactly if the last submission gave
\* Windows the credential.
TitleIsLastAnswer ==
    \A t \in Tiles : alive[t] /\ pc[t] = "idle" =>
        (title[t] = "accepted" <=> answer[t].finished)
=============================================================================
