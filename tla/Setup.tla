------------------------------- MODULE Setup -------------------------------
(***************************************************************************)
(* otpuac-setup install and uninstall (otpuac-setup/src/install.rs and     *)
(* platform/windows/account.rs) on one machine: local accounts, the hidden *)
(* sign-in list, and the files under ProgramData\OTPUAC.  Every call of    *)
(* the operating system is a step that may fail, and the process may die   *)
(* before any of them; nothing it has done by then is undone by itself.    *)
(* One command runs at a time; a prompt may be open meanwhile.             *)
(***************************************************************************)
EXTENDS Integers, FiniteSets

CONSTANTS
    Names,      \* account names that pass validate_local_account_name
    BadName,    \* a name that does not
    Edits,      \* TRUE: an administrator makes and deletes accounts
    Crashes,    \* TRUE: the process may die in the middle of a command
    MaxRuns,    \* bound: number of commands
    MaxFaults   \* bound: number of failing calls and crashes

ASSUME SetupAssumption ==
    /\ BadName \notin Names
    /\ Crashes \in BOOLEAN /\ Edits \in BOOLEAN
    /\ MaxRuns \in Nat /\ MaxFaults \in Nat

VARIABLES
    account,     \* account[n]: whose it is and what it may do
    password,    \* password[n]: serial number of the account's password
    hidden,      \* names hidden from the sign-in screen
    disk,        \* the data directory: does it exist (dir), vault.json (vault), is
                 \* there a guard.json (guard), OTPUAC 1.0's setup.json (legacy: absent,
                 \* or what it says) and service-state.json (state); and elsewhere the
                 \* enrollment file (serial number of its secret, 0 for none)
    inside,      \* a prompt has read the vault in unlock() and goes on to guard.json
    pc,          \* the next step of the command that runs
    args,        \* its arguments
    isNew,       \* install's local of that name
    runs,        \* number of commands started so far
    faults,      \* number of calls failed and processes died so far
    died,        \* history: a process died
    misread,     \* history: names that setup.json claims, where the last uninstall
                 \* that asked it got no answer
    outcome      \* history: the last command, its result, the vault before it, did
                 \* setup make the account in it, and whether a call failed or a
                 \* prompt was inside meanwhile

machine == <<account, password, hidden, disk>>
proc    == <<pc, args, isNew>>
vars    == <<machine, inside, proc, runs, faults, died, misread, outcome>>

NoVault == [state |-> "absent", name |-> BadName, serial |-> 0, created |-> FALSE]
NoArgs  == [cmd |-> "none", name |-> BadName, enroll |-> FALSE]

Vaults == [state : {"absent", "torn", "ok"}, name : Names \cup {BadName},
           serial : Nat, created : BOOLEAN]

\* The files uninstall removes, as they are when there is none.
Gone == [vault |-> NoVault, guard |-> FALSE, legacy |-> "absent", state |-> FALSE]

\* An account is somebody else's, or made by OTPUAC: first a plain user, then
\* a member of the Administrators group.
Kinds == {"absent", "foreign", "plain", "admin"}
Made(n) == account[n] \in {"plain", "admin"}

InstallSteps   == {"validate", "makedir", "secure", "check", "adduser", "addadmin", "hide",
                   "seal", "create", "write", "enroll", "rb_unhide", "rb_delete", "rb_remove"}
UninstallSteps == {"load", "unhide", "delete", "vault", "guard", "legacy", "state", "rmdir"}

Disks == [dir : BOOLEAN, vault : Vaults, guard : BOOLEAN, state : BOOLEAN,
          legacy : {"absent", "claims", "denies"}, enrollment : Nat]

Outcomes == [cmd : {"none", "install", "uninstall"}, vault : Vaults, made : BOOLEAN,
             result : {"none", "ok", "error", "died"}, faulty : BOOLEAN,
             raced : BOOLEAN, name : Names \cup {BadName}, enroll : BOOLEAN]

TypeOK ==
    /\ account \in [Names -> Kinds]
    /\ password \in [Names -> Nat]
    /\ hidden \subseteq Names
    /\ disk \in Disks
    /\ inside \in BOOLEAN
    /\ pc \in {"idle"} \cup InstallSteps \cup UninstallSteps
    /\ args \in [cmd : {"none", "install", "uninstall"}, name : Names \cup {BadName},
                 enroll : BOOLEAN]
    /\ pc \in InstallSteps \ {"validate"} => args.name \in Names
    /\ isNew \in BOOLEAN
    /\ runs \in Nat /\ faults \in Nat /\ died \in BOOLEAN
    /\ misread \subseteq Names \cup {BadName}
    /\ outcome \in Outcomes

Clean == [cmd |-> "none", result |-> "none", faulty |-> FALSE, raced |-> FALSE,
          name |-> BadName, enroll |-> FALSE, vault |-> NoVault, made |-> FALSE]

\* A machine without OTPUAC, or one on which OTPUAC 1.0 manages the account
\* it made, or one it was given.
Init ==
    /\ hidden = {} /\ inside = FALSE
    /\ password = [n \in Names |-> 0]
    /\ pc = "idle" /\ args = NoArgs /\ isNew = FALSE
    /\ runs = 0 /\ faults = 0 /\ died = FALSE /\ misread = {} /\ outcome = Clean
    /\ \/ /\ account \in [Names -> {"absent", "foreign"}]
          /\ disk = [dir |-> FALSE, vault |-> NoVault, guard |-> FALSE, state |-> FALSE,
                     legacy |-> "absent", enrollment |-> 0]
       \/ \E n \in Names, claim \in {"claims", "denies"} :
             /\ account = [m \in Names |->
                             IF m # n THEN "absent"
                             ELSE IF claim = "claims" THEN "admin" ELSE "foreign"]
             /\ disk = [dir |-> TRUE, guard |-> FALSE, state |-> TRUE, legacy |-> claim,
                        vault |-> [state |-> "ok", name |-> n, serial |-> 0, created |-> FALSE],
                        enrollment |-> 0]
-----------------------------------------------------------------------------
\* The command goes from one of its steps to another.
Step(from, to) ==
    /\ pc = from /\ pc' = to
    /\ UNCHANGED <<inside, args, isNew, runs, faults, died, misread, outcome>>

\* Writes one file or directory of the disk.
Write(f, value) ==
    /\ disk' = [disk EXCEPT ![f] = value]
    /\ UNCHANGED <<account, password, hidden>>

\* The process ends with a result.
Exit(end) == pc' = "idle" /\ args' = NoArgs /\ isNew' = FALSE /\ outcome' = end

\* The command returns its result to the caller.
Return(result) ==
    /\ Exit([outcome EXCEPT !.result = result])
    /\ UNCHANGED <<inside, runs, faults, died, misread>>

\* Does the vault, or legacy_install_created_account, say that setup made it?
Created == disk.vault.state = "ok" /\ (disk.vault.created \/ disk.legacy = "claims")

Begin(arguments, first) ==
    /\ pc = "idle" /\ pc' = first
    /\ runs < MaxRuns
    /\ runs' = runs + 1
    /\ args' = arguments
    /\ outcome' = [Clean EXCEPT !.cmd = arguments.cmd, !.name = arguments.name,
                                !.enroll = arguments.enroll, !.vault = disk.vault,
                                !.made = Created, !.raced = inside]
    /\ misread' = misread \ {disk.vault.name}
    /\ UNCHANGED <<machine, inside, isNew, faults, died>>

Install(name, enroll) ==
    Begin([cmd |-> "install", name |-> name, enroll |-> enroll], "validate")

Uninstall ==
    Begin([cmd |-> "uninstall", name |-> BadName, enroll |-> FALSE], "load")

\* Mutant: any account name is accepted.
ValidateNothing == Step("validate", "makedir") /\ UNCHANGED machine

\* validate_local_account_name.
Validate ==
    /\ \/ args.name \in Names /\ Step("validate", "makedir")
       \/ args.name \notin Names /\ pc = "validate" /\ Return("error")
    /\ UNCHANGED machine

MakeDir == Step("makedir", "secure") /\ Write("dir", TRUE)

\* secure_data_dir sets the DACL, which no other step reads.
SecureDir == Step("secure", "check") /\ UNCHANGED machine

\* Mutant: an adopted install counts as one that this command provisioned.
AdoptAsNew ==
    /\ pc = "check" /\ pc' = "enroll"
    /\ disk.vault.state = "ok"
    /\ isNew' = TRUE
    /\ UNCHANGED <<machine, inside, args, runs, faults, died, misread, outcome>>

\* vault_path.exists() and it can be read: adopt, whatever name was given.
Adopt == disk.vault.state = "ok" /\ Step("check", "enroll") /\ UNCHANGED machine

\* vault_path.exists() but Vault::read fails.
RefuseTornVault ==
    /\ pc \in {"check", "load"}
    /\ disk.vault.state = "torn"
    /\ Return("error")
    /\ UNCHANGED machine

Provision == disk.vault.state = "absent" /\ Step("check", "adduser") /\ UNCHANGED machine

\* NetUserAdd makes the user, with a password of this command's own.
AddUser ==
    /\ Step("adduser", "addadmin")
    /\ account[args.name] = "absent"
    /\ account' = [account EXCEPT ![args.name] = "plain"]
    /\ password' = [password EXCEPT ![args.name] = runs]
    /\ UNCHANGED <<hidden, disk>>

\* Mutant: creating the user is one of the steps that rollback undoes.
CreateUserInRollback ==
    \/ AddUser
    \/ Step("adduser", "rb_unhide") /\ account[args.name] # "absent" /\ UNCHANGED machine

\* Mutant: an account that exists already is taken over.
CreateOrTakeUser ==
    \/ AddUser
    \/ Step("adduser", "addadmin") /\ account[args.name] # "absent" /\ UNCHANGED machine

\* create_local_user refuses a name that is in use.
CreateUser ==
    \/ AddUser
    \/ pc = "adduser" /\ account[args.name] # "absent" /\ Return("error") /\ UNCHANGED machine

\* add_to_local_administrators.
AddAdmin ==
    /\ Step("addadmin", "hide")
    /\ account' = [account EXCEPT ![args.name] = "admin"]
    /\ UNCHANGED <<password, hidden, disk>>

Hide ==
    /\ Step("hide", "seal")
    /\ hidden' = hidden \cup {args.name}
    /\ UNCHANGED <<account, password, disk>>

\* Vault::new seals the password and a fresh TOTP secret.
Seal == Step("seal", "create") /\ UNCHANGED machine

\* fs::write of vault.json, first half: the file exists and is empty.
CreateVault == Step("create", "write") /\ Write("vault", [NoVault EXCEPT !.state = "torn"])

\* ... and second half.  provision() returns, is_new becomes true.
WriteVault ==
    /\ pc = "write" /\ pc' = "enroll"
    /\ Write("vault", [state |-> "ok", name |-> args.name, serial |-> runs, created |-> TRUE])
    /\ isNew' = TRUE
    /\ UNCHANGED <<inside, args, runs, faults, died, misread, outcome>>

\* write_enrollment_file, if a file was asked for; then install() is done.
Enroll ==
    /\ pc = "enroll"
    /\ Write("enrollment", IF args.enroll THEN disk.vault.serial ELSE disk.enrollment)
    /\ Return("ok")
-----------------------------------------------------------------------------
(* Two calls that provisioning undone and uninstall have in common.        *)

UnhideName(n) == hidden' = hidden \ {n} /\ UNCHANGED <<account, password, disk>>

\* delete_local_account: an account that is not found counts as deleted.
DeleteName(n) ==
    /\ account' = [account EXCEPT ![n] = "absent"]
    /\ UNCHANGED <<password, hidden, disk>>

(* rollback(): three calls whose results are ignored, then the error.      *)

RollbackUnhide == Step("rb_unhide", "rb_delete") /\ UnhideName(args.name)

RollbackDelete == Step("rb_delete", "rb_remove") /\ DeleteName(args.name)

RollbackRemove == pc = "rb_remove" /\ Write("vault", NoVault) /\ Return("error")
-----------------------------------------------------------------------------
(* uninstall().                                                            *)

\* Mutant: nothing is cleaned up when there is no vault.
LoadOrDone ==
    /\ \/ disk.vault.state = "absent" /\ pc = "load" /\ Return("ok")
       \/ disk.vault.state = "ok" /\ Step("load", IF Created THEN "unhide" ELSE "vault")
    /\ UNCHANGED machine

\* The vault, if there is one, can be read, and so can setup.json, which is
\* asked only when the vault does not say itself that setup made the account.
Load ==
    /\ disk.vault.state # "torn"
    /\ Step("load", IF Created THEN "unhide" ELSE "vault")
    /\ UNCHANGED machine

Unhide == Step("unhide", "delete") /\ UnhideName(disk.vault.name)

\* Mutant: an account that is not found is an error.
DeleteExisting ==
    \/ /\ Step("delete", "vault") /\ DeleteName(disk.vault.name)
       /\ account[disk.vault.name] # "absent"
    \/ /\ pc = "delete" /\ account[disk.vault.name] = "absent"
       /\ Return("error") /\ UNCHANGED machine

DeleteAccount == Step("delete", "vault") /\ DeleteName(disk.vault.name)

\* The loop over the four files; one that is not there is skipped.
RemoveFile(f, next) == Step(f, next) /\ Write(f, Gone[f])

\* remove_dir fails on a directory that is not empty; the result is ignored.
RemoveDir ==
    /\ pc = "rmdir"
    /\ \E left \in {disk.dir, FALSE} :
          /\ ~left => \A f \in DOMAIN Gone : disk[f] = Gone[f]
          /\ Write("dir", left)
    /\ Return("ok")
-----------------------------------------------------------------------------
(* Faults.                                                                 *)

Hit == faults < MaxFaults /\ faults' = faults + 1

\* The failed call, or the death, is on record.
Faulty(result) == [outcome EXCEPT !.faulty = TRUE, !.result = result]

\* Mutant: a vault that cannot be written leaves the account behind.
RollsBackEarly == {"hide", "seal"}

\* The closure in provision() rolls back.
RollsBack == {"hide", "seal", "create", "write"}

\* fs::write of the enrollment file truncates before it can fail.
LeavesEnrollment ==
    \/ UNCHANGED machine
    \/ pc = "enroll" /\ args.enroll /\ Write("enrollment", 0)

\* A call inside provision()'s closure fails, or the enrollment file after it.
FailIntoRollback ==
    /\ Hit
    /\ pc \in RollsBack \/ (pc = "enroll" /\ isNew /\ args.enroll)
    /\ pc' = "rb_unhide" /\ outcome' = Faulty("none")
    /\ LeavesEnrollment
    /\ UNCHANGED <<inside, args, isNew, runs, died, misread>>

\* rollback() goes on after a failure.
FailInRollback ==
    /\ Hit
    /\ \/ /\ \/ pc = "rb_unhide" /\ pc' = "rb_delete"
             \/ pc = "rb_delete" /\ pc' = "rb_remove"
          /\ outcome' = Faulty("none") /\ UNCHANGED <<args, isNew>>
       \/ pc = "rb_remove" /\ Exit(Faulty("error"))
    /\ UNCHANGED <<machine, inside, runs, died, misread>>

\* legacy_install_created_account cannot read setup.json, or make sense of it,
\* and answers no: uninstall goes on, and passes by an account that setup.json
\* claims.
FailLegacyRead ==
    /\ Hit
    /\ pc = "load" /\ pc' = "vault"
    /\ disk.vault.state = "ok" /\ ~disk.vault.created /\ disk.legacy # "absent"
    /\ misread' = IF Created THEN misread \cup {disk.vault.name} ELSE misread
    /\ outcome' = Faulty("none")
    /\ UNCHANGED <<machine, inside, args, isNew, runs, died>>

\* Does the step make a call whose failure `?' returns?
Returns ==
    \/ pc \in {"makedir", "secure", "unhide", "delete"}
    \/ pc \in {"check", "load"} /\ disk.vault.state = "ok"
    \/ pc \in {"adduser", "addadmin", "hide", "seal", "create", "write"} \ RollsBack
    \/ pc = "enroll" /\ args.enroll /\ ~isNew
    \/ pc \in DOMAIN Gone /\ disk[pc] # Gone[pc]

FailAndReturn ==
    /\ Hit /\ Returns
    /\ Exit(Faulty("error"))
    /\ LeavesEnrollment
    /\ UNCHANGED <<inside, runs, died, misread>>

\* otpuac-setup dies, or the machine goes down.
Crash ==
    /\ Crashes /\ Hit
    /\ pc # "idle"
    /\ died' = TRUE
    /\ Exit(Faulty("died"))
    /\ LeavesEnrollment
    /\ UNCHANGED <<inside, runs, misread>>
-----------------------------------------------------------------------------
(* The rest of the machine.                                                *)

\* unlock() has read the guard and the vault and decides.
PromptDecides ==
    /\ ~inside /\ disk.vault.state = "ok"
    /\ inside' = TRUE
    /\ outcome' = [outcome EXCEPT !.raced = pc # "idle" \/ @]
    /\ UNCHANGED <<machine, proc, runs, faults, died, misread>>

\* It writes guard.json, also when the vault is gone by then, unless the
\* directory is; other prompts may still be inside.
PromptWritesGuard ==
    /\ inside /\ disk.dir
    /\ Write("guard", TRUE)
    /\ inside' \in BOOLEAN
    /\ UNCHANGED <<proc, runs, faults, died, misread, outcome>>

\* It fails or is closed before it does.
PromptLeaves ==
    /\ inside /\ inside' = FALSE
    /\ UNCHANGED <<machine, proc, runs, faults, died, misread, outcome>>

\* An administrator deletes an account, or makes one under a name that the
\* vault does not use.
AdministratorEdits(n) ==
    /\ Edits
    /\ pc = "idle"
    /\ account' = [account EXCEPT ![n] = IF @ = "absent" THEN "foreign" ELSE "absent"]
    /\ account[n] = "absent" => disk.vault.name # n
    /\ UNCHANGED <<password, hidden, disk, inside, proc, runs, faults, died, misread,
                   outcome>>

InstallStep ==
    \/ Validate \/ MakeDir \/ SecureDir \/ Adopt \/ RefuseTornVault \/ Provision
    \/ CreateUser \/ AddAdmin \/ Hide \/ Seal \/ CreateVault \/ WriteVault \/ Enroll
    \/ RollbackUnhide \/ RollbackDelete \/ RollbackRemove

UninstallStep ==
    \/ Load \/ Unhide \/ DeleteAccount
    \/ RemoveFile("vault", "guard") \/ RemoveFile("guard", "legacy")
    \/ RemoveFile("legacy", "state") \/ RemoveFile("state", "rmdir")
    \/ RemoveDir

\* What goes on by itself: the command that runs, its faults, and prompts.
Goes ==
    \/ InstallStep \/ UninstallStep
    \/ FailIntoRollback \/ FailInRollback \/ FailLegacyRead \/ FailAndReturn \/ Crash
    \/ PromptDecides \/ PromptWritesGuard \/ PromptLeaves

\* What somebody starts.
Command == Uninstall \/ \E n \in Names \cup {BadName}, e \in BOOLEAN : Install(n, e)

Next == Goes \/ Command \/ \E n \in Names : AdministratorEdits(n)

Spec == Init /\ [][Next]_vars
-----------------------------------------------------------------------------
(* Properties. *)

\* No command ever touches an account it did not make: not an install that is
\* given the name of an existing account, and not the rollback after it
\* (account.rs:70-74, install.rs:85, 100-104).
ForeignUntouched ==
    [][\A n \in Names :
          pc # "idle" /\ account[n] = "foreign" => account'[n] = "foreign"]_vars

\* An install that finds a vault keeps the account, its password and the vault,
\* also when it fails later on (install.rs:28-41; README.md:57-58).
AdoptKeeps ==
    [][pc # "idle" /\ outcome.cmd = "install" /\ outcome.vault.state = "ok" =>
          UNCHANGED <<account, password, hidden, disk.vault>>]_vars

\* A fresh install that reports success has made an administrator, hidden it,
\* and left its own password and secret in the vault and in the enrollment
\* file that was asked for (install.rs:18-45, 76-98).
FreshInstallComplete ==
    [][pc = "enroll" /\ outcome'.result = "ok" /\ isNew =>
          /\ disk'.vault.name = outcome.name
          /\ account'[outcome.name] = "admin" /\ outcome.name \in hidden'
          /\ password'[outcome.name] = disk'.vault.serial
          /\ outcome.enroll => disk'.enrollment = disk'.vault.serial]_vars

\* What a command may be expected to cope with: one call failed so far.
OneFailure == faults <= 1 /\ ~died

\* When no command runs, every administrator OTPUAC made is the one in the
\* vault: no single call that fails in install or uninstall leaves an
\* administrator that a later uninstall does not know of (install.rs:34-41,
\* 47-56, 94-104).  The one call of which this is not true is the read of
\* OTPUAC 1.0's setup.json (install.rs:120-123).
NoOrphanAdmin ==
    OneFailure /\ pc = "idle" =>
        \A n \in Names : account[n] = "admin" =>
            (disk.vault.state = "ok" /\ disk.vault.name = n) \/ n \in misread

\* A successful uninstall leaves none of the files OTPUAC writes, and neither
\* the account in the vault nor its hidden mark, if setup made it, be it this
\* version or OTPUAC 1.0, whose setup.json it could read.  Only a prompt that was
\* inside unlock() meanwhile can have put back a guard.json, and nothing but
\* that (install.rs:47-74, unlock.rs:13-38).
UninstallCleans ==
    pc = "idle" /\ outcome.cmd = "uninstall" /\ outcome.result = "ok" =>
        /\ \A f \in DOMAIN Gone : disk[f] = Gone[f] \/ (f = "guard" /\ outcome.raced)
        /\ outcome.made =>
              \/ ~Made(outcome.vault.name) /\ outcome.vault.name \notin hidden
              \/ outcome.vault.name \in misread

\* Uninstall reports an error only when one of its own calls failed: what an
\* earlier command left behind does not stop it, so "uninstalling and
\* reinstalling" is a way to recover (docs/security-model.md:45-50).
UninstallFailsOnlyByFault ==
    outcome.cmd = "uninstall" /\ outcome.result = "error" => outcome.faulty

\* The same after any one failed call: no single call that fails in an install
\* or an uninstall leaves a machine that cannot be uninstalled
\* (install.rs:47-74, 94-104).
UninstallGetsPastFailure == OneFailure => UninstallFailsOnlyByFault

\* After a successful uninstall no account that setup made is left, but for one
\* claimed by a setup.json that could not be read ("deletes the managed local
\* administrator account when setup created it", docs/installation.md:84-85;
\* "Delete the managed administrator setup created",
\* otpuac-setup/src/main.rs:40).
UninstallDeletesMade ==
    pc = "idle" /\ outcome.cmd = "uninstall" /\ outcome.result = "ok" =>
        \A n \in Names \ misread : ~Made(n)

\* After a successful install the account in the vault exists ("Create the
\* managed administrator and its vault, or keep an existing one",
\* otpuac-setup/src/main.rs:24).
InstallMeansAccount ==
    [][pc = "enroll" /\ outcome'.result = "ok" =>
          account'[disk'.vault.name] # "absent"]_vars
=============================================================================
