----------------------------- MODULE Installer -----------------------------
(***************************************************************************)
(* The MSI (installer/otpuac.wxs) around otpuac-setup: first install,      *)
(* major upgrade, repair and removal, each a transaction of Windows        *)
(* Installer of which any step may fail, and otpuac-setup run by hand in   *)
(* between.  Windows Installer takes back the program files and registry   *)
(* values of a failed transaction by itself; accounts and                  *)
(* ProgramData\OTPUAC are touched only by its custom actions, and those    *)
(* are commands of Setup.                                                  *)
(***************************************************************************)
EXTENDS Setup

CONSTANTS
    ByHand,         \* TRUE: an administrator runs otpuac-setup too
    MaxVersion      \* bound: versions of the product are 1 .. MaxVersion

ASSUME InstallerAssumption == ByHand \in BOOLEAN /\ MaxVersion \in Nat \ {0}

VARIABLES
    product,    \* the version Windows lists as installed, 0 for none
    msi         \* the transaction: its kind, the action it has come to, the version
                \* it brings; history: its result, and what it found: the vault, did
                \* setup make the account in it, OTPUAC's administrators, hidden names

allVars == <<vars, product, msi>>

Actions == {"RemoveOld", "cleanup", "RemoveFiles", "InstallFiles", "provision",
            "WriteRegistryValues", "rollback", "undo"}

Administrators == {n \in Names : account[n] = "admin"}

NoTransaction == [kind |-> "none", at |-> "none", version |-> 0, result |-> "none",
                  vault |-> NoVault, made |-> FALSE, admins |-> {}, hidden |-> {}]

InstallerTypeOK ==
    /\ TypeOK
    /\ product \in 0 .. MaxVersion
    /\ msi \in [kind : {"none", "hand", "first", "upgrade", "repair", "remove"},
                at : {"none"} \cup Actions, version : 0 .. MaxVersion,
                result : {"none", "done", "failed"}, vault : Vaults, made : BOOLEAN,
                admins : SUBSET Names, hidden : SUBSET Names]
    /\ pc # "idle" => msi.at \in {"none", "cleanup", "provision", "undo"}

\* OTPUAC 1.0, where it is on the machine, came as version 1.
InstallerInit ==
    /\ Init
    /\ product = IF disk.vault.state = "ok" THEN 1 ELSE 0
    /\ msi = NoTransaction
-----------------------------------------------------------------------------
Idle == pc = "idle" /\ msi.at = "none"

Open(kind, version, first) ==
    /\ Idle
    /\ msi' = [kind |-> kind, at |-> first, version |-> version, result |-> "none",
               vault |-> disk.vault, made |-> Created, admins |-> Administrators,
               hidden |-> hidden]
    /\ UNCHANGED <<vars, product>>

\* The next action of the transaction, after one that runs no command.
Then(from, to) ==
    /\ msi.at = from
    /\ msi' = [msi EXCEPT !.at = to]
    /\ UNCHANGED vars

\* The transaction ends.
Close(result) == msi' = [msi EXCEPT !.at = "none", !.result = result]

\* Not installed, and no older version found (NOT WIX_UPGRADE_DETECTED).
FirstInstall(v) == product = 0 /\ Open("first", v, "InstallFiles")

\* MajorUpgrade: an older version is removed before the new one is installed,
\* in a transaction of its own; a newer one is left alone.
Upgrade(v) == product \in 1 .. v - 1 /\ Open("upgrade", v, "RemoveOld")

Repair == product > 0 /\ Open("repair", product, "InstallFiles")

Remove == product > 0 /\ Open("remove", product, "RemoveOld")

\* Mutant: removal by an upgrade cleans up as well.
CleansUpAlways == TRUE

\* REMOVE~="ALL" AND NOT UPGRADINGPRODUCTCODE.
CleansUp == msi.kind # "upgrade"

OtpuacCleanup ==
    /\ msi.at = "RemoveOld" /\ CleansUp
    /\ msi' = [msi EXCEPT !.at = "cleanup"]
    /\ Uninstall
    /\ UNCHANGED product

NoCleanup == ~CleansUp /\ Then("RemoveOld", "RemoveFiles") /\ UNCHANGED product

\* Mutant: the result of OtpuacCleanup is ignored.
CleanupIgnored == pc = "idle" /\ Then("cleanup", "RemoveFiles") /\ UNCHANGED product

\* Return="check": an error ends the transaction, and the product stays.
CleanupReturns ==
    /\ msi.at = "cleanup" /\ pc = "idle"
    /\ \/ outcome.result = "ok" /\ Then("cleanup", "RemoveFiles")
       \/ outcome.result # "ok" /\ Close("failed") /\ UNCHANGED vars
    /\ UNCHANGED product

RemoveFiles ==
    /\ msi.at = "RemoveFiles"
    /\ product' = 0
    /\ \/ msi.kind = "upgrade" /\ Then("RemoveFiles", "InstallFiles")
       \/ msi.kind = "remove" /\ Close("done") /\ UNCHANGED vars

\* Mutant: the condition is the wrong way round.
QueuesRollbackSwapped == msi.kind # "first"

\* NOT Installed AND NOT WIX_UPGRADE_DETECTED.
QueuesRollback == msi.kind = "first"

\* NOT REMOVE~="ALL": also an upgrade and a repair run install, to adopt.
OtpuacProvision(name, enroll) ==
    /\ msi.at = "InstallFiles"
    /\ msi' = [msi EXCEPT !.at = "provision"]
    /\ Install(name, enroll)
    /\ UNCHANGED product

\* The transaction fails; what it has done is taken back, in which the queued
\* rollback action has its turn.
Fail ==
    IF QueuesRollback THEN msi' = [msi EXCEPT !.at = "rollback"] ELSE Close("failed")

\* Mutant: the result of OtpuacProvision is ignored.
ProvisionIgnored ==
    pc = "idle" /\ Then("provision", "WriteRegistryValues") /\ UNCHANGED product

\* Return="check".
ProvisionReturns ==
    /\ msi.at = "provision" /\ pc = "idle"
    /\ \/ outcome.result = "ok" /\ Then("provision", "WriteRegistryValues")
       \/ outcome.result # "ok" /\ Fail /\ UNCHANGED vars
    /\ UNCHANGED product

\* The registry values, the registration of the product and the commit.
InstallFinalize ==
    /\ msi.at = "WriteRegistryValues"
    /\ product' = msi.version
    /\ Close("done")
    /\ UNCHANGED vars

OtpuacProvisionRollback ==
    /\ msi.at = "rollback"
    /\ msi' = [msi EXCEPT !.at = "undo"]
    /\ Uninstall
    /\ UNCHANGED product

\* Return="ignore".
RollbackReturns ==
    /\ msi.at = "undo" /\ pc = "idle"
    /\ Close("failed")
    /\ UNCHANGED <<vars, product>>

\* One of Windows Installer's own actions fails, or the user cancels.
StandardActionFails ==
    /\ Hit
    /\ \/ msi.at \in {"RemoveOld", "RemoveFiles", "InstallFiles"} /\ Close("failed")
       \/ msi.at = "WriteRegistryValues" /\ Fail
    /\ UNCHANGED <<machine, inside, proc, runs, died, misread, outcome, product>>

Transaction ==
    \/ \E v \in 1 .. MaxVersion : FirstInstall(v) \/ Upgrade(v)
    \/ Repair \/ Remove
    \/ OtpuacCleanup \/ NoCleanup \/ CleanupReturns \/ RemoveFiles
    \/ \E n \in Names \cup {BadName}, e \in BOOLEAN : OtpuacProvision(n, e)
    \/ ProvisionReturns \/ InstallFinalize
    \/ OtpuacProvisionRollback \/ RollbackReturns
    \/ StandardActionFails

\* otpuac-setup from a command line, when no transaction is open.
CommandByHand ==
    /\ ByHand /\ Idle
    /\ Command
    /\ msi' = [NoTransaction EXCEPT !.kind = "hand"]
    /\ UNCHANGED product

InstallerNext ==
    \/ Transaction
    \/ CommandByHand
    \/ Goes /\ UNCHANGED <<product, msi>>
    \/ Idle /\ \E n \in Names : AdministratorEdits(n) /\ UNCHANGED <<product, msi>>

InstallerSpec == InstallerInit /\ [][InstallerNext]_allVars
-----------------------------------------------------------------------------
(* Properties. *)

\* An upgrade or a repair, whether it ends well or fails at any step, keeps the
\* managed accounts, their passwords, the vault and what guard.json records
\* ("Upgrading to a newer MSI keeps the managed account and vault",
\* docs/installation.md:85-86; "Upgrades and repairs keep the existing vault",
\* installer/OtpuacUI.wxs:9-10).
UpgradeKeeps ==
    [][msi.kind \in {"upgrade", "repair"} /\ ~Idle /\ msi.vault.state = "ok" =>
          /\ UNCHANGED <<account, password, hidden, disk.vault>>
          /\ disk.guard => disk'.guard]_allVars

\* A first install of a machine without a vault that failed by one failure has
\* left neither a vault nor an administrator nor a hidden name that was not
\* there before (otpuac.wxs:120-127, 144-147; install.rs:34-41, 94-104).
FailedInstallUndone ==
    OneFailure /\ msi.kind = "first" /\ msi.result = "failed" /\ msi.vault.state = "absent" =>
        /\ disk.vault.state = "absent"
        /\ Administrators \subseteq msi.admins
        /\ hidden \subseteq msi.hidden

\* Windows lists a version as installed only with a vault that can be read, made
\* by this transaction or an earlier one (Return="check", otpuac.wxs:112-119).
InstalledMeansVault ==
    [][product' \notin {product, 0} => disk.vault.state = "ok"]_allVars

\* A removal that Windows reports as done has deleted OTPUAC's data, but for the
\* guard.json of a prompt that was inside unlock() meanwhile, and the account if
\* setup made it; after at most one failure there is no administrator of OTPUAC
\* left at all.  Both but for the account that only OTPUAC 1.0's setup.json
\* claims, when it could not be read (docs/installation.md:84-85;
\* otpuac.wxs:128-135, 155-158; install.rs:120-123).
RemovalCleans ==
    msi.kind = "remove" /\ msi.result = "done" =>
        /\ product = 0
        /\ \A f \in DOMAIN Gone : disk[f] = Gone[f] \/ (f = "guard" /\ outcome.raced)
        /\ msi.made =>
              \/ ~Made(msi.vault.name) /\ msi.vault.name \notin hidden
              \/ msi.vault.name \in misread
        /\ OneFailure => Administrators \subseteq misread

\* A first install keeps the vault that setup made before, whether it ends well
\* or fails ("Undoes a fresh provision if a later step of the same install
\* fails", installer/otpuac.wxs:120).
RollbackSparesAdopted ==
    [][msi.kind = "first" /\ ~Idle /\ msi.vault.created => UNCHANGED disk.vault]_allVars
=============================================================================
