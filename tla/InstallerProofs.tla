-------------------------- MODULE InstallerProofs --------------------------
(***************************************************************************)
(* Theorems about otpuac-setup and the MSI around it, for any account      *)
(* names, any number of commands, versions and faults.                     *)
(***************************************************************************)
EXTENDS Installer, TLAPS

USE SetupAssumption, InstallerAssumption
-----------------------------------------------------------------------------
(* The inductive invariant. *)

\* A command in progress is the one on record, and is_new is local to install.
CommandInv ==
    /\ pc \in InstallSteps =>
          /\ outcome.cmd = "install"
          /\ outcome.name = args.name /\ outcome.enroll = args.enroll
    /\ pc \in UninstallSteps => outcome.cmd = "uninstall"
    /\ pc # "idle" => outcome.result = "none"
    /\ isNew => pc \in {"enroll", "rb_unhide", "rb_delete", "rb_remove"}

\* Steps after provisioning has made the user, and those after each call.
AfterUser  == {"addadmin", "hide", "seal", "create", "write"}
AfterAdmin == AfterUser \ {"addadmin"}
AfterHide  == AfterAdmin \ {"hide"}
Rollback   == {"rb_unhide", "rb_delete", "rb_remove"}

\* What the vault says of the account it names; the account may be gone.
VaultInv ==
    /\ disk.vault.state = "ok" => disk.vault.name \in Names
    /\ disk.vault.state # "ok" => disk.vault.name = BadName /\ ~disk.vault.created
    /\ disk.vault.state = "absent" => disk.vault = NoVault
    /\ Created => account[disk.vault.name] # "foreign"
    /\ disk.vault.state = "ok" /\ ~Created => account[disk.vault.name] \in {"foreign", "absent"}

\* Where a command stands, and what it has found and made by then.
InstallInv ==
    /\ pc \in {"validate", "makedir", "secure", "check"} => disk.vault = outcome.vault
    /\ pc \in InstallSteps /\ outcome.vault.state = "ok" =>
          pc \in {"validate", "makedir", "secure", "check", "enroll"} /\ ~isNew
    /\ pc \in AfterUser \cup Rollback \/ (pc = "enroll" /\ isNew) =>
          account[args.name] # "foreign"
    /\ pc \in ({"adduser"} \cup AfterUser) \ {"write"} => disk.vault.state = "absent"
    /\ pc = "write" => disk.vault.state = "torn"
    /\ pc = "enroll" => disk.vault.state = "ok" /\ (isNew \/ outcome.vault.state = "ok")
    /\ pc \in Rollback /\ disk.vault.state = "ok" => disk.vault.name = args.name
    /\ pc \in AfterUser \/ (pc = "enroll" /\ isNew) => password[args.name] = runs
    /\ pc \in AfterAdmin \/ (pc = "enroll" /\ isNew) => account[args.name] = "admin"
    /\ pc \in AfterHide \/ (pc = "enroll" /\ isNew) => args.name \in hidden
    /\ pc = "enroll" /\ isNew => disk.vault.name = args.name /\ disk.vault.serial = runs
    /\ pc = "idle" /\ outcome.cmd = "install" /\ outcome.result = "ok" => disk.vault.state = "ok"

\* What uninstall has removed by each of its steps.
UninstallInv ==
    /\ pc = "load" => (outcome.made <=> Created)
    /\ pc \in {"unhide", "delete"} => Created
    /\ pc \in {"load", "unhide", "delete", "vault"} => disk.vault = outcome.vault
    /\ pc \in UninstallSteps /\ inside => outcome.raced
    /\ pc \in {"guard", "legacy", "state", "rmdir"} => disk.vault = NoVault
    /\ pc \in {"legacy", "state", "rmdir"} => ~disk.guard \/ outcome.raced
    /\ pc \in {"state", "rmdir"} => disk.legacy = "absent"
    /\ pc = "rmdir" => ~disk.state
    /\ pc \in UninstallSteps \ {"load", "unhide"} /\ outcome.made =>
          outcome.vault.name \notin hidden \/ outcome.vault.name \in misread
    /\ pc \in UninstallSteps \ {"load", "unhide", "delete"} /\ outcome.made =>
          ~Made(outcome.vault.name) \/ outcome.vault.name \in misread
    /\ pc = "idle" /\ outcome.cmd = "uninstall" /\ outcome.result = "ok" /\ inside =>
          outcome.raced

\* What there can be after at most one failed call.  An administrator that only
\* setup.json claims is passed by when that file cannot be read.
OneFailureInv ==
    OneFailure =>
        /\ disk.vault.state = "torn" => pc = "write" \/ pc \in Rollback
        /\ pc \in Rollback => faults = 1
        /\ pc = "rb_remove" => account[args.name] # "admin"
        /\ pc = "vault" /\ disk.vault.state = "ok" =>
              \/ account[disk.vault.name] # "admin"
              \/ disk.vault.name \in misread /\ ~disk.vault.created
        /\ \A n \in Names : account[n] = "admin" =>
              \/ disk.vault.state = "ok" /\ disk.vault.name = n
              \/ n \in misread
              \/ pc \in AfterAdmin \cup Rollback /\ args.name = n

SetupInv ==
    TypeOK /\ CommandInv /\ VaultInv /\ InstallInv /\ UninstallInv /\ UninstallCleans
    /\ OneFailureInv /\ UninstallGetsPastFailure

\* Which transaction can have come to which of its actions.
TransactionInv ==
    /\ msi.kind \in {"none", "hand"} => msi.at = "none"
    /\ msi.at = "none" /\ pc # "idle" => msi.kind = "hand"
    /\ msi.at \in {"RemoveOld", "RemoveFiles"} => msi.kind \in {"upgrade", "remove"}
    /\ msi.at = "cleanup" => msi.kind = "remove"
    /\ msi.at \in {"InstallFiles", "provision", "WriteRegistryValues"} =>
          msi.kind \in {"first", "upgrade", "repair"}
    /\ msi.at \in {"rollback", "undo"} => msi.kind = "first"
    /\ msi.at \in {"cleanup", "undo"} => outcome.cmd = "uninstall"
    /\ msi.at \in {"provision", "WriteRegistryValues"} => outcome.cmd = "install"
    /\ msi.at = "WriteRegistryValues" => outcome.result = "ok"
    /\ msi.at # "none" => msi.result = "none"

\* An upgrade or a repair finds the vault where it was when it began.
KeepInv ==
    msi.kind \in {"upgrade", "repair"} /\ msi.at # "none" /\ msi.vault.state = "ok" =>
        /\ disk.vault = msi.vault
        /\ msi.at = "provision" => outcome.vault = msi.vault

\* A first install that finds no vault, and meets one failure at most, has made the
\* vault that there is, and no administrator but the one in it, and hidden
\* nobody else.
UndoInv ==
    OneFailure /\ msi.kind = "first" /\ msi.vault.state = "absent" =>
        /\ msi.at = "InstallFiles" => disk.vault.state = "absent"
        /\ msi.at = "provision" /\ pc # "idle" => outcome.vault.state = "absent"
        /\ msi.at = "provision" /\ pc = "idle" /\ outcome.result # "ok" =>
              disk.vault.state = "absent"
        /\ msi.at # "none" /\ disk.vault.state = "ok" => disk.vault.created
        /\ msi.at \in {"rollback", "undo"} /\ disk.vault.state # "absent" => faults = 1
        /\ msi.at = "undo" /\ pc = "idle" => disk.vault.state = "absent"
        /\ msi.at = "none" /\ msi.result = "failed" => disk.vault.state = "absent"
        /\ \A n \in hidden \ msi.hidden :
              \/ /\ disk.vault.state = "ok" /\ n = disk.vault.name
                 /\ pc \notin Rollback \cup {"delete", "vault"}
              \/ msi.at = "provision" /\ pc \in AfterHide \cup {"rb_unhide"} /\ n = args.name
        /\ \A n \in Names \ msi.admins : account[n] = "admin" =>
              \/ disk.vault.state = "ok" /\ n = disk.vault.name
              \/ pc \in AfterAdmin \cup Rollback /\ n = args.name

\* A removal runs uninstall on the vault it began with, and goes on when that succeeded.
RemovalInv ==
    msi.kind = "remove" =>
        /\ msi.at = "RemoveOld" => disk.vault = msi.vault /\ (Created <=> msi.made)
        /\ msi.at = "cleanup" => outcome.vault = msi.vault /\ (outcome.made <=> msi.made)
        /\ msi.at = "RemoveFiles" \/ msi.result = "done" =>
              /\ pc = "idle" /\ outcome.cmd = "uninstall" /\ outcome.result = "ok"
              /\ outcome.vault = msi.vault /\ (outcome.made <=> msi.made)
        /\ msi.result = "done" => product = 0

IInv == InstallerTypeOK /\ SetupInv /\ TransactionInv /\ KeepInv /\ UndoInv /\ RemovalInv
-----------------------------------------------------------------------------
(* What the calls leave. *)

\* What writing one file leaves of the disk.
LEMMA WriteVaultFile ==
  ASSUME disk \in Disks, NEW v \in Vaults, Write("vault", v)
  PROVE  /\ disk' \in Disks /\ disk'.vault = v
         /\ disk'.guard = disk.guard /\ disk'.legacy = disk.legacy /\ disk'.state = disk.state
  BY DEF Disks, Write

\* ... when it is another file than the vault.
LEMMA WriteOtherFile ==
  ASSUME disk \in Disks, NEW f \in {"dir", "guard", "state", "legacy", "enrollment"}, NEW v,
         \/ f \in {"dir", "guard", "state"} /\ v \in BOOLEAN
         \/ f = "legacy" /\ v = "absent"
         \/ f = "enrollment" /\ v \in Nat,
         Write(f, v)
  PROVE  /\ disk' \in Disks /\ disk'.vault = disk.vault
         /\ \A g \in {"dir", "guard", "state", "legacy", "enrollment"} :
               disk'[g] = IF g = f THEN v ELSE disk[g]
  <1>1. CASE f = "dir" BY <1>1 DEF Disks, Write
  <1>2. CASE f = "guard" BY <1>2 DEF Disks, Write
  <1>3. CASE f = "state" BY <1>3 DEF Disks, Write
  <1>4. CASE f = "legacy" BY <1>4 DEF Disks, Write
  <1>5. CASE f = "enrollment" BY <1>5 DEF Disks, Write
  <1>6. QED BY <1>1, <1>2, <1>3, <1>4, <1>5

\* What a failing enrollment file, or a death, leaves of the machine.
LEMMA EnrollmentLeft ==
  ASSUME disk \in Disks, LeavesEnrollment
  PROVE  /\ UNCHANGED <<account, password, hidden>>
         /\ disk' \in Disks /\ disk'.vault = disk.vault /\ disk'.dir = disk.dir
         /\ disk'.guard = disk.guard /\ disk'.legacy = disk.legacy /\ disk'.state = disk.state
  <1>1. CASE UNCHANGED machine BY <1>1 DEF machine
  <1>2. CASE pc = "enroll" /\ Write("enrollment", 0)
    <2>1. UNCHANGED <<account, password, hidden>> BY <1>2 DEF Write
    <2>2. QED BY <1>2, <2>1, WriteOtherFile
  <1>3. QED BY <1>1, <1>2 DEF LeavesEnrollment

\* What the end of an install leaves of the machine.
LEMMA Enrolled ==
  ASSUME disk \in Disks, Enroll
  PROVE  /\ UNCHANGED <<account, password, hidden>>
         /\ disk' \in Disks /\ disk'.vault = disk.vault /\ disk'.dir = disk.dir
         /\ disk'.guard = disk.guard /\ disk'.legacy = disk.legacy /\ disk'.state = disk.state
         /\ disk'.enrollment = IF args.enroll THEN disk.vault.serial ELSE disk.enrollment
  <1>1. UNCHANGED <<account, password, hidden>> BY DEF Enroll, Write
  <1>2. (IF args.enroll THEN disk.vault.serial ELSE disk.enrollment) \in Nat
    BY DEF Disks, Vaults
  <1>3. QED BY <1>1, <1>2, WriteOtherFile DEF Enroll

\* What removing the directory, or trying to, leaves of it.
LEMMA DirRemoved ==
  ASSUME disk \in Disks, RemoveDir
  PROVE  /\ UNCHANGED <<account, password, hidden>>
         /\ disk' \in Disks /\ disk'.vault = disk.vault /\ disk'.guard = disk.guard
         /\ disk'.legacy = disk.legacy /\ disk'.state = disk.state
  <1>1. PICK left \in {disk.dir, FALSE} : Write("dir", left)
    BY DEF RemoveDir
  <1>2. UNCHANGED <<account, password, hidden>> BY <1>1 DEF Write
  <1>3. left \in BOOLEAN BY <1>1 DEF Disks
  <1>4. QED BY <1>1, <1>2, <1>3, WriteOtherFile

\* What the loop of uninstall leaves of the files.
LEMMA FileRemoved ==
  ASSUME disk \in Disks, NEW f \in {"guard", "legacy", "state"}, NEW next, RemoveFile(f, next)
  PROVE  /\ UNCHANGED <<account, password, hidden>>
         /\ disk' \in Disks /\ disk'.vault = disk.vault /\ disk'.dir = disk.dir
         /\ disk'.guard = IF f = "guard" THEN FALSE ELSE disk.guard
         /\ disk'.legacy = IF f = "legacy" THEN "absent" ELSE disk.legacy
         /\ disk'.state = IF f = "state" THEN FALSE ELSE disk.state
  <1>1. Write(f, Gone[f]) /\ Gone["guard"] = FALSE /\ Gone["legacy"] = "absent"
        /\ Gone["state"] = FALSE
    BY DEF RemoveFile, Gone
  <1>2. UNCHANGED <<account, password, hidden>> BY <1>1 DEF Write
  <1>3. /\ f \in {"dir", "guard", "state", "legacy", "enrollment"}
        /\ \/ f \in {"dir", "guard", "state"} /\ Gone[f] \in BOOLEAN
           \/ f = "legacy" /\ Gone[f] = "absent"
           \/ f = "enrollment" /\ Gone[f] \in Nat
    BY <1>1
  <1>4. /\ disk' \in Disks /\ disk'.vault = disk.vault
        /\ \A g \in {"dir", "guard", "state", "legacy", "enrollment"} :
              disk'[g] = IF g = f THEN Gone[f] ELSE disk[g]
    BY <1>1, <1>3, WriteOtherFile
  <1>5. disk'.dir = disk.dir
    BY <1>4
  <1>6. disk'.guard = IF f = "guard" THEN FALSE ELSE disk.guard
    BY <1>1, <1>4
  <1>7. disk'.legacy = IF f = "legacy" THEN "absent" ELSE disk.legacy
    BY <1>1, <1>4
  <1>8. disk'.state = IF f = "state" THEN FALSE ELSE disk.state
    BY <1>1, <1>4
  <1>9. QED BY <1>2, <1>4, <1>5, <1>6, <1>7, <1>8

\* ... and its first file, the vault.
LEMMA VaultRemoved ==
  ASSUME disk \in Disks, Write("vault", NoVault)
  PROVE  /\ UNCHANGED <<account, password, hidden>>
         /\ disk' \in Disks /\ disk'.vault = NoVault
         /\ disk'.guard = disk.guard /\ disk'.legacy = disk.legacy /\ disk'.state = disk.state
  <1>1. UNCHANGED <<account, password, hidden>> BY DEF Write
  <1>2. QED BY <1>1, WriteVaultFile DEF NoVault, Vaults

\* What a prompt's write leaves.
LEMMA GuardWritten ==
  ASSUME disk \in Disks, PromptWritesGuard
  PROVE  /\ UNCHANGED <<account, password, hidden>>
         /\ disk' \in Disks /\ disk'.vault = disk.vault /\ disk'.guard = TRUE
         /\ disk'.legacy = disk.legacy /\ disk'.state = disk.state
  <1>1. UNCHANGED <<account, password, hidden>> BY DEF PromptWritesGuard, Write
  <1>2. QED BY <1>1, WriteOtherFile DEF PromptWritesGuard

\* The values that setup writes to vault.json.
LEMMA VaultsTyped ==
  /\ NoVault \in Vaults /\ [NoVault EXCEPT !.state = "torn"] \in Vaults
  /\ \A n \in Names, s \in Nat, c \in BOOLEAN :
        [state |-> "ok", name |-> n, serial |-> s, created |-> c] \in Vaults
  BY DEF NoVault, Vaults

\* The initial states have the types.
LEMMA TypesInit == Init => TypeOK
  <1> SUFFICES ASSUME Init PROVE TypeOK
    OBVIOUS
  <1>1. disk \in Disks
    <2>1. CASE disk = [dir |-> FALSE, vault |-> NoVault, guard |-> FALSE, state |-> FALSE,
                       legacy |-> "absent", enrollment |-> 0]
      BY <2>1, VaultsTyped DEF Disks
    <2>2. CASE \E n \in Names, claim \in {"claims", "denies"} :
                 disk = [dir |-> TRUE, guard |-> FALSE, state |-> TRUE, legacy |-> claim,
                         vault |-> [state |-> "ok", name |-> n, serial |-> 0,
                         created |-> FALSE],
                         enrollment |-> 0]
      BY <2>2 DEF Disks, Vaults
    <2>3. QED BY <2>1, <2>2 DEF Init
  <1>2. outcome \in Outcomes
    BY VaultsTyped DEF Init, Clean, Outcomes
  <1>3. account \in [Names -> Kinds]
    BY DEF Init, Kinds
  <1>4. QED BY <1>1, <1>2, <1>3 DEF Init, TypeOK, NoArgs, InstallSteps

\* What is put on record has the type of a record.
LEMMA OutcomeTyped ==
  ASSUME outcome \in Outcomes
  PROVE  /\ \A r \in {"none", "ok", "error", "died"} :
               /\ [outcome EXCEPT !.result = r] \in Outcomes
               /\ Faulty(r) \in Outcomes
         /\ \A b \in BOOLEAN : [outcome EXCEPT !.raced = b] \in Outcomes
  BY DEF Outcomes, Faulty

\* A process that ends leaves the types as they are.
LEMMA ExitTyped ==
  ASSUME NEW end \in Outcomes, Exit(end)
  PROVE  /\ pc' = "idle" /\ isNew' \in BOOLEAN /\ outcome' \in Outcomes
         /\ args' \in [cmd : {"none", "install", "uninstall"}, name : Names \cup {BadName},
                       enroll : BOOLEAN]
  BY DEF Exit, NoArgs

\* Faults are a count.
LEMMA HitTyped == faults \in Nat /\ Hit => faults' \in Nat
  BY DEF Hit

\* Every step of Setup keeps the types.
LEMMA TypesNext == TypeOK /\ [Next]_vars => TypeOK'
  <1> SUFFICES ASSUME TypeOK, [Next]_vars PROVE TypeOK'
    OBVIOUS
  <1> USE DEF TypeOK, Kinds, InstallSteps, UninstallSteps, Step, machine, proc
  <1>1. CASE InstallStep
    <2> USE OutcomeTyped, VaultsTyped DEF Return, Exit, NoArgs
    <2>1. CASE Validate
      <3>1. CASE args.name \in Names /\ Step("validate", "makedir")
        BY <2>1, <3>1 DEF Validate
      <3>2. CASE pc = "validate" /\ Return("error")
        BY <2>1, <3>2 DEF Validate
      <3>3. QED BY <2>1, <3>1, <3>2 DEF Validate
    <2>2. CASE MakeDir
      <3>1. disk' \in Disks
        BY <2>2, WriteOtherFile DEF MakeDir
      <3>2. UNCHANGED <<account, password, hidden>>
        BY <2>2 DEF MakeDir, Write
      <3>3. QED BY <2>2, <3>1, <3>2 DEF MakeDir
    <2>3. CASE SecureDir BY <2>3 DEF SecureDir
    <2>4. CASE Adopt BY <2>4 DEF Adopt
    <2>5. CASE RefuseTornVault BY <2>5 DEF RefuseTornVault
    <2>6. CASE Provision BY <2>6 DEF Provision
    <2>7. CASE CreateUser
      <3>1. CASE AddUser BY <3>1 DEF AddUser
      <3>2. CASE pc = "adduser" /\ Return("error") /\ UNCHANGED machine
        BY <3>2
      <3>3. QED BY <2>7, <3>1, <3>2 DEF CreateUser
    <2>8. CASE AddAdmin BY <2>8 DEF AddAdmin
    <2>9. CASE Hide BY <2>9 DEF Hide
    <2>10. CASE Seal BY <2>10 DEF Seal
    <2>11. CASE CreateVault
      <3>1. disk' \in Disks
        BY <2>11, WriteVaultFile DEF CreateVault
      <3>2. UNCHANGED <<account, password, hidden>>
        BY <2>11 DEF CreateVault, Write
      <3>3. QED BY <2>11, <3>1, <3>2 DEF CreateVault
    <2>12. CASE WriteVault
      <3>1. disk' \in Disks
        BY <2>12, WriteVaultFile DEF WriteVault
      <3>2. UNCHANGED <<account, password, hidden>>
        BY <2>12 DEF WriteVault, Write
      <3>3. QED BY <2>12, <3>1, <3>2 DEF WriteVault
    <2>13. CASE Enroll
      <3>1. disk' \in Disks
        BY <2>13, WriteOtherFile DEF Enroll, Disks, Vaults
      <3>2. UNCHANGED <<account, password, hidden>>
        BY <2>13 DEF Enroll, Write
      <3>3. QED BY <2>13, <3>1, <3>2 DEF Enroll
    <2>14. CASE RollbackUnhide BY <2>14 DEF RollbackUnhide, UnhideName
    <2>15. CASE RollbackDelete BY <2>15 DEF RollbackDelete, DeleteName
    <2>16. CASE RollbackRemove
      <3>1. disk' \in Disks
        BY <2>16, WriteVaultFile DEF RollbackRemove
      <3>2. UNCHANGED <<account, password, hidden>>
        BY <2>16 DEF RollbackRemove, Write
      <3>3. QED BY <2>16, <3>1, <3>2 DEF RollbackRemove
    <2>17. QED BY <1>1, <2>1, <2>2, <2>3, <2>4, <2>5, <2>6, <2>7, <2>8, <2>9, <2>10, <2>11,
       <2>12, <2>13, <2>14, <2>15, <2>16 DEF InstallStep
  <1>2. CASE UninstallStep
    <2> USE OutcomeTyped DEF Return, Exit, NoArgs
    <2>1. CASE Load BY <2>1 DEF Load
    <2>2. CASE Unhide BY <2>2 DEF Unhide, UnhideName
    <2>3. CASE DeleteAccount BY <2>3 DEF DeleteAccount, DeleteName
    <2>4. CASE RemoveFile("vault", "guard")
      <3>1. disk' \in Disks
        BY <2>4, WriteVaultFile, VaultsTyped DEF RemoveFile, Gone
      <3>2. QED BY <2>4, <3>1 DEF RemoveFile, Write
    <2>5. CASE \E f \in {"guard", "legacy", "state"}, next \in {"legacy", "state", "rmdir"} :
                 RemoveFile(f, next)
      <3>1. PICK f \in {"guard", "legacy", "state"}, next \in {"legacy", "state", "rmdir"} :
               RemoveFile(f, next)
        BY <2>5
      <3>2. Write(f, Gone[f]) /\ Gone["guard"] = FALSE /\ Gone["legacy"] = "absent"
            /\ Gone["state"] = FALSE
        BY <3>1 DEF RemoveFile, Gone
      <3>3. \/ f = "legacy" /\ Write("legacy", "absent")
            \/ f = "guard" /\ Write("guard", FALSE)
            \/ f = "state" /\ Write("state", FALSE)
        BY <3>2
      <3>4. disk' \in Disks
        BY <3>3, WriteOtherFile
      <3>5. UNCHANGED <<account, password, hidden>>
        BY <3>1 DEF RemoveFile, Write
      <3>6. QED BY <3>1, <3>4, <3>5 DEF RemoveFile
    <2>6. CASE RemoveDir
      <3>1. PICK left \in {disk.dir, FALSE} : Write("dir", left)
        BY <2>6 DEF RemoveDir
      <3>2. disk' \in Disks
        BY <3>1, WriteOtherFile DEF Disks
      <3>3. UNCHANGED <<account, password, hidden>>
        BY <3>1 DEF Write
      <3>4. QED BY <2>6, <3>2, <3>3 DEF RemoveDir
    <2>7. QED BY <1>2, <2>1, <2>2, <2>3, <2>4, <2>5, <2>6 DEF UninstallStep
  <1>3. CASE FailIntoRollback \/ FailAndReturn \/ Crash
    <2>1. LeavesEnrollment
      BY <1>3 DEF FailIntoRollback, FailAndReturn, Crash
    <2>2. disk' \in Disks
      BY <2>1, WriteOtherFile DEF LeavesEnrollment
    <2>3. UNCHANGED <<account, password, hidden>>
      BY <2>1 DEF LeavesEnrollment, Write
    <2>4. CASE FailIntoRollback
      BY <2>2, <2>3, <2>4, OutcomeTyped DEF FailIntoRollback, Hit, RollsBack
    <2>5. CASE FailAndReturn
      BY <2>2, <2>3, <2>5, OutcomeTyped, ExitTyped, HitTyped DEF FailAndReturn
    <2>6. CASE Crash
      BY <2>2, <2>3, <2>6, OutcomeTyped, ExitTyped, HitTyped DEF Crash
    <2>7. QED BY <1>3, <2>4, <2>5, <2>6
  <1>4. CASE FailInRollback
    <2>1. CASE pc = "rb_remove" /\ Exit(Faulty("error"))
      BY <1>4, <2>1, OutcomeTyped, ExitTyped, HitTyped DEF FailInRollback
    <2>2. CASE pc \in {"rb_unhide", "rb_delete"}
      BY <1>4, <2>2, OutcomeTyped, HitTyped DEF FailInRollback
    <2>3. QED BY <1>4, <2>1, <2>2 DEF FailInRollback
  <1>5. CASE FailLegacyRead
    <2>1. disk.vault.name \in Names \cup {BadName}
      BY DEF Disks, Vaults
    <2>2. misread' \subseteq Names \cup {BadName}
      BY <1>5, <2>1 DEF FailLegacyRead
    <2>3. QED BY <1>5, <2>2, OutcomeTyped, HitTyped DEF FailLegacyRead
  <1>6. CASE PromptDecides
    <2>1. outcome' \in Outcomes
      BY <1>6 DEF PromptDecides, Outcomes
    <2>2. QED BY <1>6, <2>1 DEF PromptDecides
  <1>7. CASE PromptWritesGuard
    <2>1. disk' \in Disks
      BY <1>7, WriteOtherFile DEF PromptWritesGuard
    <2>2. QED BY <1>7, <2>1 DEF PromptWritesGuard, Write
  <1>8. CASE PromptLeaves BY ZenonT(60), <1>8 DEF PromptLeaves
  <1>9. CASE Command
    <2>1. PICK c \in {"install", "uninstall"}, n \in Names \cup {BadName}, e \in BOOLEAN,
               first \in {"validate", "load"} :
             Begin([cmd |-> c, name |-> n, enroll |-> e], first)
      BY <1>9 DEF Command, Install, Uninstall
    <2>2. outcome' \in Outcomes
      <3>1. Created \in BOOLEAN
        BY DEF Created
      <3>2. outcome' = [cmd |-> c, result |-> "none", faulty |-> FALSE, raced |-> inside,
                        name |-> n, enroll |-> e, vault |-> disk.vault, made |-> Created]
        BY <2>1 DEF Begin, Clean
      <3>3. disk.vault \in Vaults /\ inside \in BOOLEAN
        BY DEF Disks
      <3>4. QED BY <3>1, <3>2, <3>3 DEF Outcomes
    <2>3. QED BY <2>1, <2>2 DEF Begin
  <1>10. CASE \E n \in Names : AdministratorEdits(n)
    BY <1>10 DEF AdministratorEdits
  <1>11. CASE UNCHANGED vars BY <1>11 DEF vars
  <1>12. QED
    BY <1>1, <1>2, <1>3, <1>4, <1>5, <1>6, <1>7, <1>8, <1>9, <1>10, <1>11 DEF Next, Goes

\* What a command leaves on record when it begins and when it ends.
LEMMA Recorded ==
  ASSUME outcome \in Outcomes
  PROVE  /\ \A r : [outcome EXCEPT !.result = r].cmd = outcome.cmd
         /\ \A r : [outcome EXCEPT !.result = r].vault = outcome.vault
         /\ \A r : [outcome EXCEPT !.result = r].made = outcome.made
         /\ \A r : [outcome EXCEPT !.result = r].raced = outcome.raced
         /\ \A r : [outcome EXCEPT !.result = r].name = outcome.name
         /\ \A r : [outcome EXCEPT !.result = r].enroll = outcome.enroll
         /\ \A r : [outcome EXCEPT !.result = r].faulty = outcome.faulty
         /\ \A r : [outcome EXCEPT !.result = r].result = r
         /\ \A r : /\ Faulty(r).cmd = outcome.cmd /\ Faulty(r).vault = outcome.vault
                   /\ Faulty(r).raced = outcome.raced /\ Faulty(r).name = outcome.name
                   /\ Faulty(r).enroll = outcome.enroll /\ Faulty(r).made = outcome.made
                   /\ Faulty(r).faulty /\ Faulty(r).result = r
  BY DEF Outcomes, Faulty

\* ... and when it returns.
LEMMA Returned ==
  ASSUME outcome \in Outcomes, NEW r, Return(r)
  PROVE  /\ pc' = "idle" /\ isNew' = FALSE /\ outcome'.result = r
         /\ outcome'.cmd = outcome.cmd /\ outcome'.vault = outcome.vault
         /\ outcome'.raced = outcome.raced /\ outcome'.name = outcome.name
         /\ outcome'.enroll = outcome.enroll /\ outcome'.faulty = outcome.faulty
         /\ outcome'.made = outcome.made
         /\ UNCHANGED <<inside, runs, faults, died, misread>>
  BY Recorded DEF Return, Exit

\* What the machine and the record are when a command begins.
LEMMA Begun ==
  ASSUME TypeOK, Command
  PROVE  /\ pc = "idle" /\ runs' = runs + 1
         /\ UNCHANGED <<machine, inside, isNew, faults, died>>
         /\ misread' = misread \ {disk.vault.name}
         /\ \/ pc' = "validate" /\ args'.cmd = "install"
            \/ pc' = "load" /\ args'.cmd = "uninstall"
         /\ outcome'.result = "none" /\ outcome'.cmd = args'.cmd /\ outcome'.vault = disk.vault
         /\ outcome'.name = args'.name /\ outcome'.enroll = args'.enroll
         /\ outcome'.raced = inside /\ outcome'.faulty = FALSE
         /\ outcome'.made <=> Created
  <1>1. PICK n \in Names \cup {BadName}, e \in BOOLEAN :
           \/ Begin([cmd |-> "install", name |-> n, enroll |-> e], "validate")
           \/ Begin([cmd |-> "uninstall", name |-> n, enroll |-> e], "load")
    BY DEF Command, Install, Uninstall
  <1>2. CASE Begin([cmd |-> "install", name |-> n, enroll |-> e], "validate")
    BY <1>2 DEF Begin, Clean
  <1>3. CASE Begin([cmd |-> "uninstall", name |-> n, enroll |-> e], "load")
    BY <1>3 DEF Begin, Clean
  <1>4. QED BY <1>1, <1>2, <1>3

\* CommandInv is inductive relative to the types.
LEMMA CommandNext ==
  ASSUME TypeOK, CommandInv, [Next]_vars
  PROVE  CommandInv'
  <1> outcome \in Outcomes
    BY DEF TypeOK
  <1> USE DEF CommandInv, InstallSteps, UninstallSteps, Step, machine, proc
  <1>1. CASE InstallStep
    <2>1. CASE Validate
      <3>1. CASE args.name \in Names /\ Step("validate", "makedir") /\ UNCHANGED machine
        BY <3>1
      <3>2. CASE pc = "validate" /\ Return("error") /\ UNCHANGED machine
        BY <3>2, Returned
      <3>3. QED BY <2>1, <3>1, <3>2 DEF Validate
    <2>2. CASE MakeDir BY <2>2, Returned DEF MakeDir
    <2>3. CASE SecureDir BY <2>3, Returned DEF SecureDir
    <2>4. CASE Adopt BY <2>4, Returned DEF Adopt
    <2>5. CASE RefuseTornVault BY <2>5, Returned DEF RefuseTornVault
    <2>6. CASE Provision BY <2>6, Returned DEF Provision
    <2>7. CASE CreateUser
      <3>1. CASE AddUser BY <3>1 DEF AddUser
      <3>2. CASE pc = "adduser" /\ Return("error") /\ UNCHANGED machine
        BY <3>2, Returned
      <3>3. QED BY <2>7, <3>1, <3>2 DEF CreateUser
    <2>8. CASE AddAdmin BY <2>8, Returned DEF AddAdmin
    <2>9. CASE Hide BY <2>9, Returned DEF Hide
    <2>10. CASE Seal BY <2>10, Returned DEF Seal
    <2>11. CASE CreateVault BY <2>11, Returned DEF CreateVault
    <2>12. CASE WriteVault BY <2>12, Returned DEF WriteVault
    <2>13. CASE Enroll BY <2>13, Returned DEF Enroll
    <2>14. CASE RollbackUnhide BY <2>14, Returned DEF RollbackUnhide
    <2>15. CASE RollbackDelete BY <2>15, Returned DEF RollbackDelete
    <2>16. CASE RollbackRemove BY <2>16, Returned DEF RollbackRemove
    <2>17. QED
      BY <1>1, <2>1, <2>2, <2>3, <2>4, <2>5, <2>6, <2>7, <2>8, <2>9, <2>10, <2>11, <2>12,
         <2>13, <2>14, <2>15, <2>16
      DEF InstallStep
  <1>2. CASE UninstallStep
    <2>1. CASE Load BY <2>1, Returned DEF Load
    <2>2. CASE Unhide BY <2>2, Returned DEF Unhide
    <2>3. CASE DeleteAccount BY <2>3, Returned DEF DeleteAccount
    <2>4. CASE RemoveFile("vault", "guard") BY <2>4, Returned DEF RemoveFile
    <2>5. CASE RemoveFile("guard", "legacy") BY <2>5, Returned DEF RemoveFile
    <2>6. CASE RemoveFile("legacy", "state") BY <2>6, Returned DEF RemoveFile
    <2>7. CASE RemoveFile("state", "rmdir") BY <2>7, Returned DEF RemoveFile
    <2>8. CASE RemoveDir BY <2>8, Returned DEF RemoveDir
    <2>9. QED
      BY <1>2, <2>1, <2>2, <2>3, <2>4, <2>5, <2>6, <2>7, <2>8
      DEF UninstallStep
  <1>3. CASE FailIntoRollback
    BY <1>3, Recorded DEF FailIntoRollback, RollsBack
  <1>4. CASE FailInRollback
    BY <1>4, Recorded DEF FailInRollback, Exit
  <1>5. CASE FailAndReturn
    BY <1>5 DEF FailAndReturn, Exit
  <1>6. CASE Crash
    BY <1>6 DEF Crash, Exit
  <1>7. CASE FailLegacyRead
    BY <1>7, Recorded DEF FailLegacyRead
  <1>8. CASE PromptDecides
    BY <1>8 DEF PromptDecides, Outcomes
  <1>9. CASE PromptWritesGuard
    BY <1>9 DEF PromptWritesGuard
  <1>10. CASE PromptLeaves
    BY <1>10 DEF PromptLeaves
  <1>11. CASE Command
    BY <1>11, Begun
  <1>12. CASE \E n \in Names : AdministratorEdits(n)
    BY <1>12 DEF AdministratorEdits
  <1>13. CASE UNCHANGED vars
    BY <1>13 DEF vars
  <1>14. QED
    BY <1>1, <1>2, <1>3, <1>4, <1>5, <1>6, <1>7, <1>8, <1>9, <1>10, <1>11, <1>12, <1>13
    DEF Next, Goes

\* VaultInv is inductive relative to the types and to where the commands stand.
LEMMA VaultNext ==
  ASSUME TypeOK, VaultInv, InstallInv, UninstallInv, [Next]_vars
  PROVE  VaultInv'
  <1> disk \in Disks /\ outcome \in Outcomes /\ account \in [Names -> Kinds] /\ runs \in Nat
    BY DEF TypeOK
  <1> USE DEF VaultInv, Created, Step, machine
  <1>1. CASE InstallStep
    <2>1. CASE Validate
      <3>1. CASE args.name \in Names /\ Step("validate", "makedir") /\ UNCHANGED machine
        BY <3>1
      <3>2. CASE pc = "validate" /\ Return("error") /\ UNCHANGED machine
        BY <3>2, Returned
      <3>3. QED BY <2>1, <3>1, <3>2 DEF Validate
    <2>2. CASE MakeDir
      BY <2>2, WriteOtherFile DEF MakeDir, Write
    <2>3. CASE SecureDir BY <2>3 DEF SecureDir
    <2>4. CASE Adopt BY <2>4 DEF Adopt
    <2>5. CASE RefuseTornVault BY <2>5 DEF RefuseTornVault
    <2>6. CASE Provision BY <2>6 DEF Provision
    <2>7. CASE CreateUser
      <3>1. CASE AddUser
        BY <3>1 DEF AddUser, InstallInv, AfterUser
      <3>2. CASE pc = "adduser" /\ Return("error") /\ UNCHANGED machine
        BY <3>2
      <3>3. QED BY <2>7, <3>1, <3>2 DEF CreateUser
    <2>8. CASE AddAdmin
      BY <2>8 DEF AddAdmin, InstallInv, AfterUser
    <2>9. CASE Hide BY <2>9 DEF Hide
    <2>10. CASE Seal BY <2>10 DEF Seal
    <2>11. CASE CreateVault
      BY <2>11, WriteVaultFile, VaultsTyped DEF CreateVault, Write, NoVault
    <2>12. CASE WriteVault
      <3>1. account[args.name] = "admin" /\ args.name \in Names
        BY <2>12 DEF WriteVault, InstallInv, AfterUser, AfterAdmin, TypeOK, InstallSteps
      <3>2. UNCHANGED account
        BY <2>12 DEF WriteVault, Write
      <3>3. disk'.vault = [state |-> "ok", name |-> args.name, serial |-> runs,
         created |-> TRUE]
        BY <2>12, <3>1, WriteVaultFile, VaultsTyped DEF WriteVault
      <3>4. QED BY <3>1, <3>2, <3>3
    <2>13. CASE Enroll
      BY <2>13, Enrolled
    <2>14. CASE RollbackUnhide
      BY <2>14 DEF RollbackUnhide, UnhideName
    <2>15. CASE RollbackDelete
      BY <2>15 DEF RollbackDelete, DeleteName
    <2>16. CASE RollbackRemove
      BY <2>16, VaultRemoved DEF RollbackRemove, NoVault
    <2>17. QED
      BY <1>1, <2>1, <2>2, <2>3, <2>4, <2>5, <2>6, <2>7, <2>8, <2>9, <2>10, <2>11, <2>12,
         <2>13, <2>14, <2>15, <2>16
      DEF InstallStep
  <1>2. CASE UninstallStep
    <2>1. CASE Load BY <2>1 DEF Load
    <2>2. CASE Unhide
      BY <2>2 DEF Unhide, UnhideName
    <2>3. CASE DeleteAccount
      BY <2>3 DEF DeleteAccount, DeleteName
    <2>4. CASE RemoveFile("vault", "guard")
      BY <2>4, VaultRemoved DEF RemoveFile, Gone, NoVault
    <2>5. CASE RemoveFile("guard", "legacy")
      BY <2>5, FileRemoved
    <2>6. CASE RemoveFile("legacy", "state")
      <3>1. disk.vault = NoVault
        BY <2>6 DEF RemoveFile, UninstallInv
      <3>2. disk'.vault = NoVault /\ UNCHANGED account
        BY <2>6, <3>1, FileRemoved
      <3>3. QED BY <3>2 DEF NoVault
    <2>7. CASE RemoveFile("state", "rmdir")
      BY <2>7, FileRemoved
    <2>8. CASE RemoveDir
      BY <2>8, DirRemoved
    <2>9. QED
      BY <1>2, <2>1, <2>2, <2>3, <2>4, <2>5, <2>6, <2>7, <2>8
      DEF UninstallStep
  <1>3. CASE FailIntoRollback
    BY <1>3, EnrollmentLeft DEF FailIntoRollback
  <1>4. CASE FailInRollback BY <1>4 DEF FailInRollback
  <1>5. CASE FailAndReturn
    BY <1>5, EnrollmentLeft DEF FailAndReturn
  <1>6. CASE Crash
    BY <1>6, EnrollmentLeft DEF Crash
  <1>7. CASE FailLegacyRead BY <1>7 DEF FailLegacyRead
  <1>8. CASE PromptDecides BY <1>8 DEF PromptDecides
  <1>9. CASE PromptWritesGuard
    BY <1>9, GuardWritten
  <1>10. CASE PromptLeaves BY <1>10 DEF PromptLeaves
  <1>11. CASE Command
    BY <1>11, Begun
  <1>12. CASE \E n \in Names : AdministratorEdits(n) BY <1>12 DEF AdministratorEdits
  <1>13. CASE UNCHANGED vars BY <1>13 DEF vars
  <1>14. QED
    BY <1>1, <1>2, <1>3, <1>4, <1>5, <1>6, <1>7, <1>8, <1>9, <1>10, <1>11, <1>12, <1>13
    DEF Next, Goes

\* InstallInv is inductive relative to the types and to who runs.
LEMMA InstallNext ==
  ASSUME TypeOK, CommandInv, VaultInv, InstallInv, [Next]_vars
  PROVE  InstallInv'
  <1> disk \in Disks /\ outcome \in Outcomes
    BY DEF TypeOK
  <1>0. /\ account \in [Names -> Kinds] /\ password \in [Names -> Nat]
        /\ pc \in InstallSteps \ {"validate"} => args.name \in Names
    BY DEF TypeOK
  <1> USE DEF InstallInv, CommandInv, VaultInv, AfterUser, AfterAdmin, AfterHide, Rollback,
              InstallSteps, UninstallSteps, Step, machine, proc
  <1>1. CASE InstallStep
    <2>1. CASE Validate
      <3>1. CASE args.name \in Names /\ Step("validate", "makedir") /\ UNCHANGED machine
        BY <3>1
      <3>2. CASE pc = "validate" /\ Return("error") /\ UNCHANGED machine
        <4>1. pc' = "idle" /\ outcome'.result = "error" /\ isNew' = FALSE /\ UNCHANGED inside
          BY <3>2, Returned
        <4>2. QED BY <3>2, <4>1
      <3>3. QED BY <2>1, <3>1, <3>2 DEF Validate
    <2>2. CASE MakeDir
      BY <2>2, WriteOtherFile DEF MakeDir, Write
    <2>3. CASE SecureDir BY <2>3 DEF SecureDir
    <2>4. CASE Adopt BY <2>4 DEF Adopt
    <2>5. CASE RefuseTornVault BY <2>5, Returned DEF RefuseTornVault
    <2>6. CASE Provision BY <2>6 DEF Provision
    <2>7. CASE CreateUser
      <3>1. CASE AddUser
        BY <3>1, <1>0 DEF AddUser
      <3>2. CASE pc = "adduser" /\ Return("error") /\ UNCHANGED machine
        <4>1. pc' = "idle" /\ outcome'.result = "error" /\ isNew' = FALSE /\ UNCHANGED inside
          BY <3>2, Returned
        <4>2. QED BY <3>2, <4>1
      <3>3. QED BY <2>7, <3>1, <3>2 DEF CreateUser
    <2>8. CASE AddAdmin
      BY <2>8, <1>0 DEF AddAdmin
    <2>9. CASE Hide
      BY <2>9, <1>0 DEF Hide
    <2>10. CASE Seal BY <2>10 DEF Seal
    <2>11. CASE CreateVault
      <3>1. disk'.vault = [NoVault EXCEPT !.state = "torn"]
        BY <2>11, WriteVaultFile, VaultsTyped DEF CreateVault
      <3>2. disk'.vault.state = "torn" /\ UNCHANGED <<account, password, hidden>>
        BY <2>11, <3>1 DEF CreateVault, Write, NoVault
      <3>3. QED BY <2>11, <3>2 DEF CreateVault
    <2>12. CASE WriteVault
      <3>1. args.name \in Names
        BY <2>12, <1>0 DEF WriteVault
      <3>2. UNCHANGED <<account, password, hidden>>
        BY <2>12 DEF WriteVault, Write
      <3>3. disk'.vault = [state |-> "ok", name |-> args.name, serial |-> runs,
         created |-> TRUE]
        BY <2>12, <3>1, WriteVaultFile, VaultsTyped DEF WriteVault, TypeOK
      <3>4. QED BY <2>12, <3>2, <3>3 DEF WriteVault
    <2>13. CASE Enroll
      BY <2>13, Enrolled, Returned DEF Enroll
    <2>14. CASE RollbackUnhide
      BY <2>14 DEF RollbackUnhide, UnhideName
    <2>15. CASE RollbackDelete
      BY <2>15, <1>0 DEF RollbackDelete, DeleteName
    <2>16. CASE RollbackRemove
      <3>1. pc' = "idle" /\ outcome'.result = "error" /\ isNew' = FALSE
        BY <2>16, Returned DEF RollbackRemove
      <3>2. QED BY <3>1
    <2>17. QED
      BY <1>1, <2>1, <2>2, <2>3, <2>4, <2>5, <2>6, <2>7, <2>8, <2>9, <2>10, <2>11, <2>12,
         <2>13, <2>14, <2>15, <2>16
      DEF InstallStep
  <1>2. CASE UninstallStep
    <2>1. CASE Load BY <2>1 DEF Load
    <2>2. CASE Unhide
      BY <2>2 DEF Unhide, UnhideName
    <2>3. CASE DeleteAccount
      BY <2>3 DEF DeleteAccount, DeleteName
    <2>4. CASE RemoveFile("vault", "guard")
      BY <2>4, VaultRemoved DEF RemoveFile, Gone, NoVault
    <2>5. CASE RemoveFile("guard", "legacy")
      BY <2>5, FileRemoved DEF RemoveFile
    <2>6. CASE RemoveFile("legacy", "state")
      BY <2>6, FileRemoved DEF RemoveFile
    <2>7. CASE RemoveFile("state", "rmdir")
      BY <2>7, FileRemoved DEF RemoveFile
    <2>8. CASE RemoveDir
      BY <2>8, DirRemoved, Returned DEF RemoveDir
    <2>9. QED
      BY <1>2, <2>1, <2>2, <2>3, <2>4, <2>5, <2>6, <2>7, <2>8
      DEF UninstallStep
  <1>3. CASE FailIntoRollback
    BY <1>3, EnrollmentLeft, Recorded DEF FailIntoRollback, RollsBack
  <1>4. CASE FailInRollback
    BY <1>4, Recorded DEF FailInRollback, Exit
  <1>5. CASE FailAndReturn
    BY <1>5, EnrollmentLeft, Recorded DEF FailAndReturn, Exit
  <1>6. CASE Crash
    BY <1>6, EnrollmentLeft, Recorded DEF Crash, Exit
  <1>7. CASE FailLegacyRead
    BY <1>7, Recorded DEF FailLegacyRead
  <1>8. CASE PromptDecides
    BY <1>8 DEF PromptDecides, Outcomes
  <1>9. CASE PromptWritesGuard
    BY <1>9, GuardWritten DEF PromptWritesGuard
  <1>10. CASE PromptLeaves BY <1>10 DEF PromptLeaves
  <1>11. CASE Command
    BY <1>11, Begun
  <1>12. CASE \E n \in Names : AdministratorEdits(n) BY <1>12 DEF AdministratorEdits
  <1>13. CASE UNCHANGED vars BY <1>13 DEF vars
  <1>14. QED
    BY <1>1, <1>2, <1>3, <1>4, <1>5, <1>6, <1>7, <1>8, <1>9, <1>10, <1>11, <1>12, <1>13
    DEF Next, Goes

\* UninstallInv is inductive relative to the types and to who runs.
LEMMA UninstallNext ==
  ASSUME TypeOK, CommandInv, VaultInv, InstallInv, UninstallInv, UninstallCleans, [Next]_vars
  PROVE  UninstallInv'
  <1> disk \in Disks /\ outcome \in Outcomes
    BY DEF TypeOK
  <1>0. account \in [Names -> Kinds] /\ outcome.raced \in BOOLEAN
    BY DEF TypeOK, Outcomes
  <1> USE DEF UninstallInv, CommandInv, VaultInv, Created, Made, InstallSteps, UninstallSteps,
              Step, machine, proc
  <1>1. CASE InstallStep
    <2>1. CASE Validate
      <3>1. CASE args.name \in Names /\ Step("validate", "makedir") /\ UNCHANGED machine
        BY <3>1
      <3>2. CASE pc = "validate" /\ Return("error") /\ UNCHANGED machine
        <4>1. pc' = "idle" /\ outcome'.result = "error" /\ isNew' = FALSE /\ UNCHANGED inside
          BY <3>2, Returned
        <4>2. QED BY <3>2, <4>1
      <3>3. QED BY <2>1, <3>1, <3>2 DEF Validate
    <2>2. CASE MakeDir BY <2>2, WriteOtherFile DEF MakeDir, Write
    <2>3. CASE SecureDir BY <2>3 DEF SecureDir
    <2>4. CASE Adopt BY <2>4 DEF Adopt
    <2>5. CASE RefuseTornVault
      <3>1. pc' = "idle" /\ outcome'.result = "error"
        BY <2>5, Returned DEF RefuseTornVault
      <3>2. QED BY <3>1
    <2>6. CASE Provision BY <2>6 DEF Provision
    <2>7. CASE CreateUser
      <3>1. CASE AddUser
        BY <3>1 DEF AddUser
      <3>2. CASE pc = "adduser" /\ Return("error") /\ UNCHANGED machine
        <4>1. pc' = "idle" /\ outcome'.result = "error" /\ isNew' = FALSE /\ UNCHANGED inside
          BY <3>2, Returned
        <4>2. QED BY <3>2, <4>1
      <3>3. QED BY <2>7, <3>1, <3>2 DEF CreateUser
    <2>8. CASE AddAdmin BY <2>8 DEF AddAdmin
    <2>9. CASE Hide BY <2>9 DEF Hide
    <2>10. CASE Seal BY <2>10 DEF Seal
    <2>11. CASE CreateVault BY <2>11 DEF CreateVault
    <2>12. CASE WriteVault BY <2>12 DEF WriteVault
    <2>13. CASE Enroll
      BY <2>13, Returned DEF Enroll
    <2>14. CASE RollbackUnhide BY <2>14 DEF RollbackUnhide
    <2>15. CASE RollbackDelete BY <2>15 DEF RollbackDelete
    <2>16. CASE RollbackRemove
      <3>1. pc' = "idle" /\ outcome'.result = "error"
        BY <2>16, Returned DEF RollbackRemove
      <3>2. QED BY <3>1
    <2>17. QED
      BY <1>1, <2>1, <2>2, <2>3, <2>4, <2>5, <2>6, <2>7, <2>8, <2>9, <2>10, <2>11, <2>12,
         <2>13, <2>14, <2>15, <2>16
      DEF InstallStep
  <1>2. CASE UninstallStep
    <2>1. CASE Load BY <2>1 DEF Load
    <2>2. CASE Unhide
      BY <2>2, <1>0 DEF Unhide, UnhideName
    <2>3. CASE DeleteAccount
      BY <2>3, <1>0 DEF DeleteAccount, DeleteName
    <2>4. CASE RemoveFile("vault", "guard")
      BY <2>4, VaultRemoved DEF RemoveFile, Gone
    <2>5. CASE RemoveFile("guard", "legacy")
      BY <2>5, FileRemoved DEF RemoveFile
    <2>6. CASE RemoveFile("legacy", "state")
      BY <2>6, FileRemoved DEF RemoveFile
    <2>7. CASE RemoveFile("state", "rmdir")
      BY <2>7, FileRemoved DEF RemoveFile
    <2>8. CASE RemoveDir
      BY <2>8, DirRemoved, Returned DEF RemoveDir
    <2>9. QED
      BY <1>2, <2>1, <2>2, <2>3, <2>4, <2>5, <2>6, <2>7, <2>8
      DEF UninstallStep
  <1>3. CASE FailIntoRollback
    BY <1>3, Recorded DEF FailIntoRollback, RollsBack
  <1>4. CASE FailInRollback
    BY <1>4, Recorded DEF FailInRollback, Exit
  <1>5. CASE FailAndReturn
    BY <1>5, Recorded DEF FailAndReturn, Exit
  <1>6. CASE Crash
    BY <1>6, Recorded DEF Crash, Exit
  <1>7. CASE FailLegacyRead
    BY <1>7, Recorded DEF FailLegacyRead
  <1>8. CASE PromptDecides
    <2>1. pc = "idle" /\ outcome.cmd = "uninstall" => outcome.result /= "ok"
      BY <1>8 DEF PromptDecides, UninstallCleans, Gone, NoVault
    <2>2. /\ pc /= "idle" \/ outcome.raced => outcome'.raced
        /\ outcome'.vault = outcome.vault
        /\ outcome'.cmd = outcome.cmd /\ outcome'.result = outcome.result
      BY <1>8 DEF PromptDecides, Outcomes
    <2>3. QED BY <1>8, <2>1, <2>2 DEF PromptDecides
  <1>9. CASE PromptWritesGuard
    BY <1>9, GuardWritten DEF PromptWritesGuard
  <1>10. CASE PromptLeaves BY <1>10 DEF PromptLeaves
  <1>11. CASE Command
    BY <1>11, Begun
  <1>12. CASE \E n \in Names : AdministratorEdits(n)
    BY <1>12, <1>0 DEF AdministratorEdits
  <1>13. CASE UNCHANGED vars BY <1>13 DEF vars
  <1>14. QED
    BY <1>1, <1>2, <1>3, <1>4, <1>5, <1>6, <1>7, <1>8, <1>9, <1>10, <1>11, <1>12, <1>13
    DEF Next, Goes

\* UninstallCleans holds at the end of an uninstall and stays until the next command.
LEMMA CleansNext ==
  ASSUME TypeOK, CommandInv, UninstallInv, UninstallCleans, [Next]_vars
  PROVE  UninstallCleans'
  <1> disk \in Disks /\ outcome \in Outcomes
    BY DEF TypeOK
  <1>0. account \in [Names -> Kinds] /\ disk.guard \in BOOLEAN /\ disk.state \in BOOLEAN
    BY DEF TypeOK, Disks
  <1> USE DEF UninstallCleans, CommandInv, Made, InstallSteps, UninstallSteps, Step, machine,
     proc
  <1>1. CASE InstallStep
    <2>1. CASE Validate
      <3>1. CASE args.name \in Names /\ Step("validate", "makedir") /\ UNCHANGED machine
        BY <3>1
      <3>2. CASE pc = "validate" /\ Return("error") /\ UNCHANGED machine
        <4>1. pc' = "idle" /\ outcome'.result = "error" /\ isNew' = FALSE /\ UNCHANGED inside
          BY <3>2, Returned
        <4>2. QED BY <3>2, <4>1
      <3>3. QED BY <2>1, <3>1, <3>2 DEF Validate
    <2>2. CASE MakeDir BY <2>2 DEF MakeDir
    <2>3. CASE SecureDir BY <2>3 DEF SecureDir
    <2>4. CASE Adopt BY <2>4 DEF Adopt
    <2>5. CASE RefuseTornVault
      <3>1. pc' = "idle" /\ outcome'.result = "error"
        BY <2>5, Returned DEF RefuseTornVault
      <3>2. QED BY <3>1
    <2>6. CASE Provision BY <2>6 DEF Provision
    <2>7. CASE CreateUser
      <3>1. CASE AddUser
        BY <3>1 DEF AddUser
      <3>2. CASE pc = "adduser" /\ Return("error") /\ UNCHANGED machine
        <4>1. pc' = "idle" /\ outcome'.result = "error" /\ isNew' = FALSE /\ UNCHANGED inside
          BY <3>2, Returned
        <4>2. QED BY <3>2, <4>1
      <3>3. QED BY <2>7, <3>1, <3>2 DEF CreateUser
    <2>8. CASE AddAdmin BY <2>8 DEF AddAdmin
    <2>9. CASE Hide BY <2>9 DEF Hide
    <2>10. CASE Seal BY <2>10 DEF Seal
    <2>11. CASE CreateVault BY <2>11 DEF CreateVault
    <2>12. CASE WriteVault BY <2>12 DEF WriteVault
    <2>13. CASE Enroll
      BY <2>13, Returned DEF Enroll
    <2>14. CASE RollbackUnhide BY <2>14 DEF RollbackUnhide
    <2>15. CASE RollbackDelete BY <2>15 DEF RollbackDelete
    <2>16. CASE RollbackRemove
      <3>1. pc' = "idle" /\ outcome'.result = "error"
        BY <2>16, Returned DEF RollbackRemove
      <3>2. QED BY <3>1
    <2>17. QED
      BY <1>1, <2>1, <2>2, <2>3, <2>4, <2>5, <2>6, <2>7, <2>8, <2>9, <2>10, <2>11, <2>12,
         <2>13, <2>14, <2>15, <2>16
      DEF InstallStep
  <1>2. CASE UninstallStep
    <2>1. CASE Load BY <2>1 DEF Load
    <2>2. CASE Unhide BY <2>2 DEF Unhide
    <2>3. CASE DeleteAccount BY <2>3 DEF DeleteAccount
    <2>4. CASE RemoveFile("vault", "guard") BY <2>4 DEF RemoveFile
    <2>5. CASE RemoveFile("guard", "legacy") BY <2>5 DEF RemoveFile
    <2>6. CASE RemoveFile("legacy", "state") BY <2>6 DEF RemoveFile
    <2>7. CASE RemoveFile("state", "rmdir") BY <2>7 DEF RemoveFile
    <2>8. CASE RemoveDir
      <3>1. /\ outcome'.vault = outcome.vault /\ outcome'.raced = outcome.raced
          /\ outcome'.made = outcome.made
          /\ UNCHANGED <<account, hidden, misread>> /\ disk'.vault = disk.vault /\ disk'.guard = disk.guard
          /\ disk'.legacy = disk.legacy /\ disk'.state = disk.state
        BY <2>8, DirRemoved, Returned DEF RemoveDir
      <3>2. /\ disk'.vault = NoVault /\ (disk'.guard = FALSE \/ outcome'.raced)
          /\ disk'.legacy = "absent" /\ disk'.state = FALSE
        BY <2>8, <3>1, <1>0 DEF RemoveDir, UninstallInv
      <3>3. \A f \in DOMAIN Gone : disk'[f] = Gone[f] \/ (f = "guard" /\ outcome'.raced)
        <4>1. DOMAIN Gone = {"vault", "guard", "legacy", "state"}
          BY DEF Gone
        <4>2. /\ Gone["vault"] = NoVault /\ Gone["guard"] = FALSE
             /\ Gone["legacy"] = "absent" /\ Gone["state"] = FALSE
          BY DEF Gone
        <4>3. QED BY <3>2, <4>1, <4>2
      <3>4. outcome'.made =>
              \/ /\ account'[outcome'.vault.name] \notin {"plain", "admin"}
                 /\ outcome'.vault.name \notin hidden'
              \/ outcome'.vault.name \in misread'
        BY <2>8, <3>1 DEF RemoveDir, UninstallInv
      <3>5. QED BY <3>3, <3>4
    <2>9. QED
      BY <1>2, <2>1, <2>2, <2>3, <2>4, <2>5, <2>6, <2>7, <2>8
      DEF UninstallStep
  <1>3. CASE FailIntoRollback
    BY <1>3, Recorded DEF FailIntoRollback, RollsBack
  <1>4. CASE FailInRollback
    BY <1>4, Recorded DEF FailInRollback, Exit
  <1>5. CASE FailAndReturn
    BY <1>5, Recorded DEF FailAndReturn, Exit
  <1>6. CASE Crash
    BY <1>6, Recorded DEF Crash, Exit
  <1>7. CASE FailLegacyRead
    BY <1>7, Recorded DEF FailLegacyRead
  <1>8. CASE PromptDecides
    <2>1. pc = "idle" /\ outcome.cmd = "uninstall" => outcome.result /= "ok"
      BY <1>8 DEF PromptDecides, Gone, NoVault
    <2>2. outcome'.cmd = outcome.cmd /\ outcome'.result = outcome.result
      BY <1>8 DEF PromptDecides, Outcomes
    <2>3. QED BY <1>8, <2>1, <2>2 DEF PromptDecides
  <1>9. CASE PromptWritesGuard
    <2>1. /\ UNCHANGED <<account, hidden, misread, outcome, pc>> /\ disk'.vault = disk.vault
        /\ disk'.legacy = disk.legacy /\ disk'.state = disk.state /\ inside
      BY <1>9, GuardWritten DEF PromptWritesGuard
    <2>2. QED BY ZenonT(60), <2>1 DEF UninstallInv, Gone
  <1>10. CASE PromptLeaves BY <1>10 DEF PromptLeaves
  <1>11. CASE Command
    BY <1>11, Begun
  <1>12. CASE \E n \in Names : AdministratorEdits(n)
    BY <1>12, <1>0 DEF AdministratorEdits
  <1>13. CASE UNCHANGED vars BY <1>13 DEF vars
  <1>14. QED
    BY <1>1, <1>2, <1>3, <1>4, <1>5, <1>6, <1>7, <1>8, <1>9, <1>10, <1>11, <1>12, <1>13
    DEF Next, Goes

\* What one failed call can leave behind is inductive relative to the rest.
LEMMA OneFailureNext ==
  ASSUME TypeOK, VaultInv, InstallInv, UninstallInv, OneFailureInv, [Next]_vars
  PROVE  OneFailureInv'
  <1> disk \in Disks /\ outcome \in Outcomes
    BY DEF TypeOK
  <1>0. /\ account \in [Names -> Kinds] /\ faults \in Nat
        /\ pc \in InstallSteps \ {"validate"} => args.name \in Names
    BY DEF TypeOK
  <1> USE DEF OneFailureInv, OneFailure, AfterUser, AfterAdmin, Rollback, Created,
              InstallSteps, Step, machine, proc
  <1>1. CASE InstallStep
    <2>1. CASE Validate
      <3>1. CASE args.name \in Names /\ Step("validate", "makedir") /\ UNCHANGED machine
        BY <3>1
      <3>2. CASE pc = "validate" /\ Return("error") /\ UNCHANGED machine
        <4>1. /\ pc' = "idle" /\ outcome'.result = "error" /\ isNew' = FALSE
              /\ UNCHANGED <<inside, faults, died, misread>>
          BY <3>2, Returned
        <4>2. QED BY <3>2, <4>1
      <3>3. QED BY <2>1, <3>1, <3>2 DEF Validate
    <2>2. CASE MakeDir
      BY <2>2, WriteOtherFile DEF MakeDir, Write
    <2>3. CASE SecureDir BY <2>3 DEF SecureDir
    <2>4. CASE Adopt BY <2>4 DEF Adopt
    <2>5. CASE RefuseTornVault BY <2>5, Returned DEF RefuseTornVault
    <2>6. CASE Provision BY <2>6 DEF Provision
    <2>7. CASE CreateUser
      <3>1. CASE AddUser
        BY <3>1, <1>0 DEF AddUser
      <3>2. CASE pc = "adduser" /\ Return("error") /\ UNCHANGED machine
        <4>1. /\ pc' = "idle" /\ outcome'.result = "error" /\ isNew' = FALSE
              /\ UNCHANGED <<inside, faults, died, misread>>
          BY <3>2, Returned
        <4>2. QED BY <3>2, <4>1
      <3>3. QED BY <2>7, <3>1, <3>2 DEF CreateUser
    <2>8. CASE AddAdmin
      BY <2>8, <1>0 DEF AddAdmin, InstallInv
    <2>9. CASE Hide BY <2>9 DEF Hide
    <2>10. CASE Seal BY <2>10 DEF Seal
    <2>11. CASE CreateVault
      <3>1. disk'.vault = [NoVault EXCEPT !.state = "torn"]
        BY <2>11, WriteVaultFile, VaultsTyped DEF CreateVault
      <3>2. disk'.vault.state = "torn" /\ UNCHANGED account
        BY <2>11, <3>1 DEF CreateVault, Write, NoVault
      <3>3. QED BY <2>11, <3>2 DEF CreateVault, InstallInv
    <2>12. CASE WriteVault
      <3>1. args.name \in Names
        BY <2>12, <1>0 DEF WriteVault
      <3>2. UNCHANGED account
        BY <2>12 DEF WriteVault, Write
      <3>3. disk'.vault = [state |-> "ok", name |-> args.name, serial |-> runs,
         created |-> TRUE]
        BY <2>12, <3>1, WriteVaultFile, VaultsTyped DEF WriteVault, TypeOK
      <3>4. QED BY <2>12, <3>2, <3>3 DEF WriteVault, InstallInv
    <2>13. CASE Enroll
      BY ZenonT(60), <2>13, Enrolled, Returned DEF Enroll
    <2>14. CASE RollbackUnhide
      BY <2>14 DEF RollbackUnhide, UnhideName
    <2>15. CASE RollbackDelete
      BY <2>15, <1>0 DEF RollbackDelete, DeleteName
    <2>16. CASE RollbackRemove
      <3>1. /\ pc' = "idle" /\ UNCHANGED <<account, faults, died, misread>> /\ disk'.vault = NoVault
          /\ pc = "rb_remove"
        BY <2>16, VaultRemoved, Returned DEF RollbackRemove
      <3>2. QED BY <3>1 DEF NoVault, InstallInv
    <2>17. QED
      BY <1>1, <2>1, <2>2, <2>3, <2>4, <2>5, <2>6, <2>7, <2>8, <2>9, <2>10, <2>11, <2>12,
         <2>13, <2>14, <2>15, <2>16
      DEF InstallStep
  <1>2. CASE UninstallStep
    <2>1. CASE Load
      BY <2>1 DEF Load, VaultInv
    <2>2. CASE Unhide
      BY <2>2 DEF Unhide, UnhideName
    <2>3. CASE DeleteAccount
      BY <2>3, <1>0 DEF DeleteAccount, DeleteName, VaultInv
    <2>4. CASE RemoveFile("vault", "guard")
      <3>1. disk'.vault = NoVault /\ UNCHANGED account /\ pc = "vault"
        BY <2>4, VaultRemoved DEF RemoveFile, Gone
      <3>2. QED BY <2>4, <3>1 DEF RemoveFile, NoVault
    <2>5. CASE RemoveFile("guard", "legacy")
      BY <2>5, FileRemoved DEF RemoveFile
    <2>6. CASE RemoveFile("legacy", "state")
      BY <2>6, FileRemoved DEF RemoveFile
    <2>7. CASE RemoveFile("state", "rmdir")
      BY <2>7, FileRemoved DEF RemoveFile
    <2>8. CASE RemoveDir
      BY ZenonT(60), <2>8, DirRemoved, Returned DEF RemoveDir
    <2>9. QED
      BY <1>2, <2>1, <2>2, <2>3, <2>4, <2>5, <2>6, <2>7, <2>8
      DEF UninstallStep
  <1>3. CASE FailIntoRollback
    BY <1>3, <1>0, EnrollmentLeft DEF FailIntoRollback, RollsBack, Hit, InstallInv
  <1>4. CASE FailInRollback
    BY <1>4, <1>0 DEF FailInRollback, Exit, Hit
  <1>5. CASE FailAndReturn
    BY <1>5, <1>0, EnrollmentLeft DEF FailAndReturn, Exit, Hit, Returns, RollsBack, Gone
  <1>6. CASE Crash
    BY <1>6 DEF Crash
  <1>7. CASE FailLegacyRead
    BY <1>7, <1>0 DEF FailLegacyRead, Hit, VaultInv
  <1>8. CASE PromptDecides BY <1>8 DEF PromptDecides
  <1>9. CASE PromptWritesGuard
    BY <1>9, GuardWritten DEF PromptWritesGuard
  <1>10. CASE PromptLeaves BY <1>10 DEF PromptLeaves
  <1>11. CASE Command
    BY <1>11, Begun DEF VaultInv
  <1>12. CASE \E n \in Names : AdministratorEdits(n)
    BY <1>12, <1>0 DEF AdministratorEdits
  <1>13. CASE UNCHANGED vars BY <1>13 DEF vars
  <1>14. QED
    BY <1>1, <1>2, <1>3, <1>4, <1>5, <1>6, <1>7, <1>8, <1>9, <1>10, <1>11, <1>12, <1>13
    DEF Next, Goes

\* After one failed call uninstall meets no vault that it cannot read.
LEMMA PastFailureNext ==
  ASSUME TypeOK, CommandInv, OneFailureInv, UninstallGetsPastFailure, [Next]_vars
  PROVE  UninstallGetsPastFailure'
  <1> outcome \in Outcomes
    BY DEF TypeOK
  <1> USE DEF UninstallGetsPastFailure, UninstallFailsOnlyByFault, OneFailure, CommandInv,
              InstallSteps, UninstallSteps, Step
  <1>1. CASE InstallStep
    <2>1. CASE Validate
      <3>1. outcome'.cmd = outcome.cmd /\ outcome.cmd = "install"
        BY <2>1, Returned DEF Validate
      <3>2. QED BY <3>1
    <2>2. CASE MakeDir BY <2>2 DEF MakeDir
    <2>3. CASE SecureDir BY <2>3 DEF SecureDir
    <2>4. CASE Adopt BY <2>4 DEF Adopt
    <2>5. CASE RefuseTornVault
      <3>1. outcome'.cmd = outcome.cmd /\ UNCHANGED <<faults,
         died>> /\ disk.vault.state = "torn"
          /\ pc \in {"check", "load"}
        BY <2>5, Returned DEF RefuseTornVault
      <3>2. QED BY <3>1 DEF OneFailureInv, Rollback
    <2>6. CASE Provision BY <2>6 DEF Provision
    <2>7. CASE CreateUser
      <3>1. outcome'.cmd = outcome.cmd /\ outcome.cmd = "install"
        BY <2>7, Returned DEF CreateUser, AddUser
      <3>2. QED BY <3>1
    <2>8. CASE AddAdmin BY <2>8 DEF AddAdmin
    <2>9. CASE Hide BY <2>9 DEF Hide
    <2>10. CASE Seal BY <2>10 DEF Seal
    <2>11. CASE CreateVault BY <2>11 DEF CreateVault
    <2>12. CASE WriteVault BY <2>12 DEF WriteVault
    <2>13. CASE Enroll
      BY <2>13, Returned DEF Enroll
    <2>14. CASE RollbackUnhide BY <2>14 DEF RollbackUnhide
    <2>15. CASE RollbackDelete BY <2>15 DEF RollbackDelete
    <2>16. CASE RollbackRemove
      <3>1. outcome'.cmd = outcome.cmd /\ outcome.cmd = "install"
        BY <2>16, Returned DEF RollbackRemove
      <3>2. QED BY <3>1
    <2>17. QED
      BY <1>1, <2>1, <2>2, <2>3, <2>4, <2>5, <2>6, <2>7, <2>8, <2>9, <2>10, <2>11, <2>12,
         <2>13, <2>14, <2>15, <2>16
      DEF InstallStep
  <1>2. CASE UninstallStep
    <2>1. CASE Load BY <2>1 DEF Load
    <2>2. CASE Unhide BY <2>2 DEF Unhide
    <2>3. CASE DeleteAccount BY <2>3 DEF DeleteAccount
    <2>4. CASE RemoveFile("vault", "guard") BY <2>4 DEF RemoveFile
    <2>5. CASE RemoveFile("guard", "legacy") BY <2>5 DEF RemoveFile
    <2>6. CASE RemoveFile("legacy", "state") BY <2>6 DEF RemoveFile
    <2>7. CASE RemoveFile("state", "rmdir") BY <2>7 DEF RemoveFile
    <2>8. CASE RemoveDir
      <3>1. outcome'.result = "ok"
        BY <2>8, Returned DEF RemoveDir
      <3>2. QED BY <3>1
    <2>9. QED
      BY <1>2, <2>1, <2>2, <2>3, <2>4, <2>5, <2>6, <2>7, <2>8
      DEF UninstallStep
  <1>3. CASE FailIntoRollback
    BY <1>3, Recorded DEF FailIntoRollback
  <1>4. CASE FailInRollback
    BY <1>4, Recorded DEF FailInRollback, Exit
  <1>5. CASE FailAndReturn
    BY <1>5, Recorded DEF FailAndReturn, Exit
  <1>6. CASE Crash
    BY <1>6 DEF Crash
  <1>7. CASE FailLegacyRead
    BY <1>7, Recorded DEF FailLegacyRead
  <1>8. CASE PromptDecides
    BY <1>8 DEF PromptDecides, Outcomes
  <1>9. CASE PromptWritesGuard BY <1>9 DEF PromptWritesGuard
  <1>10. CASE PromptLeaves BY <1>10 DEF PromptLeaves
  <1>11. CASE Command
    BY <1>11, Begun
  <1>12. CASE \E n \in Names : AdministratorEdits(n) BY <1>12 DEF AdministratorEdits
  <1>13. CASE UNCHANGED vars BY <1>13 DEF vars
  <1>14. QED
    BY <1>1, <1>2, <1>3, <1>4, <1>5, <1>6, <1>7, <1>8, <1>9, <1>10, <1>11, <1>12, <1>13
    DEF Next, Goes

\* The initial states have the invariant,
LEMMA SetupInvInit == Init => SetupInv
  <1> SUFFICES ASSUME Init PROVE SetupInv
    OBVIOUS
  <1>1. TypeOK
    BY TypesInit
  <1>2. pc = "idle" /\ isNew = FALSE /\ outcome.cmd = "none" /\ outcome.result = "none"
    BY DEF Init, Clean
  <1>3. \/ /\ account \in [Names -> {"absent", "foreign"}]
           /\ disk.vault = NoVault
        \/ \E n \in Names, claim \in {"claims", "denies"} :
              /\ disk.vault = [state |-> "ok", name |-> n, serial |-> 0, created |-> FALSE]
              /\ disk.legacy = claim
              /\ account = [m \in Names |->
                              IF m # n THEN "absent"
                              ELSE IF claim = "claims" THEN "admin" ELSE "foreign"]
    <2>1. CASE /\ account \in [Names -> {"absent", "foreign"}]
               /\ disk = [dir |-> FALSE, vault |-> NoVault, guard |-> FALSE, state |-> FALSE,
                          legacy |-> "absent", enrollment |-> 0]
      BY <2>1
    <2>2. CASE \E n \in Names, claim \in {"claims", "denies"} :
             /\ account = [m \in Names |->
                             IF m # n THEN "absent"
                             ELSE IF claim = "claims" THEN "admin" ELSE "foreign"]
             /\ disk = [dir |-> TRUE, guard |-> FALSE, state |-> TRUE, legacy |-> claim,
                        vault |-> [state |-> "ok", name |-> n, serial |-> 0, created |-> FALSE],
                        enrollment |-> 0]
      <3>1. PICK n \in Names, claim \in {"claims", "denies"} :
             /\ account = [m \in Names |->
                             IF m # n THEN "absent"
                             ELSE IF claim = "claims" THEN "admin" ELSE "foreign"]
             /\ disk = [dir |-> TRUE, guard |-> FALSE, state |-> TRUE, legacy |-> claim,
                        vault |-> [state |-> "ok", name |-> n, serial |-> 0, created |-> FALSE],
                        enrollment |-> 0]
        BY <2>2
      <3>2. /\ disk.vault = [state |-> "ok", name |-> n, serial |-> 0, created |-> FALSE]
            /\ disk.legacy = claim
        BY <3>1
      <3>3. QED BY <3>1, <3>2
    <2>3. QED BY <2>1, <2>2 DEF Init
  <1>4. ASSUME disk.vault = NoVault, account \in [Names -> {"absent", "foreign"}]
        PROVE  VaultInv /\ OneFailureInv
    <2>1. VaultInv
      BY <1>4 DEF VaultInv, Created, NoVault
    <2>2. disk.vault.state = "absent" /\ \A n \in Names : account[n] # "admin"
      BY <1>4 DEF NoVault
    <2>3. OneFailureInv
      BY <1>2, <2>2 DEF OneFailureInv, Rollback
    <2>4. QED BY <2>1, <2>3
  <1>5. ASSUME NEW n \in Names, NEW claim \in {"claims", "denies"},
               disk.vault = [state |-> "ok", name |-> n, serial |-> 0, created |-> FALSE],
               disk.legacy = claim,
               account = [m \in Names |->
                            IF m # n THEN "absent"
                            ELSE IF claim = "claims" THEN "admin" ELSE "foreign"]
        PROVE  VaultInv /\ OneFailureInv
    <2>1. VaultInv
      BY <1>5 DEF VaultInv, Created
    <2>2. /\ disk.vault.state = "ok"
          /\ \A m \in Names : account[m] = "admin" => disk.vault.name = m
      BY <1>5
    <2>3. OneFailureInv
      BY <1>2, <2>2 DEF OneFailureInv, Rollback
    <2>4. QED BY <2>1, <2>3
  <1>6. CommandInv /\ InstallInv /\ UninstallInv
    BY <1>2 DEF CommandInv, InstallInv, UninstallInv, InstallSteps, UninstallSteps,
       AfterUser, AfterAdmin, AfterHide, Rollback
  <1>7. UninstallCleans /\ UninstallGetsPastFailure
    BY <1>2 DEF UninstallCleans, UninstallGetsPastFailure, UninstallFailsOnlyByFault
  <1>8. QED BY <1>1, <1>3, <1>4, <1>5, <1>6, <1>7 DEF SetupInv

\* ... and every step of Setup keeps it.
LEMMA SetupInvNext == SetupInv /\ [Next]_vars => SetupInv'
  BY TypesNext, CommandNext, VaultNext, InstallNext, UninstallNext, CleansNext, OneFailureNext,
     PastFailureNext DEF SetupInv

\* A command that is running began before: only somebody's command starts one.
LEMMA GoesRuns == Goes /\ pc = "idle" => pc' = "idle"
  <1> SUFFICES ASSUME Goes, pc = "idle" PROVE pc' = "idle"
    OBVIOUS
  <1>1. ~InstallStep
    BY DEF InstallStep, Step, Validate, MakeDir, SecureDir, Adopt, RefuseTornVault, Provision,
       CreateUser, AddUser, AddAdmin, Hide, Seal, CreateVault, WriteVault, Enroll,
       RollbackUnhide, RollbackDelete, RollbackRemove
  <1>2. ~UninstallStep
    BY DEF UninstallStep, Step, Load, Unhide, DeleteAccount, RemoveFile, RemoveDir
  <1>3. ~FailIntoRollback /\ ~FailInRollback /\ ~FailLegacyRead /\ ~Crash
    BY DEF FailIntoRollback, RollsBack, FailInRollback, FailLegacyRead, Crash
  <1>4. QED
    BY <1>1, <1>2, <1>3 DEF Goes, FailAndReturn, Exit, PromptDecides, PromptWritesGuard,
       PromptLeaves, proc

\* What a transaction is when it begins,
LEMMA Opened ==
  ASSUME NEW kind, NEW version, NEW first, Open(kind, version, first)
  PROVE  /\ pc = "idle" /\ msi.at = "none"
         /\ msi'.kind = kind /\ msi'.at = first /\ msi'.result = "none"
         /\ msi'.vault = disk.vault /\ (msi'.made <=> Created)
         /\ msi'.admins = Administrators /\ msi'.hidden = hidden
         /\ UNCHANGED <<account, hidden, disk, pc, args, faults, died, misread, outcome, product>>
  BY DEF Open, Idle, vars, machine, proc

\* when it goes on to its next action,
LEMMA Moved ==
  ASSUME InstallerTypeOK, NEW from, NEW to, Then(from, to)
  PROVE  /\ msi.at = from /\ msi'.at = to
         /\ msi'.kind = msi.kind /\ msi'.version = msi.version /\ msi'.result = msi.result
         /\ msi'.vault = msi.vault /\ msi'.made = msi.made
         /\ msi'.admins = msi.admins /\ msi'.hidden = msi.hidden
         /\ UNCHANGED <<account, hidden, disk, pc, args, faults, died, misread, outcome>>
  BY DEF InstallerTypeOK, Then, vars, machine, proc

\* and when it ends.
LEMMA Closed ==
  ASSUME InstallerTypeOK, NEW result, Close(result)
  PROVE  /\ msi'.at = "none" /\ msi'.result = result
         /\ msi'.kind = msi.kind /\ msi'.version = msi.version
         /\ msi'.vault = msi.vault /\ msi'.made = msi.made
         /\ msi'.admins = msi.admins /\ msi'.hidden = msi.hidden
  BY DEF InstallerTypeOK, Close

\* Every step of the MSI is one for Setup, or a fault while no command runs.
LEMMA SetupSteps ==
  ASSUME InstallerTypeOK, [InstallerNext]_allVars
  PROVE  [Next]_vars \/ (StandardActionFails /\ pc = "idle")
  <1>1. CASE Transaction
    <2>1. CASE \E v \in 1 .. MaxVersion : FirstInstall(v) \/ Upgrade(v)
      BY <2>1 DEF FirstInstall, Upgrade, Open
    <2>2. CASE Repair \/ Remove BY <2>2 DEF Repair, Remove, Open
    <2>3. CASE OtpuacCleanup \/ OtpuacProvisionRollback
      BY <2>3 DEF OtpuacCleanup, OtpuacProvisionRollback, Next, Command
    <2>4. CASE NoCleanup \/ CleanupReturns \/ RemoveFiles \/ ProvisionReturns
      BY <2>4 DEF NoCleanup, CleanupReturns, RemoveFiles, ProvisionReturns, Then
    <2>5. CASE \E n \in Names \cup {BadName}, e \in BOOLEAN : OtpuacProvision(n, e)
      BY <2>5 DEF OtpuacProvision, Next, Command
    <2>6. CASE InstallFinalize \/ RollbackReturns
      BY <2>6 DEF InstallFinalize, RollbackReturns
    <2>7. CASE StandardActionFails
      BY <2>7 DEF StandardActionFails, InstallerTypeOK
    <2>8. QED BY <1>1, <2>1, <2>2, <2>3, <2>4, <2>5, <2>6, <2>7 DEF Transaction
  <1>2. CASE CommandByHand BY <1>2 DEF CommandByHand, Next
  <1>3. CASE Goes BY <1>3 DEF Next
  <1>4. CASE \E n \in Names : AdministratorEdits(n) BY <1>4 DEF Next
  <1>5. CASE UNCHANGED allVars BY <1>5 DEF allVars
  <1>6. QED BY <1>1, <1>2, <1>3, <1>4, <1>5 DEF InstallerNext

\* The invariant of Setup is one of the installer's steps too.
LEMMA SetupInvInstaller ==
  ASSUME InstallerTypeOK, SetupInv, [InstallerNext]_allVars
  PROVE  SetupInv'
  <1>1. CASE [Next]_vars BY <1>1, SetupInvNext
  <1>2. CASE StandardActionFails /\ pc = "idle"
    <2>1. /\ UNCHANGED <<account, password, hidden, disk, inside, pc, args, isNew, runs, died,
                         misread, outcome>>
          /\ Hit
      BY <1>2 DEF StandardActionFails, machine, proc
    <2>2. TypeOK'
      BY <2>1, HitTyped DEF SetupInv, TypeOK
    <2>3. CommandInv' /\ VaultInv'
      BY <2>1 DEF SetupInv, CommandInv, VaultInv, Created
    <2>4. InstallInv'
      BY <2>1 DEF SetupInv, InstallInv
    <2>5. UninstallInv' /\ UninstallCleans'
      BY <2>1 DEF SetupInv, UninstallInv, UninstallCleans, Created, Made
    <2>6. OneFailure' => OneFailure
      BY <2>1 DEF OneFailure, Hit, SetupInv, TypeOK
    <2>7. OneFailureInv' /\ UninstallGetsPastFailure'
      BY <1>2, <2>1, <2>6 DEF SetupInv, OneFailureInv, UninstallGetsPastFailure,
         UninstallFailsOnlyByFault, Rollback
    <2>8. QED BY <2>2, <2>3, <2>4, <2>5, <2>7 DEF SetupInv
  <1>3. QED BY <1>1, <1>2, SetupSteps

\* Every step of the installer keeps the types.
LEMMA InstallerTypesNext ==
  ASSUME InstallerTypeOK, SetupInv, [InstallerNext]_allVars
  PROVE  InstallerTypeOK'
  <1>1. TypeOK'
    BY SetupInvInstaller DEF SetupInv
  <1>2. /\ disk.vault \in Vaults /\ Created \in BOOLEAN
        /\ Administrators \in SUBSET Names /\ hidden \in SUBSET Names
    BY DEF SetupInv, TypeOK, Disks, Administrators, Created
  <1> USE DEF InstallerTypeOK, Actions
  <1>3. CASE Transaction
    <2>1. CASE \E v \in 1 .. MaxVersion : FirstInstall(v) \/ Upgrade(v)
      BY <1>1, <1>2, <2>1 DEF FirstInstall, Upgrade, Open, vars, proc, Idle
    <2>2. CASE Repair \/ Remove
      BY <1>1, <1>2, <2>2 DEF Repair, Remove, Open, vars, proc, Idle
    <2>3. CASE OtpuacCleanup \/ OtpuacProvisionRollback
      BY <1>1, <2>3 DEF OtpuacCleanup, OtpuacProvisionRollback
    <2>4. CASE NoCleanup \/ CleanupReturns
      <3>1. CASE NoCleanup
        BY <1>1, <3>1 DEF NoCleanup, Then, vars, proc
      <3>2. CASE CleanupReturns
        <4>1. \/ msi' = [msi EXCEPT !.at = "RemoveFiles"]
              \/ msi' = [msi EXCEPT !.at = "none", !.result = "failed"]
          BY <3>2 DEF CleanupReturns, Then, Close
        <4>2. msi' \in [kind : {"none", "hand", "first", "upgrade", "repair", "remove"},
                at : {"none"} \cup Actions, version : 0 .. MaxVersion,
                result : {"none", "done", "failed"}, vault : Vaults, made : BOOLEAN,
                admins : SUBSET Names, hidden : SUBSET Names]
          BY ZenonT(60), <4>1
        <4>3. pc' = "idle" /\ UNCHANGED product
          BY <3>2 DEF CleanupReturns, Then, vars, proc
        <4>4. QED BY <1>1, <4>2, <4>3
      <3>3. QED BY <2>4, <3>1, <3>2
    <2>5. CASE RemoveFiles \/ ProvisionReturns
      <3>1. CASE RemoveFiles
        <4>1. \/ msi' = [msi EXCEPT !.at = "InstallFiles"]
              \/ msi' = [msi EXCEPT !.at = "none", !.result = "done"]
          BY <3>1 DEF RemoveFiles, Then, Close
        <4>2. msi' \in [kind : {"none", "hand", "first", "upgrade", "repair", "remove"},
                at : {"none"} \cup Actions, version : 0 .. MaxVersion,
                result : {"none", "done", "failed"}, vault : Vaults, made : BOOLEAN,
                admins : SUBSET Names, hidden : SUBSET Names]
          BY ZenonT(60), <4>1
        <4>3. pc = "idle" /\ UNCHANGED pc
          BY <3>1 DEF RemoveFiles, Then, vars, proc
        <4>4. product' \in 0 .. MaxVersion
          BY <3>1 DEF RemoveFiles
        <4>5. QED BY <1>1, <4>2, <4>3, <4>4
      <3>2. CASE ProvisionReturns /\ Fail /\ UNCHANGED vars
        <4>1. \/ msi' = [msi EXCEPT !.at = "rollback"]
              \/ msi' = [msi EXCEPT !.at = "none", !.result = "failed"]
          BY <3>2 DEF Fail, Close
        <4>2. msi' \in [kind : {"none", "hand", "first", "upgrade", "repair", "remove"},
                at : {"none"} \cup Actions, version : 0 .. MaxVersion,
                result : {"none", "done", "failed"}, vault : Vaults, made : BOOLEAN,
                admins : SUBSET Names, hidden : SUBSET Names]
          BY ZenonT(60), <4>1
        <4>3. pc' = "idle" /\ UNCHANGED product
          BY <3>2 DEF ProvisionReturns, vars, proc
        <4>4. QED BY <1>1, <4>2, <4>3
      <3>3. CASE ProvisionReturns /\ Then("provision", "WriteRegistryValues")
        BY <1>1, <3>3 DEF ProvisionReturns, Then, vars, proc
      <3>4. QED BY <2>5, <3>1, <3>2, <3>3 DEF ProvisionReturns
    <2>6. CASE \E n \in Names \cup {BadName}, e \in BOOLEAN : OtpuacProvision(n, e)
      <3>1. msi' = [msi EXCEPT !.at = "provision"] /\ UNCHANGED product
        BY <2>6 DEF OtpuacProvision
      <3>2. QED BY <1>1, <3>1
    <2>7. CASE InstallFinalize \/ RollbackReturns
      <3>1. CASE InstallFinalize
        BY <1>1, <3>1 DEF InstallFinalize, Close, vars, proc
      <3>2. CASE RollbackReturns
        BY <1>1, <3>2 DEF RollbackReturns, Close, vars, proc
      <3>3. QED BY <2>7, <3>1, <3>2
    <2>8. CASE StandardActionFails
      BY ZenonT(60), <1>1, <2>8 DEF StandardActionFails, Fail, Close, proc
    <2>9. QED BY <1>3, <2>1, <2>2, <2>3, <2>4, <2>5, <2>6, <2>7, <2>8 DEF Transaction
  <1>4. CASE CommandByHand
    <2>1. NoVault \in Vaults /\ 0 \in 0 .. MaxVersion
      BY VaultsTyped
    <2>2. msi' = [kind |-> "hand", at |-> "none", version |-> 0, result |-> "none",
                  vault |-> NoVault, made |-> FALSE, admins |-> {}, hidden |-> {}]
      BY <1>4 DEF CommandByHand, NoTransaction
    <2>3. msi' \in [kind : {"none", "hand", "first", "upgrade", "repair", "remove"},
                    at : {"none"} \cup Actions, version : 0 .. MaxVersion,
                    result : {"none", "done", "failed"}, vault : Vaults, made : BOOLEAN,
                    admins : SUBSET Names, hidden : SUBSET Names]
      BY ZenonT(60), <2>1, <2>2
    <2>4. QED BY <1>1, <1>4, <2>2, <2>3 DEF CommandByHand
  <1>5. CASE Goes /\ UNCHANGED <<product, msi>>
    BY <1>1, <1>5, GoesRuns
  <1>6. CASE Idle /\ \E n \in Names : AdministratorEdits(n) /\ UNCHANGED <<product, msi>>
    BY <1>1, <1>6 DEF Idle, AdministratorEdits, proc
  <1>7. CASE UNCHANGED allVars BY <1>1, <1>7 DEF allVars, vars, proc
  <1>8. QED BY <1>3, <1>4, <1>5, <1>6, <1>7 DEF InstallerNext

\* The record of a command keeps what it was given until the next one begins.
LEMMA RecordKept ==
  ASSUME TypeOK, Goes
  PROVE  outcome'.cmd = outcome.cmd /\ outcome'.vault = outcome.vault
         /\ outcome'.made = outcome.made
  <1> outcome \in Outcomes
    BY DEF TypeOK
  <1> USE DEF Step
  <1>1. CASE InstallStep
    <2>1. CASE Validate
      BY <2>1, Returned DEF Validate
    <2>2. CASE MakeDir
      BY <2>2, Returned DEF MakeDir
    <2>3. CASE SecureDir
      BY <2>3, Returned DEF SecureDir
    <2>4. CASE Adopt
      BY <2>4, Returned DEF Adopt
    <2>5. CASE RefuseTornVault
      BY <2>5, Returned DEF RefuseTornVault
    <2>6. CASE Provision
      BY <2>6, Returned DEF Provision
    <2>7. CASE CreateUser
      BY <2>7, Returned DEF CreateUser, AddUser
    <2>8. CASE AddAdmin
      BY <2>8, Returned DEF AddAdmin
    <2>9. CASE Hide
      BY <2>9, Returned DEF Hide
    <2>10. CASE Seal
      BY <2>10, Returned DEF Seal
    <2>11. CASE CreateVault
      BY <2>11, Returned DEF CreateVault
    <2>12. CASE WriteVault
      BY <2>12, Returned DEF WriteVault
    <2>13. CASE Enroll
      BY <2>13, Returned DEF Enroll
    <2>14. CASE RollbackUnhide
      BY <2>14, Returned DEF RollbackUnhide
    <2>15. CASE RollbackDelete
      BY <2>15, Returned DEF RollbackDelete
    <2>16. CASE RollbackRemove
      BY <2>16, Returned DEF RollbackRemove
    <2>17. QED
      BY <1>1, <2>1, <2>2, <2>3, <2>4, <2>5, <2>6, <2>7, <2>8, <2>9, <2>10, <2>11, <2>12,
         <2>13, <2>14, <2>15, <2>16
      DEF InstallStep
  <1>2. CASE UninstallStep
    <2>1. CASE Load
      BY <2>1, Returned DEF Load
    <2>2. CASE Unhide
      BY <2>2, Returned DEF Unhide
    <2>3. CASE DeleteAccount
      BY <2>3, Returned DEF DeleteAccount
    <2>4. CASE RemoveFile("vault", "guard")
      BY <2>4, Returned DEF RemoveFile
    <2>5. CASE RemoveFile("guard", "legacy")
      BY <2>5, Returned DEF RemoveFile
    <2>6. CASE RemoveFile("legacy", "state")
      BY <2>6, Returned DEF RemoveFile
    <2>7. CASE RemoveFile("state", "rmdir")
      BY <2>7, Returned DEF RemoveFile
    <2>8. CASE RemoveDir
      BY <2>8, Returned DEF RemoveDir
    <2>9. QED
      BY <1>2, <2>1, <2>2, <2>3, <2>4, <2>5, <2>6, <2>7, <2>8
      DEF UninstallStep
  <1>3. CASE FailIntoRollback
    BY <1>3, Recorded DEF FailIntoRollback
  <1>4. CASE FailInRollback
    BY <1>4, Recorded DEF FailInRollback, Exit
  <1>5. CASE FailAndReturn
    BY <1>5, Recorded DEF FailAndReturn, Exit
  <1>6. CASE Crash
    BY <1>6, Recorded DEF Crash, Exit
  <1>7. CASE FailLegacyRead
    BY <1>7, Recorded DEF FailLegacyRead
  <1>8. CASE PromptDecides
    BY <1>8 DEF PromptDecides, Outcomes
  <1>9. CASE PromptWritesGuard BY <1>9 DEF PromptWritesGuard
  <1>10. CASE PromptLeaves BY <1>10 DEF PromptLeaves
  <1>11. QED
    BY <1>1, <1>2, <1>3, <1>4, <1>5, <1>6, <1>7, <1>8, <1>9, <1>10
    DEF Goes

\* While no command runs, only prompts go on.
LEMMA IdleKeeps ==
  ASSUME TypeOK, Goes, pc = "idle"
  PROVE  /\ UNCHANGED <<account, password, hidden>> /\ disk'.vault = disk.vault
         /\ disk'.legacy = disk.legacy /\ (disk.guard => disk'.guard)
         /\ outcome'.result = outcome.result
  <1> disk \in Disks /\ outcome \in Outcomes
    BY DEF TypeOK
  <1>1. ~InstallStep
    BY DEF InstallStep, Step, Validate, MakeDir, SecureDir, Adopt, RefuseTornVault, Provision,
       CreateUser, AddUser, AddAdmin, Hide, Seal, CreateVault, WriteVault, Enroll,
       RollbackUnhide, RollbackDelete, RollbackRemove
  <1>2. ~UninstallStep
    BY DEF UninstallStep, Step, Load, Unhide, DeleteAccount, RemoveFile, RemoveDir
  <1>3. /\ ~FailIntoRollback /\ ~FailInRollback /\ ~FailLegacyRead
        /\ ~FailAndReturn /\ ~Crash
    BY DEF FailIntoRollback, RollsBack, FailInRollback, FailLegacyRead, Crash, FailAndReturn,
       Returns, Gone
  <1>4. CASE PromptDecides BY <1>4 DEF PromptDecides, Outcomes, machine
  <1>5. CASE PromptWritesGuard
    BY <1>5, GuardWritten DEF PromptWritesGuard
  <1>6. CASE PromptLeaves BY <1>6 DEF PromptLeaves, machine
  <1>7. QED BY <1>1, <1>2, <1>3, <1>4, <1>5, <1>6 DEF Goes

\* A command that installs and has found a vault keeps what there is.
LEMMA AdoptStep ==
  ASSUME SetupInv, [Next]_vars, pc # "idle", outcome.cmd = "install",
         outcome.vault.state = "ok"
  PROVE  /\ UNCHANGED <<account, password, hidden>> /\ disk'.vault = disk.vault
         /\ disk.guard => disk'.guard
  <1>1. /\ pc \in {"validate", "makedir", "secure", "check", "enroll"}
        /\ ~isNew /\ disk.vault.state = "ok" /\ disk \in Disks /\ isNew \in BOOLEAN
    BY DEF SetupInv, TypeOK, CommandInv, InstallInv, VaultInv, UninstallSteps
  <1> USE <1>1 DEF Step, machine
  <1>2. CASE InstallStep
    <2>1. CASE Validate \/ SecureDir \/ Adopt \/ RefuseTornVault \/ Provision
      BY <2>1 DEF Validate, SecureDir, Adopt, RefuseTornVault, Provision
    <2>2. CASE MakeDir
      <3>1. UNCHANGED <<account, password, hidden>> BY <2>2 DEF MakeDir, Write
      <3>2. QED BY <2>2, <3>1, WriteOtherFile DEF MakeDir
    <2>3. CASE Enroll BY <2>3, Enrolled
    <2>4. QED
      BY <1>2, <2>1, <2>2, <2>3 DEF InstallStep, CreateUser, AddUser, AddAdmin, Hide, Seal,
         CreateVault, WriteVault, RollbackUnhide, RollbackDelete, RollbackRemove
  <1>3. ~UninstallStep
    BY DEF UninstallStep, Load, Unhide, DeleteAccount, RemoveFile, RemoveDir
  <1>4. CASE FailIntoRollback \/ FailAndReturn \/ Crash
    BY <1>4, EnrollmentLeft DEF FailIntoRollback, FailAndReturn, Crash
  <1>5. CASE FailInRollback \/ FailLegacyRead
    BY <1>5 DEF FailInRollback, FailLegacyRead
  <1>6. CASE PromptDecides \/ PromptLeaves
    BY <1>6 DEF PromptDecides, PromptLeaves
  <1>7. CASE PromptWritesGuard BY <1>7, GuardWritten
  <1>8. ~Command
    BY DEF Command, Install, Uninstall, Begin
  <1>9. ~\E n \in Names : AdministratorEdits(n)
    BY DEF AdministratorEdits
  <1>10. CASE UNCHANGED vars BY <1>10 DEF vars
  <1>11. QED
    BY <1>2, <1>3, <1>4, <1>5, <1>6, <1>7, <1>8, <1>9, <1>10 DEF Next, Goes

\* A transaction that begins a command has it on record.
LEMMA CommandRecorded ==
  ASSUME TypeOK
  PROVE  /\ Uninstall => outcome'.cmd = "uninstall" /\ outcome'.vault = disk.vault
                         /\ (outcome'.made <=> Created)
         /\ \A n \in Names \cup {BadName}, e \in BOOLEAN :
               Install(n, e) => outcome'.cmd = "install" /\ outcome'.vault = disk.vault
         /\ Uninstall \/ (\E n \in Names \cup {BadName}, e \in BOOLEAN : Install(n, e)) =>
               UNCHANGED <<account, password, hidden, disk>> /\ pc = "idle" /\ pc' # "idle"
  <1>1. ASSUME NEW arguments, NEW first, Begin(arguments, first), first # "idle"
        PROVE  /\ outcome'.cmd = arguments.cmd /\ outcome'.vault = disk.vault
               /\ (outcome'.made <=> Created)
               /\ UNCHANGED <<account, password, hidden, disk>> /\ pc = "idle" /\ pc' # "idle"
    BY <1>1 DEF Begin, Clean, machine
  <1>2. ASSUME Uninstall
        PROVE  /\ outcome'.cmd = "uninstall" /\ outcome'.vault = disk.vault
               /\ (outcome'.made <=> Created)
               /\ UNCHANGED <<account, password, hidden, disk>> /\ pc = "idle" /\ pc' # "idle"
    BY <1>1, <1>2 DEF Uninstall
  <1>3. ASSUME NEW n \in Names \cup {BadName}, NEW e \in BOOLEAN, Install(n, e)
        PROVE  /\ outcome'.cmd = "install" /\ outcome'.vault = disk.vault
               /\ UNCHANGED <<account, password, hidden, disk>> /\ pc = "idle" /\ pc' # "idle"
    BY <1>1, <1>3 DEF Install
  <1>4. QED BY <1>2, <1>3

\* TransactionInv is inductive relative to the invariant of Setup.
LEMMA TransactionNext ==
  ASSUME InstallerTypeOK, SetupInv, TransactionInv, [InstallerNext]_allVars
  PROVE  TransactionInv'
  <1> TypeOK
    BY DEF SetupInv
  <1> USE DEF TransactionInv, InstallerTypeOK, Actions
  <1>1. CASE Transaction
    <2>1. CASE \E v \in 1 .. MaxVersion : FirstInstall(v) \/ Upgrade(v)
      BY <2>1 DEF FirstInstall, Upgrade, Open, vars, proc
    <2>2. CASE Repair \/ Remove BY <2>2 DEF Repair, Remove, Open, vars, proc
    <2>3. CASE OtpuacCleanup
      BY <2>3, CommandRecorded DEF OtpuacCleanup, CleansUp
    <2>4. CASE NoCleanup BY <2>4 DEF NoCleanup, CleansUp, Then, vars, proc
    <2>5. CASE CleanupReturns BY <2>5, Moved, Closed DEF CleanupReturns, vars, proc
    <2>6. CASE RemoveFiles BY <2>6, Moved, Closed DEF RemoveFiles, vars, proc
    <2>7. CASE \E n \in Names \cup {BadName}, e \in BOOLEAN : OtpuacProvision(n, e)
      BY <2>7, CommandRecorded DEF OtpuacProvision
    <2>8. CASE ProvisionReturns
      <3>1. CASE Then("provision", "WriteRegistryValues") /\ outcome.result = "ok"
        BY <2>8, <3>1 DEF ProvisionReturns, Then, vars, proc
      <3>2. CASE Fail /\ UNCHANGED vars
        <4>1. pc' = "idle" /\ outcome' = outcome /\ msi.at = "provision"
          BY <2>8, <3>2 DEF ProvisionReturns, vars, proc
        <4>2. CASE msi.kind = "first" /\ msi' = [msi EXCEPT !.at = "rollback"]
          BY <4>1, <4>2
        <4>3. CASE Close("failed")
          BY <4>1, <4>3 DEF Close
        <4>4. QED BY <3>2, <4>2, <4>3 DEF Fail, QueuesRollback
      <3>3. QED BY <2>8, <3>1, <3>2 DEF ProvisionReturns
    <2>9. CASE InstallFinalize BY <2>9 DEF InstallFinalize, Close, vars, proc
    <2>10. CASE OtpuacProvisionRollback
      BY <2>10, CommandRecorded DEF OtpuacProvisionRollback
    <2>11. CASE RollbackReturns BY <2>11 DEF RollbackReturns, Close, vars, proc
    <2>12. CASE StandardActionFails
      <3>1. pc' = "idle" /\ outcome' = outcome
        BY <2>12 DEF StandardActionFails, proc
      <3>2. CASE msi.kind = "first" /\ msi' = [msi EXCEPT !.at = "rollback"]
        BY <2>12, <3>1, <3>2 DEF StandardActionFails
      <3>3. CASE Close("failed")
        BY <3>1, <3>3 DEF Close
      <3>4. QED BY <2>12, <3>2, <3>3 DEF StandardActionFails, Fail, QueuesRollback
    <2>13. QED
      BY <1>1, <2>1, <2>2, <2>3, <2>4, <2>5, <2>6, <2>7, <2>8, <2>9, <2>10, <2>11, <2>12
      DEF Transaction
  <1>2. CASE CommandByHand
    BY <1>2 DEF CommandByHand, NoTransaction
  <1>3. CASE Goes /\ UNCHANGED <<product, msi>>
    BY <1>3, RecordKept, IdleKeeps, GoesRuns
  <1>4. CASE Idle /\ \E n \in Names : AdministratorEdits(n) /\ UNCHANGED <<product, msi>>
    BY <1>4 DEF Idle, AdministratorEdits, proc
  <1>5. CASE UNCHANGED allVars BY <1>5 DEF allVars, vars, proc
  <1>6. QED BY <1>1, <1>2, <1>3, <1>4, <1>5 DEF InstallerNext

\* KeepInv is inductive relative to the others.
LEMMA KeepNext ==
  ASSUME InstallerTypeOK, SetupInv, TransactionInv, KeepInv, [InstallerNext]_allVars
  PROVE  KeepInv'
  <1> TypeOK
    BY DEF SetupInv
  <1> USE DEF KeepInv, InstallerTypeOK, Actions, machine
  <1>1. CASE Transaction
    <2>1. CASE \E v \in 1 .. MaxVersion : FirstInstall(v) \/ Upgrade(v)
      BY <2>1 DEF FirstInstall, Upgrade, Open, vars, proc
    <2>2. CASE Repair \/ Remove BY <2>2 DEF Repair, Remove, Open, vars, proc
    <2>3. CASE OtpuacCleanup
      BY <2>3 DEF OtpuacCleanup, CleansUp, TransactionInv
    <2>4. CASE NoCleanup BY <2>4 DEF NoCleanup, CleansUp, Then, vars, proc
    <2>5. CASE CleanupReturns BY <2>5 DEF CleanupReturns, Then, Close, vars, proc
    <2>6. CASE RemoveFiles BY <2>6 DEF RemoveFiles, Then, Close, vars, proc
    <2>7. CASE \E n \in Names \cup {BadName}, e \in BOOLEAN : OtpuacProvision(n, e)
      BY <2>7, CommandRecorded DEF OtpuacProvision
    <2>8. CASE ProvisionReturns
      BY <2>8 DEF ProvisionReturns, Fail, QueuesRollback, Then, Close, vars, proc
    <2>9. CASE InstallFinalize BY <2>9 DEF InstallFinalize, Close, vars, proc
    <2>10. CASE OtpuacProvisionRollback
      BY <2>10, CommandRecorded DEF OtpuacProvisionRollback, TransactionInv
    <2>11. CASE RollbackReturns BY <2>11 DEF RollbackReturns, Close, vars, proc
    <2>12. CASE StandardActionFails
      BY <2>12 DEF StandardActionFails, Fail, QueuesRollback, Close, proc
    <2>13. QED
      BY <1>1, <2>1, <2>2, <2>3, <2>4, <2>5, <2>6, <2>7, <2>8, <2>9, <2>10, <2>11, <2>12
      DEF Transaction
  <1>2. CASE CommandByHand
    BY <1>2 DEF CommandByHand, NoTransaction
  <1>3. CASE Goes /\ UNCHANGED <<product, msi>>
    <2>1. CASE pc = "idle"
      BY <1>3, <2>1, RecordKept, IdleKeeps
    <2>2. CASE pc # "idle"
      <3> SUFFICES ASSUME KeepInv, msi.kind \in {"upgrade", "repair"}, msi.at # "none",
                          msi.vault.state = "ok"
                   PROVE  KeepInv'
        BY <1>3
      <3>1. msi.at = "provision" /\ outcome.cmd = "install" /\ outcome.vault = msi.vault
        BY <2>2 DEF TransactionInv
      <3>2. disk'.vault = disk.vault
        BY <1>3, <2>2, <3>1, AdoptStep DEF Next
      <3>3. QED BY <1>3, <3>2, RecordKept
    <2>3. QED BY <2>1, <2>2
  <1>4. CASE Idle /\ \E n \in Names : AdministratorEdits(n) /\ UNCHANGED <<product, msi>>
    BY <1>4 DEF Idle, AdministratorEdits, proc
  <1>5. CASE UNCHANGED allVars BY <1>5 DEF allVars, vars, proc
  <1>6. QED BY <1>1, <1>2, <1>3, <1>4, <1>5 DEF InstallerNext

\* Faults are counted, and a death is not forgotten.
LEMMA GoesFaults ==
  ASSUME TypeOK, Goes
  PROVE  faults <= faults' /\ (died => died')
  <1> faults \in Nat /\ outcome \in Outcomes
    BY DEF TypeOK
  <1> USE DEF Step
  <1>1. CASE InstallStep
    <2>1. CASE Validate
      BY <2>1 DEF Validate, Return
    <2>2. CASE MakeDir
      BY <2>2 DEF MakeDir
    <2>3. CASE SecureDir
      BY <2>3 DEF SecureDir
    <2>4. CASE Adopt
      BY <2>4 DEF Adopt
    <2>5. CASE RefuseTornVault
      BY <2>5 DEF RefuseTornVault, Return
    <2>6. CASE Provision
      BY <2>6 DEF Provision
    <2>7. CASE CreateUser
      BY <2>7 DEF CreateUser, AddUser, Return
    <2>8. CASE AddAdmin
      BY <2>8 DEF AddAdmin
    <2>9. CASE Hide
      BY <2>9 DEF Hide
    <2>10. CASE Seal
      BY <2>10 DEF Seal
    <2>11. CASE CreateVault
      BY <2>11 DEF CreateVault
    <2>12. CASE WriteVault
      BY <2>12 DEF WriteVault
    <2>13. CASE Enroll
      BY <2>13 DEF Enroll, Return
    <2>14. CASE RollbackUnhide
      BY <2>14 DEF RollbackUnhide
    <2>15. CASE RollbackDelete
      BY <2>15 DEF RollbackDelete
    <2>16. CASE RollbackRemove
      BY <2>16 DEF RollbackRemove, Return
    <2>17. QED
      BY <1>1, <2>1, <2>2, <2>3, <2>4, <2>5, <2>6, <2>7, <2>8, <2>9, <2>10, <2>11, <2>12,
         <2>13, <2>14, <2>15, <2>16
      DEF InstallStep
  <1>2. CASE UninstallStep
    <2>1. CASE Load
      BY <2>1 DEF Load
    <2>2. CASE Unhide
      BY <2>2 DEF Unhide
    <2>3. CASE DeleteAccount
      BY <2>3 DEF DeleteAccount
    <2>4. CASE RemoveFile("vault", "guard")
      BY <2>4 DEF RemoveFile
    <2>5. CASE RemoveFile("guard", "legacy")
      BY <2>5 DEF RemoveFile
    <2>6. CASE RemoveFile("legacy", "state")
      BY <2>6 DEF RemoveFile
    <2>7. CASE RemoveFile("state", "rmdir")
      BY <2>7 DEF RemoveFile
    <2>8. CASE RemoveDir
      BY <2>8 DEF RemoveDir, Return
    <2>9. QED
      BY <1>2, <2>1, <2>2, <2>3, <2>4, <2>5, <2>6, <2>7, <2>8
      DEF UninstallStep
  <1>3. CASE FailIntoRollback
    BY <1>3 DEF FailIntoRollback, RollsBack, Hit
  <1>4. CASE FailInRollback
    BY <1>4 DEF FailInRollback, Hit
  <1>5. CASE FailAndReturn
    BY <1>5 DEF FailAndReturn, Hit
  <1>6. CASE Crash
    BY <1>6 DEF Crash, Hit
  <1>7. CASE FailLegacyRead
    BY <1>7 DEF FailLegacyRead, Hit
  <1>8. CASE PromptDecides BY <1>8 DEF PromptDecides
  <1>9. CASE PromptWritesGuard BY <1>9 DEF PromptWritesGuard
  <1>10. CASE PromptLeaves BY <1>10 DEF PromptLeaves
  <1>11. QED
    BY <1>1, <1>2, <1>3, <1>4, <1>5, <1>6, <1>7, <1>8, <1>9, <1>10
    DEF Goes

\* What goes on by itself keeps UndoInv.
LEMMA UndoGoes ==
  ASSUME InstallerTypeOK, SetupInv, TransactionInv, UndoInv, Goes, UNCHANGED msi,
         OneFailure', msi.kind = "first", msi.vault.state = "absent"
  PROVE  UndoInv'
  <1> TypeOK /\ InstallInv /\ UninstallInv /\ OneFailureInv /\ CommandInv /\ VaultInv
    BY DEF SetupInv
  <1> disk \in Disks /\ outcome \in Outcomes
    BY DEF TypeOK
  <1>0. /\ faults \in Nat /\ pc \in {"idle"} \cup InstallSteps \cup UninstallSteps
        /\ pc \in InstallSteps \ {"validate"} => args.name \in Names
        /\ disk.vault.state \in {"absent", "torn", "ok"}
    BY DEF TypeOK, Disks, Vaults
  <1> OneFailure
    <2>1. faults <= faults' /\ (died => died')
      BY GoesFaults
    <2>2. faults' \in Nat
      BY TypesNext DEF Next, TypeOK
    <2>3. QED BY <2>1, <2>2, <1>0 DEF OneFailure
  <1>a. /\ pc \in InstallSteps => msi.at = "provision"
        /\ pc \in UninstallSteps => msi.at = "undo"
    BY DEF TransactionInv, CommandInv, InstallerTypeOK, InstallSteps, UninstallSteps
  <1>b. outcome'.vault = outcome.vault
    BY RecordKept
  <1> USE <1>a, <1>b DEF UndoInv, OneFailure, AfterUser, AfterAdmin, AfterHide, Rollback,
              InstallSteps, UninstallSteps, Step, machine, proc
  <1>1. CASE InstallStep
    <2>1. CASE Validate
      <3>1. CASE args.name \in Names /\ Step("validate", "makedir") /\ UNCHANGED machine
        BY <3>1
      <3>2. CASE pc = "validate" /\ Return("error") /\ UNCHANGED machine
        <4>1. pc' = "idle" /\ UNCHANGED <<faults, died>>
          BY <3>2, Returned
        <4>2. QED BY <3>2, <4>1 DEF InstallInv
      <3>3. QED BY <2>1, <3>1, <3>2 DEF Validate
    <2>2. CASE MakeDir
      BY <2>2, WriteOtherFile DEF MakeDir, Write
    <2>3. CASE SecureDir BY <2>3 DEF SecureDir
    <2>4. CASE Adopt BY <2>4 DEF Adopt
    <2>5. CASE RefuseTornVault
      BY <2>5, Returned DEF RefuseTornVault, OneFailureInv
    <2>6. CASE Provision BY <2>6 DEF Provision
    <2>7. CASE CreateUser
      <3>1. CASE AddUser
        BY <3>1 DEF AddUser
      <3>2. CASE pc = "adduser" /\ Return("error") /\ UNCHANGED machine
        <4>1. pc' = "idle" /\ UNCHANGED <<faults, died>>
          BY <3>2, Returned
        <4>2. QED BY <3>2, <4>1 DEF InstallInv
      <3>3. QED BY <2>7, <3>1, <3>2 DEF CreateUser
    <2>8. CASE AddAdmin BY <2>8 DEF AddAdmin
    <2>9. CASE Hide BY <2>9 DEF Hide
    <2>10. CASE Seal BY <2>10 DEF Seal
    <2>11. CASE CreateVault
      <3>1. disk'.vault = [NoVault EXCEPT !.state = "torn"]
        BY <2>11, WriteVaultFile, VaultsTyped DEF CreateVault
      <3>2. disk'.vault.state = "torn" /\ UNCHANGED <<account, hidden>>
        BY <2>11, <3>1 DEF CreateVault, Write, NoVault
      <3>3. disk.vault.state = "absent"
        BY <2>11 DEF CreateVault, InstallInv
      <3>4. QED BY <2>11, <3>2, <3>3 DEF CreateVault
    <2>12. CASE WriteVault
      <3>1. args.name \in Names
        BY <2>12, <1>0 DEF WriteVault
      <3>2. UNCHANGED <<account, hidden>>
        BY <2>12 DEF WriteVault, Write
      <3>3. disk'.vault = [state |-> "ok", name |-> args.name, serial |-> runs,
         created |-> TRUE]
        BY <2>12, <3>1, WriteVaultFile, VaultsTyped DEF WriteVault, TypeOK
      <3>4. QED BY <2>12, <3>2, <3>3 DEF WriteVault, InstallInv
    <2>13. CASE Enroll
      <3>1. pc = "enroll" /\ disk.vault.state = "ok" /\ msi.at = "provision"
        BY <2>13 DEF Enroll, InstallInv
      <3>2. disk'.vault = disk.vault /\ UNCHANGED <<account, hidden>>
        BY <2>13, Enrolled
      <3>3. pc' = "idle" /\ outcome'.result = "ok" /\ UNCHANGED <<faults, died>>
        BY <2>13, Returned DEF Enroll
      <3>4. disk.vault.created
        BY <3>1, <3>3
      <3>5. ASSUME NEW n \in hidden \ msi.hidden PROVE n = disk.vault.name
        BY <3>1, <3>3, <3>5
      <3>6. QED BY <3>1, <3>2, <3>3, <3>4, <3>5
    <2>14. CASE RollbackUnhide
      BY <2>14 DEF RollbackUnhide, UnhideName, InstallInv
    <2>15. CASE RollbackDelete
      BY <2>15 DEF RollbackDelete, DeleteName
    <2>16. CASE RollbackRemove
      <3>1. /\ pc' = "idle" /\ UNCHANGED <<account, hidden, faults, died>> /\ disk'.vault = NoVault
          /\ pc = "rb_remove"
        BY <2>16, VaultRemoved, Returned DEF RollbackRemove
      <3>2. QED BY <3>1 DEF NoVault, InstallInv, OneFailureInv
    <2>17. QED
      BY <1>1, <2>1, <2>2, <2>3, <2>4, <2>5, <2>6, <2>7, <2>8, <2>9, <2>10, <2>11, <2>12,
         <2>13, <2>14, <2>15, <2>16
      DEF InstallStep
  <1>2. CASE UninstallStep
    <2>1. CASE Load
      BY <2>1 DEF Load, Created
    <2>2. CASE Unhide
      BY <2>2 DEF Unhide, UnhideName
    <2>3. CASE DeleteAccount
      BY <2>3 DEF DeleteAccount, DeleteName
    <2>4. CASE RemoveFile("vault", "guard")
      <3>1. disk'.vault = NoVault /\ UNCHANGED <<account, hidden>> /\ pc = "vault"
        BY <2>4, VaultRemoved DEF RemoveFile, Gone
      <3>2. msi.at = "undo" /\ pc' = "guard" /\ UNCHANGED <<faults, died>>
        BY <2>4, <3>1 DEF RemoveFile
      <3>3. ASSUME NEW n \in Names \ msi.admins, account[n] = "admin" PROVE FALSE
        BY <3>1, <3>2, <3>3 DEF OneFailureInv
      <3>4. QED BY <3>1, <3>2, <3>3 DEF NoVault
    <2>5. CASE RemoveFile("guard", "legacy")
      <3>1. /\ pc = "guard" /\ pc' = "legacy" /\ UNCHANGED <<account, hidden, faults, died>>
            /\ disk'.vault = disk.vault
        BY <2>5, FileRemoved DEF RemoveFile
      <3>2. QED BY <3>1
    <2>6. CASE RemoveFile("legacy", "state")
      <3>1. /\ pc = "legacy" /\ pc' = "state" /\ UNCHANGED <<account, hidden, faults, died>>
            /\ disk'.vault = disk.vault
        BY <2>6, FileRemoved DEF RemoveFile
      <3>2. QED BY <3>1
    <2>7. CASE RemoveFile("state", "rmdir")
      <3>1. /\ pc = "state" /\ pc' = "rmdir" /\ UNCHANGED <<account, hidden, faults, died>>
            /\ disk'.vault = disk.vault
        BY <2>7, FileRemoved DEF RemoveFile
      <3>2. QED BY <3>1
    <2>8. CASE RemoveDir
      <3>1. /\ pc' = "idle" /\ UNCHANGED <<account, hidden, faults, died>> /\ disk'.vault = disk.vault
          /\ disk.vault = NoVault /\ pc = "rmdir" /\ msi.at = "undo"
        BY <2>8, DirRemoved, Returned DEF RemoveDir, UninstallInv
      <3>2. disk.vault.state = "absent" /\ disk'.vault.state = "absent"
        BY <3>1 DEF NoVault
      <3>3. QED BY <3>1, <3>2
    <2>9. QED
      BY <1>2, <2>1, <2>2, <2>3, <2>4, <2>5, <2>6, <2>7, <2>8
      DEF UninstallStep
  <1>3. CASE FailIntoRollback
    BY <1>3, EnrollmentLeft DEF FailIntoRollback, RollsBack, Hit, InstallInv
  <1>4. CASE FailInRollback
    BY <1>4 DEF FailInRollback, Hit, OneFailureInv
  <1>5. CASE FailAndReturn
    <2>1. /\ pc' = "idle" /\ UNCHANGED <<account, hidden, died>> /\ disk'.vault = disk.vault
        /\ faults' = faults + 1
      BY <1>5, EnrollmentLeft DEF FailAndReturn, Exit, Hit
    <2>2. CASE pc \in InstallSteps
      BY <1>5, <2>1, <2>2 DEF FailAndReturn, Returns, RollsBack, Gone, InstallInv
    <2>3. CASE pc \in UninstallSteps
      BY <1>5, <2>1, <2>3, <1>0 DEF FailAndReturn, UninstallInv, NoVault
    <2>4. QED BY <1>5, <2>2, <2>3, <1>0 DEF FailAndReturn, Returns, RollsBack, Gone
  <1>6. CASE Crash
    BY <1>6 DEF Crash
  <1>7. CASE FailLegacyRead
    BY <1>7 DEF FailLegacyRead, Hit
  <1>8. CASE PromptDecides
    BY <1>8 DEF PromptDecides, Outcomes
  <1>9. CASE PromptWritesGuard
    BY <1>9, GuardWritten DEF PromptWritesGuard
  <1>10. CASE PromptLeaves BY <1>10 DEF PromptLeaves
  <1>11. QED
    BY <1>1, <1>2, <1>3, <1>4, <1>5, <1>6, <1>7, <1>8, <1>9, <1>10
    DEF Goes

\* The start of a command changes nothing but what is said of it.
LEMMA CommandUnfolds ==
  ASSUME TypeOK, Uninstall \/ (\E n \in Names \cup {BadName}, e \in BOOLEAN : Install(n, e))
  PROVE  /\ UNCHANGED <<account, password, hidden, disk, faults, died>> /\ pc = "idle"
         /\ Uninstall => pc' = "load"
         /\ (\E n \in Names \cup {BadName}, e \in BOOLEAN : Install(n, e)) => pc' = "validate"
         /\ outcome'.vault = disk.vault
  BY DEF Uninstall, Install, Begin, Clean, machine

\* UndoInv is inductive relative to the others.
LEMMA UndoNext ==
  ASSUME InstallerTypeOK, SetupInv, TransactionInv, UndoInv, [InstallerNext]_allVars
  PROVE  UndoInv'
  <1> TypeOK
    BY DEF SetupInv
  <1>0. /\ faults \in Nat /\ died \in BOOLEAN
        /\ disk.vault.state # "ok" => ~disk.vault.created
        /\ OneFailure /\ pc = "idle" => disk.vault.state # "torn"
        /\ disk.vault.state \in {"absent", "torn", "ok"}
    BY DEF TypeOK, SetupInv, VaultInv, OneFailureInv, Rollback, Disks, Vaults
  <1> USE DEF UndoInv, InstallerTypeOK, Actions, AfterUser, AfterAdmin, AfterHide, Rollback,
     machine
  <1>1. CASE Transaction
    <2>1. CASE \E v \in 1 .. MaxVersion : FirstInstall(v) \/ Upgrade(v)
      BY <2>1 DEF FirstInstall, Upgrade, Open, Administrators, vars, proc, Idle, OneFailure
    <2>2. CASE Repair \/ Remove
      BY <2>2 DEF Repair, Remove, Open, vars, proc, Idle, OneFailure
    <2>3. CASE OtpuacCleanup
      BY <2>3 DEF OtpuacCleanup, CleansUp, TransactionInv
    <2>4. CASE NoCleanup
      BY <2>4 DEF NoCleanup, Then, TransactionInv, vars, proc
    <2>5. CASE CleanupReturns
      BY <2>5 DEF CleanupReturns, Then, Close, TransactionInv, vars, proc
    <2>6. CASE RemoveFiles
      BY <2>6 DEF RemoveFiles, Then, Close, TransactionInv, vars, proc
    <2>7. CASE \E n \in Names \cup {BadName}, e \in BOOLEAN : OtpuacProvision(n, e)
      BY <2>7, CommandUnfolds DEF OtpuacProvision, OneFailure
    <2>8. CASE ProvisionReturns
      <3>1. CASE outcome.result = "ok" /\ Then("provision", "WriteRegistryValues")
        BY <2>8, <3>1 DEF ProvisionReturns, Then, vars, proc, OneFailure
      <3>2. CASE outcome.result # "ok" /\ Fail /\ UNCHANGED vars
        <4>1. /\ UNCHANGED <<account, hidden, args, disk, pc, faults, died, outcome>>
              /\ pc = "idle" /\ msi.at = "provision"
          BY <2>8, <3>2 DEF ProvisionReturns, vars, proc
        <4>2. CASE msi.kind = "first" /\ msi' = [msi EXCEPT !.at = "rollback"]
          BY <3>2, <4>1, <4>2 DEF OneFailure
        <4>3. CASE msi.kind # "first"
          BY <3>2, <4>1, <4>3, Closed DEF Fail, QueuesRollback
        <4>4. QED BY <3>2, <4>2, <4>3 DEF Fail, QueuesRollback
      <3>3. QED BY <2>8, <3>1, <3>2 DEF ProvisionReturns
    <2>9. CASE InstallFinalize
      BY <2>9 DEF InstallFinalize, Close, vars, proc, OneFailure
    <2>10. CASE OtpuacProvisionRollback
      BY <2>10, CommandUnfolds DEF OtpuacProvisionRollback, OneFailure
    <2>11. CASE RollbackReturns
      BY <2>11 DEF RollbackReturns, Close, vars, proc, OneFailure
    <2>12. CASE StandardActionFails
      <3>1. /\ UNCHANGED <<account, hidden, args, disk, pc, died, outcome>> /\ faults' = faults + 1
            /\ pc = "idle" /\ (OneFailure' => OneFailure /\ faults' = 1)
        BY <2>12, <1>0 DEF StandardActionFails, Hit, proc, OneFailure
      <3>2. CASE msi.at = "WriteRegistryValues" /\ Fail
        <4>1. CASE msi.kind = "first" /\ msi' = [msi EXCEPT !.at = "rollback"]
          BY <3>1, <3>2, <4>1, <1>0
        <4>2. CASE msi.kind # "first"
          BY <3>1, <3>2, <4>2, <1>0 DEF Fail, QueuesRollback, Close
        <4>3. QED BY <3>2, <4>1, <4>2 DEF Fail, QueuesRollback
      <3>3. CASE msi.at \in {"RemoveOld", "RemoveFiles", "InstallFiles"} /\ Close("failed")
        BY <3>1, <3>3, <1>0 DEF Close, TransactionInv
      <3>4. QED BY <2>12, <3>2, <3>3 DEF StandardActionFails
    <2>13. QED
      BY <1>1, <2>1, <2>2, <2>3, <2>4, <2>5, <2>6, <2>7, <2>8, <2>9, <2>10, <2>11, <2>12
      DEF Transaction
  <1>2. CASE CommandByHand
    BY <1>2 DEF CommandByHand, NoTransaction
  <1>3. CASE Goes /\ UNCHANGED <<product, msi>>
    <2>1. CASE OneFailure' /\ msi.kind = "first" /\ msi.vault.state = "absent"
      BY <1>3, <2>1, UndoGoes
    <2>2. CASE ~(OneFailure' /\ msi.kind = "first" /\ msi.vault.state = "absent")
      BY <1>3, <2>2
    <2>3. QED BY <2>1, <2>2
  <1>4. CASE Idle /\ \E n \in Names : AdministratorEdits(n) /\ UNCHANGED <<product, msi>>
    BY <1>4 DEF Idle, AdministratorEdits, proc, OneFailure
  <1>5. CASE UNCHANGED allVars BY <1>5 DEF allVars, vars, proc, OneFailure
  <1>6. QED BY <1>1, <1>2, <1>3, <1>4, <1>5 DEF InstallerNext

-----------------------------------------------------------------------------
(* What single steps do.                                                   *)

\* A step of a command leaves the accounts of others.
LEMMA ForeignStep ==
  ASSUME TypeOK, InstallInv, VaultInv, UninstallInv, [Next]_vars, pc # "idle",
         NEW n \in Names, account[n] = "foreign"
  PROVE  account'[n] = "foreign"
  <1>0. /\ account \in [Names -> Kinds]
        /\ pc \in InstallSteps \ {"validate"} => args.name \in Names
    BY DEF TypeOK
  <1> USE <1>0 DEF Step, machine
  <1>1. CASE InstallStep
    <2>1. CASE AddUser BY <2>1 DEF AddUser
    <2>2. CASE AddAdmin \/ RollbackDelete
      BY <2>2 DEF AddAdmin, RollbackDelete, DeleteName, InstallInv, AfterUser, Rollback,
         InstallSteps
    <2>3. QED
      BY <1>1, <2>1, <2>2 DEF InstallStep, Validate, MakeDir, SecureDir, Adopt, RefuseTornVault,
         Provision, CreateUser, Hide, Seal, CreateVault, WriteVault, Enroll, RollbackUnhide,
         UnhideName, RollbackRemove, Write
  <1>2. CASE UninstallStep
    <2>1. CASE DeleteAccount
      BY <2>1 DEF DeleteAccount, DeleteName, UninstallInv, VaultInv
    <2>2. QED
      BY <1>2, <2>1 DEF UninstallStep, Load, Unhide, UnhideName, RemoveFile, RemoveDir, Write
  <1>3. CASE FailIntoRollback \/ FailInRollback \/ FailLegacyRead \/ FailAndReturn \/ Crash
    BY <1>3 DEF FailIntoRollback, FailInRollback, FailLegacyRead, FailAndReturn, Crash,
       LeavesEnrollment, Write
  <1>4. CASE PromptDecides \/ PromptWritesGuard \/ PromptLeaves
    BY <1>4 DEF PromptDecides, PromptWritesGuard, PromptLeaves, Write
  <1>5. ~Command
    BY DEF Command, Install, Uninstall, Begin
  <1>6. ~\E m \in Names : AdministratorEdits(m)
    BY DEF AdministratorEdits
  <1>7. CASE UNCHANGED vars BY <1>7 DEF vars
  <1>8. QED BY <1>1, <1>2, <1>3, <1>4, <1>5, <1>6, <1>7 DEF Next, Goes

\* The last step of a fresh install.
LEMMA EnrollStep ==
  ASSUME SetupInv, [Next]_vars, pc = "enroll", isNew, outcome'.result = "ok"
  PROVE  /\ disk'.vault.name = outcome.name
         /\ account'[outcome.name] = "admin" /\ outcome.name \in hidden'
         /\ password'[outcome.name] = disk'.vault.serial
         /\ outcome.enroll => disk'.enrollment = disk'.vault.serial
  <1>0. /\ outcome.result = "none" /\ outcome.name = args.name /\ outcome.enroll = args.enroll
        /\ disk \in Disks /\ outcome \in Outcomes
    BY DEF SetupInv, CommandInv, TypeOK, InstallSteps
  <1> USE <1>0 DEF Step, machine
  <1>1. CASE Enroll
    <2>1. /\ disk.vault.name = args.name /\ account[args.name] = "admin"
          /\ args.name \in hidden /\ password[args.name] = disk.vault.serial
      BY DEF SetupInv, InstallInv
    <2>2. QED BY <1>1, <2>1, Enrolled
  <1>2. CASE InstallStep /\ ~Enroll
    BY <1>2 DEF InstallStep, Validate, MakeDir, SecureDir, Adopt, RefuseTornVault, Provision,
       CreateUser, AddUser, AddAdmin, Hide, Seal, CreateVault, WriteVault, RollbackUnhide,
       RollbackDelete, RollbackRemove
  <1>3. ~UninstallStep
    BY DEF UninstallStep, Load, Unhide, DeleteAccount, RemoveFile, RemoveDir
  <1>4. CASE FailIntoRollback \/ FailInRollback \/ FailLegacyRead \/ FailAndReturn \/ Crash
    <2>1. outcome' \in {Faulty("none"), Faulty("error"), Faulty("died")}
      BY <1>4 DEF FailIntoRollback, FailInRollback, FailLegacyRead, FailAndReturn, Crash, Exit
    <2>2. QED BY <2>1, Recorded
  <1>5. CASE PromptDecides \/ PromptWritesGuard \/ PromptLeaves
    BY <1>5 DEF PromptDecides, PromptWritesGuard, PromptLeaves, Outcomes
  <1>6. ~Command
    BY DEF Command, Install, Uninstall, Begin
  <1>7. ~\E m \in Names : AdministratorEdits(m)
    BY DEF AdministratorEdits
  <1>8. CASE UNCHANGED vars BY <1>8 DEF vars
  <1>9. QED BY <1>1, <1>2, <1>3, <1>4, <1>5, <1>6, <1>7, <1>8 DEF Next, Goes

\* A step of Windows Installer itself changes nothing of the machine.
LEMMA TransactionKeeps ==
  ASSUME TypeOK, Transaction
  PROVE  UNCHANGED <<account, password, hidden, disk>>
  <1>1. CASE \E v \in 1 .. MaxVersion : FirstInstall(v) \/ Upgrade(v)
    BY <1>1 DEF FirstInstall, Upgrade, Open, vars, machine
  <1>2. CASE Repair \/ Remove BY <1>2 DEF Repair, Remove, Open, vars, machine
  <1>3. CASE OtpuacCleanup \/ OtpuacProvisionRollback
    BY <1>3, CommandUnfolds DEF OtpuacCleanup, OtpuacProvisionRollback
  <1>4. CASE \E n \in Names \cup {BadName}, e \in BOOLEAN : OtpuacProvision(n, e)
    BY <1>4, CommandUnfolds DEF OtpuacProvision
  <1>5. CASE NoCleanup \/ CleanupReturns \/ RemoveFiles \/ ProvisionReturns
    BY <1>5 DEF NoCleanup, CleanupReturns, RemoveFiles, ProvisionReturns, Then, vars, machine
  <1>6. CASE InstallFinalize \/ RollbackReturns \/ StandardActionFails
    BY <1>6 DEF InstallFinalize, RollbackReturns, StandardActionFails, vars, machine
  <1>7. QED BY <1>1, <1>2, <1>3, <1>4, <1>5, <1>6 DEF Transaction

\* RemovalInv is inductive relative to the others.
LEMMA RemovalNext ==
  ASSUME InstallerTypeOK, SetupInv, TransactionInv, RemovalInv, [InstallerNext]_allVars
  PROVE  RemovalInv'
  <1> TypeOK
    BY DEF SetupInv
  <1> USE DEF RemovalInv, InstallerTypeOK, Actions, Created, machine
  <1>1. CASE Transaction
    <2>1. CASE (\E v \in 1 .. MaxVersion : FirstInstall(v) \/ Upgrade(v)) \/ Repair
      <3>1. msi'.kind # "remove"
        BY <2>1, Opened DEF FirstInstall, Upgrade, Repair
      <3>2. QED BY <3>1
    <2>2. CASE Remove BY <2>2, Opened DEF Remove
    <2>3. CASE OtpuacCleanup
      BY <2>3, CommandRecorded DEF OtpuacCleanup, CleansUp, TransactionInv
    <2>4. CASE NoCleanup BY <2>4 DEF NoCleanup, CleansUp, Then, vars, proc
    <2>5. CASE CleanupReturns
      <3>1. CASE Then("cleanup", "RemoveFiles") /\ outcome.result = "ok"
        BY <2>5, <3>1, Moved DEF CleanupReturns, TransactionInv
      <3>2. CASE Close("failed") /\ UNCHANGED vars
        BY <2>5, <3>2, Closed DEF CleanupReturns
      <3>3. QED BY <2>5, <3>1, <3>2 DEF CleanupReturns
    <2>6. CASE RemoveFiles
      <3>1. CASE Then("RemoveFiles", "InstallFiles")
        BY <2>6, <3>1, Moved DEF RemoveFiles, TransactionInv
      <3>2. CASE Close("done") /\ UNCHANGED vars
        BY <2>6, <3>2, Closed DEF RemoveFiles, vars, proc, TransactionInv
      <3>3. QED BY <2>6, <3>1, <3>2 DEF RemoveFiles
    <2>7. CASE \E n \in Names \cup {BadName}, e \in BOOLEAN : OtpuacProvision(n, e)
      BY <2>7 DEF OtpuacProvision, TransactionInv
    <2>8. CASE ProvisionReturns
      <3>1. msi.kind # "remove"
        BY <2>8 DEF ProvisionReturns, TransactionInv
      <3>2. msi'.kind = msi.kind
        BY <2>8, Moved, Closed DEF ProvisionReturns, Fail
      <3>3. QED BY <3>1, <3>2
    <2>9. CASE InstallFinalize
      BY <2>9 DEF InstallFinalize, Close, vars, proc, TransactionInv
    <2>10. CASE OtpuacProvisionRollback
      BY <2>10 DEF OtpuacProvisionRollback, TransactionInv
    <2>11. CASE RollbackReturns BY <2>11 DEF RollbackReturns, Close, vars, proc, TransactionInv
    <2>12. CASE StandardActionFails
      <3>1. CASE Close("failed")
        BY <2>12, <3>1 DEF StandardActionFails, Close, proc, TransactionInv
      <3>2. CASE msi.at = "WriteRegistryValues" /\ Fail
        <4>1. UNCHANGED <<machine, proc, outcome, product>>
          BY <2>12 DEF StandardActionFails
        <4>2. CASE msi.kind = "first" /\ msi' = [msi EXCEPT !.at = "rollback"]
          BY <4>1, <4>2
        <4>3. CASE Close("failed")
          BY <3>2, <4>1, <4>3 DEF Close, TransactionInv
        <4>4. QED BY <3>2, <4>2, <4>3 DEF Fail, QueuesRollback
      <3>3. QED BY <2>12, <3>1, <3>2 DEF StandardActionFails
    <2>13. QED
      BY <1>1, <2>1, <2>2, <2>3, <2>4, <2>5, <2>6, <2>7, <2>8, <2>9, <2>10, <2>11, <2>12
      DEF Transaction
  <1>2. CASE CommandByHand
    BY <1>2 DEF CommandByHand, NoTransaction
  <1>3. CASE Goes /\ UNCHANGED <<product, msi>>
    BY <1>3, RecordKept, IdleKeeps, GoesRuns DEF TransactionInv
  <1>4. CASE Idle /\ \E n \in Names : AdministratorEdits(n) /\ UNCHANGED <<product, msi>>
    BY <1>4 DEF Idle, AdministratorEdits, proc
  <1>5. CASE UNCHANGED allVars BY <1>5 DEF allVars, vars, proc
  <1>6. QED BY <1>1, <1>2, <1>3, <1>4, <1>5 DEF InstallerNext
-----------------------------------------------------------------------------
(* Theorems.                                                               *)

\* The invariant is inductive: it holds initially,
LEMMA IInvInit == InstallerInit => IInv
  <1> SUFFICES ASSUME InstallerInit PROVE IInv
    OBVIOUS
  <1>1. SetupInv
    BY SetupInvInit DEF InstallerInit
  <1>2. msi = NoTransaction /\ pc = "idle"
    BY DEF InstallerInit, Init
  <1>3. product \in 0 .. MaxVersion
    BY DEF InstallerInit
  <1>4. InstallerTypeOK
    BY <1>1, <1>2, <1>3, VaultsTyped DEF InstallerTypeOK, NoTransaction, SetupInv
  <1>5. TransactionInv /\ KeepInv /\ UndoInv /\ RemovalInv
    BY <1>2 DEF TransactionInv, KeepInv, UndoInv, RemovalInv, NoTransaction
  <1>6. QED BY <1>1, <1>4, <1>5 DEF IInv

\* is kept by every step,
LEMMA IInvNext == IInv /\ [InstallerNext]_allVars => IInv'
  BY InstallerTypesNext, SetupInvInstaller, TransactionNext, KeepNext, UndoNext, RemovalNext
  DEF IInv

\* and so holds always.
LEMMA IInvHolds == InstallerSpec => []IInv
  BY IInvInit, IInvNext, PTL DEF InstallerSpec

\* The variables keep their types; in particular a command of otpuac-setup runs
\* only inside one of the three custom actions, or by hand while no transaction
\* is open (otpuac.wxs:112-148).
THEOREM InstallerTypes == InstallerSpec => []InstallerTypeOK
  BY IInvHolds, PTL DEF IInv

\* No command and no transaction touches an account that OTPUAC did not make,
\* whatever fails and whenever a process dies (account.rs:70-74, install.rs:85,
\* 100-104).
THEOREM ForeignSpared == InstallerSpec => ForeignUntouched
  <1> DEFINE Spared == \A n \in Names :
                          pc # "idle" /\ account[n] = "foreign" => account'[n] = "foreign"
  <1>1. ASSUME IInv, [InstallerNext]_allVars PROVE [Spared]_vars
    <2>1. SetupInv /\ TypeOK /\ InstallInv /\ VaultInv /\ UninstallInv
      BY <1>1 DEF IInv, SetupInv
    <2>2. /\ account \in [Names -> Kinds]
          /\ pc \in InstallSteps \ {"validate"} => args.name \in Names
      BY <2>1 DEF TypeOK
    <2>3. CASE [Next]_vars /\ pc # "idle"
      BY <2>1, <2>2, <2>3, ForeignStep
    <2>4. CASE pc = "idle"
      BY <2>4
    <2>5. QED BY <1>1, <2>3, <2>4, SetupSteps DEF IInv
  <1>2. QED BY <1>1, IInvHolds, PTL DEF InstallerSpec, ForeignUntouched

\* An install that finds a vault keeps the account, its password and the vault,
\* whoever started it and whatever fails (install.rs:28-41).
THEOREM AdoptionKeeps == InstallerSpec => AdoptKeeps
  <1> DEFINE Kept == pc # "idle" /\ outcome.cmd = "install" /\ outcome.vault.state = "ok" =>
                        UNCHANGED <<account, password, hidden, disk.vault>>
  <1>1. ASSUME IInv, [InstallerNext]_allVars PROVE [Kept]_vars
    BY <1>1, AdoptStep, SetupSteps DEF IInv
  <1>2. QED BY <1>1, IInvHolds, PTL DEF InstallerSpec, AdoptKeeps

\* A fresh install that reports success has made an administrator, hidden it,
\* and left its own password in the vault and its own secret in the enrollment
\* file, whatever happened on the machine before (install.rs:18-45, 76-98).
THEOREM FreshInstallsComplete == InstallerSpec => FreshInstallComplete
  <1> DEFINE Complete == pc = "enroll" /\ outcome'.result = "ok" /\ isNew =>
                /\ disk'.vault.name = outcome.name
                /\ account'[outcome.name] = "admin" /\ outcome.name \in hidden'
                /\ password'[outcome.name] = disk'.vault.serial
                /\ outcome.enroll => disk'.enrollment = disk'.vault.serial
  <1>1. ASSUME IInv, [InstallerNext]_allVars PROVE [Complete]_vars
    BY <1>1, EnrollStep, SetupSteps DEF IInv
  <1>2. QED BY <1>1, IInvHolds, PTL DEF InstallerSpec, FreshInstallComplete

\* No single call that fails, in otpuac-setup or in a transaction of the MSI,
\* leaves an administrator that uninstall does not know of (install.rs:94-104),
\* but for the read of OTPUAC 1.0's setup.json (install.rs:120-123).
THEOREM OrphansNeedTwoFaults == InstallerSpec => []NoOrphanAdmin
  <1>1. IInv => NoOrphanAdmin
    BY DEF IInv, SetupInv, OneFailureInv, NoOrphanAdmin, AfterAdmin, AfterUser, Rollback
  <1>2. QED BY <1>1, IInvHolds, PTL

\* A successful uninstall has removed every file, but for the guard.json of a
\* prompt that was inside unlock() meanwhile, and the account in the vault if
\* setup made it, this version or OTPUAC 1.0 whose setup.json it could read
\* (install.rs:47-74, 114-124).
THEOREM UninstallsClean == InstallerSpec => []UninstallCleans
  BY IInvHolds, PTL DEF IInv, SetupInv

\* After any one failed call of otpuac-setup or of the MSI, uninstall still
\* works (install.rs:47-74, 94-104).
THEOREM OneFailurePassed == InstallerSpec => []UninstallGetsPastFailure
  BY IInvHolds, PTL DEF IInv, SetupInv

\* An upgrade or a repair keeps accounts, passwords, vault and guard, for any
\* versions and whatever step of it fails (docs/installation.md:85-86).
THEOREM UpgradesKeep == InstallerSpec => UpgradeKeeps
  <1> DEFINE Kept == msi.kind \in {"upgrade", "repair"} /\ ~Idle /\ msi.vault.state = "ok" =>
                        /\ UNCHANGED <<account, password, hidden, disk.vault>>
                        /\ disk.guard => disk'.guard
  <1>1. ASSUME IInv, [InstallerNext]_allVars PROVE [Kept]_allVars
    <2> SUFFICES ASSUME msi.kind \in {"upgrade", "repair"}, ~Idle, msi.vault.state = "ok"
                 PROVE  /\ UNCHANGED <<account, password, hidden>> /\ disk'.vault = disk.vault
                        /\ disk.guard => disk'.guard
      OBVIOUS
    <2>1. InstallerTypeOK /\ SetupInv /\ TypeOK /\ TransactionInv /\ KeepInv
      BY <1>1 DEF IInv, SetupInv
    <2>2. msi.at # "none"
      BY <2>1 DEF Idle, TransactionInv
    <2>3. CASE UNCHANGED <<account, password, hidden, disk>>
      BY <2>3
    <2>4. CASE Goes /\ pc = "idle"
      BY <2>1, <2>4, IdleKeeps
    <2>5. CASE Goes /\ pc # "idle"
      <3>1. outcome.cmd = "install" /\ outcome.vault = msi.vault
        BY <2>1, <2>2, <2>5 DEF InstallerTypeOK, TransactionInv, KeepInv
      <3>2. QED BY <2>1, <2>5, <3>1, AdoptStep DEF Next
    <2>6. CASE Transaction
      BY <2>1, <2>2, <2>6, TransactionKeeps
    <2>7. QED
      BY <1>1, <2>2, <2>3, <2>4, <2>5, <2>6
      DEF InstallerNext, CommandByHand, Idle, allVars, vars, machine
  <1>2. QED BY <1>1, IInvHolds, PTL DEF InstallerSpec, UpgradeKeeps

\* A version that becomes the installed one has a vault that can be read
\* (Return="check", otpuac.wxs:112-119).
THEOREM InstalledHasVault == InstallerSpec => InstalledMeansVault
  <1> DEFINE Has == product' \notin {product, 0} => disk.vault.state = "ok"
  <1>1. ASSUME IInv, [InstallerNext]_allVars PROVE [Has]_allVars
    <2>1. InstallerTypeOK /\ SetupInv /\ InstallInv /\ TransactionInv
      BY <1>1 DEF IInv, SetupInv
    <2>2. CASE InstallFinalize
      BY <2>1, <2>2 DEF InstallFinalize, InstallerTypeOK, TransactionInv, InstallInv
    <2>3. CASE Transaction /\ ~InstallFinalize
      BY <2>3 DEF Transaction, FirstInstall, Upgrade, Repair, Remove, Open, OtpuacCleanup,
         NoCleanup, CleanupReturns, RemoveFiles, OtpuacProvision, ProvisionReturns,
         OtpuacProvisionRollback, RollbackReturns, StandardActionFails
    <2>4. CASE ~Transaction
      BY <1>1, <2>4 DEF InstallerNext, CommandByHand, allVars
    <2>5. QED BY <2>2, <2>3, <2>4
  <1>2. QED BY <1>1, IInvHolds, PTL DEF InstallerSpec, InstalledMeansVault

\* A first install that failed by one failure leaves no vault, no administrator
\* and no hidden name that was not there before (otpuac.wxs:120-127, 144-147;
\* install.rs:34-41, 94-104).
THEOREM FailedInstallsUndone == InstallerSpec => []FailedInstallUndone
  <1>1. IInv => FailedInstallUndone
    <2> SUFFICES ASSUME IInv, OneFailure, msi.kind = "first", msi.result = "failed",
                        msi.vault.state = "absent"
                 PROVE  /\ disk.vault.state = "absent"
                        /\ Administrators \subseteq msi.admins
                        /\ hidden \subseteq msi.hidden
      BY DEF FailedInstallUndone
    <2>1. msi.at = "none" /\ pc = "idle"
      BY DEF IInv, TransactionInv
    <2>2. disk.vault.state = "absent"
      BY <2>1 DEF IInv, UndoInv
    <2>3. Administrators \subseteq msi.admins
      BY <2>1, <2>2 DEF IInv, UndoInv, Administrators, AfterAdmin, AfterUser, Rollback
    <2>4. hidden \subseteq msi.hidden
      BY <2>1, <2>2 DEF IInv, UndoInv
    <2>5. QED BY <2>2, <2>3, <2>4
  <1>2. QED BY <1>1, IInvHolds, PTL

\* A removal that is reported as done has deleted the data and the account setup
\* made, and after one failure at most there is no administrator of OTPUAC, but
\* for one that only a setup.json claims which could not be read, for any
\* versions and whatever happened before (docs/installation.md:84-85;
\* install.rs:114-124).
THEOREM RemovalsClean == InstallerSpec => []RemovalCleans
  <1>1. IInv => RemovalCleans
    <2> SUFFICES ASSUME IInv, msi.kind = "remove", msi.result = "done" PROVE RemovalCleans
      BY DEF RemovalCleans
    <2>1. /\ product = 0 /\ pc = "idle"
          /\ outcome.cmd = "uninstall" /\ outcome.result = "ok" /\ outcome.vault = msi.vault
          /\ (outcome.made <=> msi.made)
      BY DEF IInv, RemovalInv
    <2>2. UninstallCleans /\ disk \in Disks
      BY DEF IInv, SetupInv, TypeOK
    <2>3. disk.vault.state = "absent"
      BY <2>1, <2>2 DEF UninstallCleans, Gone, NoVault
    <2>4. OneFailure => Administrators \subseteq misread
      BY <2>1, <2>3 DEF IInv, SetupInv, OneFailureInv, Administrators, AfterAdmin, AfterUser,
         Rollback
    <2>5. QED BY <2>1, <2>2, <2>4 DEF RemovalCleans, UninstallCleans
  <1>2. QED BY <1>1, IInvHolds, PTL
=============================================================================
