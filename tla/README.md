# OTPUAC in TLA+

Formal models of OTPUAC, the credential provider that answers a UAC prompt with
a managed administrator credential when a valid one-time code is typed. The
models are written in TLA+, checked with TLC on small instances, and the results
that matter most are proved with TLAPS for every value of the constants.

Source paths below are relative to the repository; `core/`, `provider/` and
`setup/` stand for `crates/otpuac-core/src/`, `crates/otpuac-provider/src/` and
`crates/otpuac-setup/src/`.

## 1. The system

| Part | State | Operations | Talks to |
|---|---|---|---|
| unlock decision, `core/unlock.rs` | none of its own; a local copy of the guard | `unlock`, `verify` | guard, codes, vault; called by the tile |
| guard, `core/guard.rs` | `guard.json`: newest spent step, times of failures | `read`, `write`, `is_locked`, `is_spent`, `record_failure`, `record_success` | the file system |
| one-time codes, `core/totp.rs` | none | `matching_step`, `code_at`, secrets and URIs | unlock decision, setup |
| vault, `core/vault.rs`, `core/protect.rs`, `core/win.rs` | `vault.json`: account, sealed password and secret, who made the account | `read`, `write`, `new`, `credential`, `totp_secret` | DPAPI, the file system |
| provider DLL, `provider/windows_provider.rs`, `class_factory.rs`, `provider.rs` | `DLL_REF_COUNT`, reference counts, the provider's credential and flags | the COM calls of the host | `consent.exe` |
| tile, `credential.rs`, `credential_pack.rs` | code field, title, the packed buffer | `SetStringValue`, `SetDeselected`, `GetSerialization` | unlock decision, `CredPack...`, LSA |
| fields, ids, wide strings | none | static tables and copies | tile |
| setup, `setup/install.rs` | none of its own | `install`, `uninstall`, `provision`, `rollback` | accounts, registry, vault, files |
| accounts and registry, `setup/platform/` | local users, `SpecialAccounts` | create, add to Administrators, hide, unhide, delete | Windows |
| command line, `setup/main.rs` | none | install, enrollment, verify, uninstall | setup |
| MSI, `installer/` | Windows Installer's own: the product and its version | first install, major upgrade, repair, removal, each a transaction with the custom actions provision, its rollback, clean-up | runs setup |

How they interact. Windows starts one `consent.exe` for each prompt; it loads the
provider DLL, makes a provider and through it one tile, and calls both from one
apartment. `GetSerialization` calls `unlock()`, which shares nothing with other
prompts but `guard.json` and `vault.json`. The MSI runs `otpuac-setup`, which
makes those files and the account they name, and removes them again; so does an
administrator from a command line. A prompt may be open meanwhile.

What is hard about it:

* **Interleaving.** `unlock()` reads `guard.json`, decides, and writes it back
  without a lock. One secure desktop shows one prompt at a time, but two sessions
  of one machine (fast user switching, remote desktop) each have their own.
* **Failure in the middle.** A code is spent before the credential is opened and
  packed; a file is truncated before it is written; setup changes accounts, the
  registry and files one call after the other.
* **Death at any point.** `consent.exe` can be closed and setup can be killed;
  what is on disk by then stays.
* **Two undoings.** Setup rolls back its own fresh provisioning, and Windows
  Installer rolls back a transaction, in which it runs an uninstall; an upgrade
  removes the old version before it installs the new one.
* **Time.** Lockouts and steps are computed from a wall clock that is set, also
  backwards.
* **Ownership.** COM references are held by the provider and the host, which let
  go in any order, while another apartment asks whether the DLL may be unloaded.

What makes each part correct:

* unlock and guard: no step releases the credential twice; what was released is
  on disk; a budget of denied codes per window; a lockout that is neither early
  nor late nor endless; valid unused codes are not denied; every call returns.
* tile and packing: no plaintext copy, handle or buffer of `GetSerialization` survives
  the call; Windows is
  told that it got a credential exactly when it did; a used-up code is never lost
  in silence; nothing but typing spends attempts.
* DLL and objects: counts are the number of owners at every step; nothing dangles
  or leaks; the DLL is not unloadable while in use.
* setup: accounts of others are never touched; no single failure orphans an
  administrator (but for one, see section 5); an adopted install keeps what it found;
  uninstall cleans up and gets past what an earlier failure left.
* MSI: an upgrade or a repair keeps account, vault and guard however it ends; a first
  install that fails leaves nothing; what Windows lists as installed has a vault.

## 2. The modules

| Module | Models |
|---|---|
| `Totp` | time steps, the skew window, `matching_step`; `ValidFor` is the reference meaning |
| `Guard` | the value of `guard.json` and the operators of `guard.rs` on it |
| `Unlock` | `unlock()` run by several prompts: each file access is a step, with I/O errors, deaths and clock changes between any two |
| `OneTimeGate` | the abstract specification: a gate that uses up steps and has a budget of refusals |
| `UnlockGate` | the refinement mapping from `Unlock` to `OneTimeGate` |
| `UnlockProofs` | theorems about `Unlock` |
| `Tile` | the code field, the title, and `GetSerialization` around `unlock()`, each call of the packing a step |
| `TileProofs` | theorems about `Tile` |
| `Elevation` | `Tile` composed with `Unlock`: the prompt as the user meets it |
| `ElevationProofs` | theorems about `Elevation` |
| `Com` | object lifetimes in the DLL, for several apartments |
| `ComProofs` | theorems about `Com` |
| `Setup` | `install` and `uninstall`, each operating system call a step that may fail, next to prompts and an administrator |
| `Installer` | the transactions of the MSI around `Setup`, and commands by hand between them |
| `InstallerProofs` | theorems about `Setup` and `Installer` |
| `MC...` | instances for TLC, with the `.cfg` files named after them |

### State and code

**Unlock.** `pc[p]` is where prompt `p` stands inside `unlock()`: `read` (`Guard::read`,
unlock.rs:15), `vault` (the vault and the code, 20-33), `open` and `write` (the two
halves of `fs::write`, guard.rs:35), `release` (`vault.credential()`, 37). `mem[p]`,
`code[p]`, `stamp[p]`, `verdict[p]` are its locals. `file`, `size`, `guard` are
`guard.json`: whether it exists and parses, its length, and the last value written out
in full. The length matters because of two overlapping writes the second does not
truncate what the first has put there meanwhile; a write that stops half way
(`PartWritten`) leaves its part of the text over that, and a tail behind it. `stamp`
carries the number and the true time of the attempt next to the wall-clock time the code
stores; the code never reads these, the properties do. `released` and `denials` are
history. `uptime + offset` is the wall clock.

`Hotp` is a constant operator: nothing is assumed of it, so also codes that two
neighbouring steps share are covered. The input is one of `Codes` or `Malformed`
(anything that is not six digits after trimming). The order of `failures` is read
by nothing, so it is a set.

**Tile.** `field` is `totp_code`, `title` is `status`, `answer` what the last
`GetSerialization` returned, `plain`, `buffer`, `lsa` what the call holds: copies
of the password and the code, the `CoTaskMemAlloc` buffer and its owner, the
logon handle. `pc` steps through `pack_credential`. One thread calls a tile, so
the host does nothing to it during a call. `plain` holds the copies that
`GetSerialization` makes, and nothing else: what `GetStringValue` copies is not followed
(section 5).

**Elevation.** `T == INSTANCE Tile` gets `step` for its `pc`; submitting is one
action of both, and so is each return of `unlock()`. `ticket` and `delivered`
are history: which release is being packed, and which reached Windows.

**Com.** `heap` maps addresses to objects, freed addresses are used again;
`held` are the host's references, `call[a]` the frame of the call of apartment
`a`. A call is split into steps wherever it changes an object's count, the
allocator or `DLL_REF_COUNT`. `ThreadingModel` is `Apartment`
(installer/otpuac.wxs:79), so an object is called from the apartment that made it.

**Setup.** `pc` is the next call of the command that runs. `account`, `password`,
`hidden` and `disk` are the machine: local users and whose they are, the serial number
of a user's password, `SpecialAccounts`, and the files (`vault.json`, whether there is a
`guard.json`, OTPUAC 1.0's `setup.json` and `service-state.json`, the directory, and the
enrollment file, which lies elsewhere). A password or a secret is the number of the
command that made it. `inside` says that some prompt has read the vault in `unlock()`
and goes on to write `guard.json` (`PromptDecides`, `PromptWritesGuard`): by then setup
may have removed what it read. `outcome` records the command, what it returned, the
vault it started from, and whether a call failed (`faulty`) or a prompt was inside
(`raced`) meanwhile. `outcome.made` says whether setup had made the account in that
vault: this version did if the vault says so, OTPUAC 1.0 did if `setup.json` claims it
(`Created`). `fs::write` is two steps, so that a failure or a death leaves a torn
vault; a failed or interrupted write of the enrollment file leaves that one empty
(`LeavesEnrollment`). Two kinds of failure do not return: what rollback ignores
(`FailInRollback`), and the read of `setup.json`, which counts as the answer no
(`FailLegacyRead`, install.rs:120-123); `misread` are the names for which that answer was
wrong. Starting states are a clean machine with or without somebody's accounts, and one
on which OTPUAC 1.0 was installed. One command runs at a time, as Windows Installer runs
them.

**Installer.** `product` is the version Windows lists, `msi` the transaction: its `kind`,
the action it has come `at`, the version it brings, and as history its result and the
vault, administrators and hidden names it found. `OtpuacProvision`, `OtpuacCleanup` and
`OtpuacProvisionRollback` (otpuac.wxs:135-158) start a command of `Setup` and wait for
it; all other actions of Windows Installer change only what it takes back by itself, so
they are steps that may fail (`StandardActionFails`, which is also the user's cancel).
Conditions are those of the sequence: the rollback action is queued when no version is
installed and none is replaced, clean-up is left out when an upgrade removes. An old
version that cannot be removed ends the upgrade, which is the default of `MajorUpgrade`.
OTPUAC 1.0 came as version 1, because the launch condition refuses a machine with
the older .exe setup. `otpuac-setup` that is killed is a custom action that failed.

## 3. The runs

| Run | Shows |
|---|---|
| `unlock_serial` | One prompt at a time, steady clock: `FailureBudget`, `LockoutMatchesDenials`, `TornOnlyByFault`, `OnlyBadCodesDenied`, and `GateSpec`: `unlock()` implements `OneTimeGate` |
| `unlock_adjusted` | One prompt at a time, a clock set ahead and behind the epoch, neighbouring steps that share a code: `ReleasesIncrease`, `RecordedFirst`, `OnlyValidCodesReleased` |
| `elevation_prompts` | Two tiles around `unlock()`, which may overlap: `DeliveredOnce` (as long as they did not), `FailuresBounded`, `AttemptsAreTyped`, `DenialToldWhenRecorded`, `UnlockSpec` (the product behaves as `Unlock`), and under fairness `SubmissionEnds`, `ReleasedIsAccountedFor` |
| `tile_packing` | `NothingLeftBehind`, `FinishedHandsOver`, `TitleIsLastAnswer`, `CodeTypedAgain` for any answer of `unlock()` and any failing call |
| `com_lifetimes` | `LoadedWhileInUse`, `ReferencesCounted`, `NothingLeaks`, `FlagsReachCredential`, `OneCredential` |
| `setup_commands` | Three commands, in transactions of the MSI or by hand, with up to two faults, deaths of setup among them, and prompts: `ForeignUntouched`, `AdoptKeeps`, `FreshInstallComplete`, `UninstallCleans`, `RemovalCleans`, `UpgradeKeeps`, `InstalledMeansVault`; and after at most one failure (`OneFailure`), which is what an error path may be expected to cope with, `NoOrphanAdmin`, `UninstallGetsPastFailure`, `FailedInstallUndone`. `NoOrphanAdmin`, `UninstallCleans` and `RemovalCleans` except the account in `misread`, see section 5 |
| `unlock_replay`, `unlock_clockback` | violated, see section 5 |
| `setup_orphan`, `setup_torn`, `setup_halfway`, `installer_rollback` | violated, see section 5 |

Each module's type invariant is checked once, by one of its runs.

### Bounds

* *Time.* In `MCUnlock` steps of two seconds with one step of skew, a lockout of two
  or three, up to five seconds of true time: every boundary of the code (same step,
  next step, outside the skew window, failure just inside and just outside the
  lockout) lies inside. The real numbers (30, 1, 300, 5) are the same relations at
  another scale, and the proofs hold for all of them.
* *Attempts.* `MaxAttempts` is two to four: enough to fill the failure list, be
  locked out, see the lock expire and unlock again. A property about two releases
  needs two attempts, one about the budget `MaxFailures + 1`. `MaxTypings` lets each
  of them be typed.
* *Prompts.* Two. The only thing prompts share is one file; with two a lost update
  and a torn write happen.
* *Clock.* The `Offsets` of `unlock_adjusted` put the clock six seconds ahead (three
  steps, out of the skew window) and three seconds behind, which is before the epoch.
* *Elevation.* Steps of one second without skew and one code that is right in every
  step; a malformed code is the wrong one. What a code means is `MCUnlock`'s business;
  here it matters that a step is used twice, passes, or is wrong, that one failure
  locks, and that two calls meet anywhere inside `unlock()` and the packing.
* *Tile.* One tile, because tiles share nothing (in `Elevation` there are two, which
  share `unlock()`), with two codes.
* *Com.* Two apartments, four addresses, two references of the host per object,
  one server lock: a factory, a provider and its credential in one apartment
  and an object in the other, or two providers.
* *Setup and Installer.* Two names and one that is invalid; two versions, which is what
  an upgrade and a refused downgrade take; three commands, so that what the first left
  is met by a second and the machine after that by a third; two faults (`MaxFaults`:
  failing calls, deaths, failing actions of Windows Installer), so that every pair of
  them happens, a failure in the undoing of another one included. The runs of `MCSetup`
  look for a counterexample and get one fault. Nothing else bounds the transactions.

Some variables are history, which no action reads: `released`, `denials` in `Unlock`,
`ticket`, `delivered`, `typings`, `overlapped` (two prompts were inside `unlock()` at
once) in `Elevation`, `died`, `misread` and `outcome` in `Setup` (of which `Installer`
reads the result), the last five fields of `msi` in `Installer`; `typings`, like
`faults` and `runs`, also bounds the instance.

`CHECK_DEADLOCK FALSE` is set where attempts, time or commands run out because of
their bound, which is the model's end and not the system's. `MCTile` and `MCCom`
have no such bound and are checked for deadlock.

Symmetry is used for prompts in the safety runs of `MCUnlock`, for apartments and
addresses in `MCCom`, and for names in `setup_commands`. No action and no property
distinguishes their members, and none of these runs checks liveness.

### Fairness

Liveness assumes only that a call that was made goes on: weak fairness of what each
prompt does next inside `GetSerialization` and `unlock()` (`Goes`). It runs on the
thread that made the call in `consent.exe`, which Windows schedules; no step waits for a
lock, another prompt or the user. Nothing is assumed about users, faults, deaths or the
clock. A `guard.json` that does not parse makes the read return an error, so that is
part of what a call does next.

## 4. The proofs

`UnlockProofs`, `TileProofs` and `ElevationProofs` prove, for any number of prompts, any
codes and code function, any step length, skew, lockout and limit, and any bound;
`ComProofs` for any finite sets of apartments and addresses, any flags, and any number of
references and locks of the host; and `InstallerProofs` for any names and any number of
versions, commands and faults:

| Theorem | Property | Assumes |
|---|---|---|
| `TypeCorrect` | `TypeOK` | |
| `ListBounded` | `FailuresBounded` | |
| `ReleasedCodesValid` | `OnlyValidCodesReleased` | |
| `StepsUnlockOnce` | `ReleasesIncrease` | prompts do not overlap |
| `RecordedBeforeRelease` | `RecordedFirst` | prompts do not overlap |
| `DeniedWithinBudget` | `FailureBudget` | no overlap, clock not adjusted |
| `LockoutExact` | `LockoutMatchesDenials` | no overlap, clock not adjusted |
| `ImplementsGate` | `GateSpec` | no overlap, clock not adjusted |
| `FileStaysReadable` | `TornOnlyByFault` | prompts do not overlap |
| `GoodCodesPass` | `OnlyBadCodesDenied` | no overlap, codes of one skew window differ |
| `ElevationIsUnlock` | `UnlockSpec` | |
| `ElevationIsTile` | `T!Spec`: the product behaves as `Tile` | |
| `ElevationTypes` | `ElevationTypeOK` | |
| `DeliveriesOnce` | `DeliveredOnce` | (the property speaks of behaviours up to the first overlap) |
| `OnlyTypingCounts` | `AttemptsAreTyped` | |
| `DenialsCounted` | `DenialToldWhenRecorded` | |
| `TileProofs!TypeCorrect` | `TypeOK` of `Tile` | |
| `NothingLeft` | `NothingLeftBehind` | |
| `FinishedMeansBuffer` | `FinishedHandsOver` | |
| `TitleTrue` | `TitleIsLastAnswer` | |
| `TypedAgain` | `CodeTypedAgain` | |
| `ComProofs!TypeCorrect` | `TypeOK` of `Com` | |
| `CountsAreRight` | `ReferencesCounted` | |
| `StaysLoaded` | `LoadedWhileInUse` | |
| `NothingIsLeft` | `NothingLeaks` | |
| `FlagsArrive` | `FlagsReachCredential` | |
| `CredentialStays` | `OneCredential` | |
| `InstallerTypes` | `InstallerTypeOK` | |
| `ForeignSpared` | `ForeignUntouched` | |
| `AdoptionKeeps` | `AdoptKeeps` | |
| `FreshInstallsComplete` | `FreshInstallComplete` | |
| `UninstallsClean` | `UninstallCleans` | |
| `RemovalsClean` | `RemovalCleans` | |
| `UpgradesKeep` | `UpgradeKeeps` | |
| `InstalledHasVault` | `InstalledMeansVault` | |
| `OrphansNeedTwoFaults` | `NoOrphanAdmin` | (the property speaks of behaviours with one failure) |
| `OneFailurePassed` | `UninstallGetsPastFailure` | (the same) |
| `FailedInstallsUndone` | `FailedInstallUndone` | (the same) |

The assumptions are not for convenience: without the first
the run `unlock_replay` refutes the conclusion about releases, and two prompts that
deny at once lose a failure; without the second the run `unlock_clockback` shows that
lockouts are not what a steady clock would make them. The third, `CodesDiffer`, is what
`GoodCodesPass` really needs: when two steps of a window share a code, the code reader takes
the lower one (totp.rs:38), and if that is spent the attempt is denied although the
higher step is not. `FileStaysReadable` fails with overlapping writes, which may leave the
tail of the longer text behind the shorter.

The argument. `TypeInv` is the type invariant with two facts TLC gets for free:
the failure sets are finite (without which `Cardinality` says nothing), and a
verdict belongs to the code under decision (`VerdictInv`). `BoundInv` adds that a
copy that passed `is_locked` has room for one more failure.

That no step unlocks twice is not inductive: it depends on what a call knew when it
read the guard. `SerialInv` therefore says that at most one prompt is inside
`unlock()` (`Exclusive`), what its copy and its verdict have to do with the guard on
disk at each step (`CopyInv`), that releases come in the order of the attempts
(`OrderInv`), and that a missing file stands for a fresh guard (`FileInv`). The
copy stays true because nobody else writes; that is where overlap would break it.

For the budget, `BudgetInv` relates the list on disk to the history: a denial that
the list has lost is older than the lockout or was made before a success, and the
list a prompt holds is what `retain` leaves at the time of its attempt. Counting is
by `FS_Subset`, `FS_AddElement` and `FS_CardinalityType` of the library.

`ImplementsGate` maps each step: `RecordAccept` to `Use`, `RecordDenial` to
`Refuse`, `Release` to `Open`, `Submit` to `Ask`, `Tick` to `Pass`, everything else
to a stutter. `Use(s)` needs that the step lies within the skew of the *present*
time, which is `StepAtMonotone`.

`FileStaysReadable` follows from `TornInv`: whoever writes has emptied the file and is
alone, so its text fits, and a file that does not parse is in the middle of such a write or
was left by a fault. `GoodCodesPass` follows from `DeniedInv`: a call that is about to
record a denial has found the step its code matches spent, in the guard that is still on
disk because nobody else writes. `ValidityIsWindow` turns what the code enumerates into
what valid means.

**Elevation.** `ElevationIsUnlock` maps every step of the product to a step of `Unlock` or to a
stutter; what it needs is that a submitted field holds text (`TileInv`).
`DeliveriesOnce` carries `SerialInv` along for as long as no prompt has been submitted
while another was inside `unlock()` (`SoloInv`; `SerialNext` asks for no more than
that), with the invariant that what is being packed was released (`DeliveryInv`).

`ElevationIsTile` is the other half: the answer of `unlock()` that `Tile` chooses freely is
the one that `Unlock` gives. With both, every theorem about a part is one about the
product; `ProductTiles`, `ProductListBounded` and (under the assumptions of
`ImplementsGate`) `ProductImplementsGate` carry over the safety of tiles, the bound of the
list and the refinement. `OnlyTypingCounts` is not inductive as it stands, because a code
is typed before it counts as an attempt: `TypedInv` adds the tiles whose text is not yet
submitted to the attempts, and the sum never exceeds what was typed. `DenialsCounted`
relates what a tile tells to the guard in the same step. It needs `NumberInv`: the number
of an attempt under way is in no guard and in no copy that another call holds, so that a
failure with this stamp can only be this call's own, even when the guard that is written
is a stale one; and `EntryInv`, which says what the call that records has in its copy.

**Tile.** `IInv` of `TileProofs` says of each tile by itself what the call holds at each
of its steps (`HoldsInv`), that a tile that is gone is in no call and has no code
(`GoneInv`), that nothing of an earlier answer is left while a call runs (`ToldInv`), and
that a code waiting in the field was typed since the last submission (`FreshInv`). A step
of one tile leaves the others alone, which is `PartKept`.

**Com.** An apartment touches only the objects it made, so `IInv` of `ComProofs` is a
statement about each apartment by itself (`ApartmentInv`) and two about the whole.
`FrameInv` says what the call under way has in its hands at each of its steps: where the
count of its object is one or zero, where the host still holds it, where a credential
that was just made belongs to nobody yet. `ObjectInv` says that a count of zero is an
object about to be freed, and that a provider has a credential of its apartment with
its own flags for as long as it owns a reference on it, which is until the step after its
own count has come to zero (`Keeps`); `SlotsDiffer` that no two providers share one. A
step of one apartment leaves the invariants of the others alone (`OthersKept`).

`ReferencesCounted` counts owners, which are members of four sets, and
`DLL_REF_COUNT` is the exact number of locks, of registered objects, and of calls that
have freed an object and not yet counted it down (`CountInv`). No induction over
sets is needed: a step of apartment `a` changes each set in at most one member
(`DiffersAt`), so that `Balance` and `CountBalance` reduce what has to be shown of a step
to arithmetic on what the step itself does. That a decrement finds a count of at
least one is `Bound`: a count is no less than the share of any one apartment and provider.

`LoadedWhileInUse` and `NothingLeaks` are the two readings of the exact counts: a sum of
naturals is zero only if all of them are, and with no owner left every object has the count
zero, which only an object in a running call may have. `FlagsReachCredential` is a part of
`ObjectInv`; `OneCredential` goes through the actions that write a provider's slot.

**Setup and Installer.** `IInv` of `InstallerProofs` has two layers. `SetupInv` is about
the commands alone. `CommandInv` ties a command to what is on record of it. `VaultInv`
says what the vault implies about the account it names: one that setup made is never
somebody else's, which is why uninstall may delete it. `InstallInv` and `UninstallInv`
say what has been found, made and removed by each step; `AdoptKeeps` and
`UninstallCleans` follow from them. `NoOrphanAdmin` is not inductive: while a command
runs there are administrators whose vault is not yet written or no longer there.
`OneFailureInv` therefore says for every step of the way that an administrator is in the
vault, is the one that the install in progress, or its rollback, holds by name, or is in
`misread`; that uninstall comes to deleting the vault with its account deleted, unless
that account is in `misread` and the vault itself does not claim it; that a torn vault
exists only before the second half of its write or in a rollback; and that a rollback
has used up the one failure, so that each of its calls succeeds. That uninstall gets
past any one failure follows, because a torn vault is the only thing that stops it.

The second layer is the MSI. `SetupSteps` shows that each of its steps is a step of
`Setup`, or a failing action while no command runs, so that `SetupInv` carries over; the
theorems about commands are thereby theorems about commands inside transactions.
`TransactionInv` says which transaction can have come to which action, with which command
done. `KeepInv` says that an upgrade or a repair has the vault it began with until its
provision starts, and that provision then adopts. `UndoInv` follows a first install
through its failure: the vault there is was made by it and says so, which is why undoing
it never asks `setup.json`; there is no new administrator but the one in it, and nobody
else is hidden.
`RemovalInv` says that a removal goes on only after an uninstall of the vault it found,
with the same account made or not made by setup.

### Only model-checked

Liveness: `SubmissionEnds` and `ReleasedIsAccountedFor`, because the prover has no fairness
or `ENABLED`. Every other property of the runs that pass is proved. The properties of the
runs of section 5 do not hold of the code, so there is nothing to prove of them.

## 5. Where code and documentation differ

* `unlock_replay`: two prompts that both read `guard.json` before either writes it
  hand out the credential for one step, against "that step and older ones are
  rejected" (docs/security-model.md:38-39). The same missing lock loses one of two
  failures that are recorded at once, so that more codes can be denied in a window than
  guard.rs:10 allows; `FailureBudget` is therefore checked and proved for prompts that
  do not overlap.
* `unlock_clockback`: failures recorded while the clock ran ahead count as new until
  the corrected clock passes them, against "lock the prompt until the oldest of them
  is this old" (guard.rs:12-13).
* `setup_orphan`: when adding the new user to Administrators fails, the user stays and
  no uninstall deletes it, against docs/installation.md:84-85.
* `setup_torn`: a crash while `vault.json` is written leaves a file that every later
  install and uninstall refuses, against docs/security-model.md:45-50.
* `setup_halfway`: an uninstall that fails to delete `vault.json` has deleted the
  account by then, and the next install adopts the vault and reports success, against
  setup/main.rs:24.
* `installer_rollback`: an upgrade that fails after the old product was removed leaves
  account and vault, and no product; installing again is a first install, which adopts
  them, and when that one fails its rollback action uninstalls what it did not make,
  against "undoes a fresh provision" (installer/otpuac.wxs:120) and
  docs/installation.md:85-86. An install by hand before the MSI leads to the same.

Three more are in the models or beside them without a run that shows them:

* A failing read of OTPUAC 1.0's `setup.json`, or one that does not parse, counts as "not
  made by setup" (`FailLegacyRead`, setup/install.rs:120-123). On a machine where OTPUAC
  1.0 made the account, that one failing call makes `uninstall` pass by the administrator,
  delete the vault and `setup.json`, and report success; no later uninstall knows of the
  account. docs/installation.md:84-85 and setup/main.rs:40 say that it is deleted.
  `NoOrphanAdmin`, `UninstallCleans` and `RemovalCleans` are false of the code without
  their exception for `misread`; with it they say that this is the only call that does so.
* `GetStringValue` of the code field copies the typed code into a vector that is freed
  unwiped and into memory that Windows frees (provider/windows_provider/fields.rs:109-113,
  credential.rs:218-231), against "plaintext password and TOTP buffers are cleared"
  (docs/provider.md:25). `NothingLeftBehind` is therefore about the copies of
  `GetSerialization` alone.
* "Every attempt is recorded" (docs/security-model.md:40-41) is wider than the code: an
  attempt that is locked out is refused before anything is recorded (core/unlock.rs:16-18).
  `DenialToldWhenRecorded` says which attempts are.

## 6. Not modelled

* HMAC, base32, URIs, JSON, DPAPI and GUIDs: conversions of a value without state. Their
  failures are steps of the callers, and `Hotp` stands for any code function.
* Generated passwords and secrets: each is the number of the command that made it. The
  models need to tell them apart, not what they look like.
* Field descriptors and other static tables, and the copies of them that Windows gets;
  the copies of the typed code that `GetStringValue` makes.
* `verify` and `enrollment`, which only read. Text and layout of messages.
* The ACL of the directory, beyond being a call that may fail.
* Of the MSI: the dialogs and the enrollment file they show and delete, the launch
  condition, which refuses before anything changes, and a machine that goes down in the
  middle of a transaction, which Windows Installer takes up again after the restart. A
  death of `otpuac-setup` inside a transaction is modelled.
* The build scripts and CI, which are not part of the running system.
* Writes that a power loss undoes after they were reported as done: nothing is flushed,
  but the repository claims nothing about power loss either.
* Accounts that an administrator recreates under the managed name: uninstall would delete
  them, and nothing in the repository promises otherwise.
* `Path::exists` answering false for a file that cannot be examined.
* What `guard.json` says when it outlives its vault (install.rs:103): `Setup` knows only
  that there is one.

## 7. Plan

Done, in the order of importance: `Totp`, `Guard`, `Unlock`, `OneTimeGate` with
`UnlockGate` and `UnlockProofs`; `Setup` and `Installer` with `InstallerProofs`; `Com` with
`ComProofs`; `Tile` with `TileProofs`; `Elevation` with `ElevationProofs`.

Next: an abstract specification of what COM promises its client (an object lives as long
as somebody owns it), with `Com` shown to implement it; and the rollback of provisioning as
an abstract transaction that `Setup` implements after at most one failure.

