\* Transactions of the MSI and commands by hand, two faults and deaths among them.
SPECIFICATION InstallerSpec
CONSTANTS
    a = a
    b = b
    Names = {a, b}
    BadName = badName
    Edits = TRUE
    Crashes = TRUE
    ByHand = TRUE
    MaxVersion = 2
    MaxRuns = 3
    MaxFaults = 2
SYMMETRY NameSymmetry
CHECK_DEADLOCK FALSE
INVARIANTS
    InstallerTypeOK
    NoOrphanAdmin
    UninstallCleans
    UninstallGetsPastFailure
    FailedInstallUndone
    RemovalCleans
PROPERTIES
    ForeignUntouched
    AdoptKeeps
    FreshInstallComplete
    UpgradeKeeps
    InstalledMeansVault
