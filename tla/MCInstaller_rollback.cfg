\* May the rollback action run after an install that adopted a vault?
SPECIFICATION InstallerSpec
CONSTANTS
    a = a
    b = b
    Names = {a, b}
    BadName = badName
    Edits = FALSE
    Crashes = FALSE
    ByHand = FALSE
    MaxVersion = 2
    MaxRuns = 3
    MaxFaults = 2
CHECK_DEADLOCK FALSE
PROPERTIES
    RollbackSparesAdopted
