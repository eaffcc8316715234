\* Does uninstall delete whatever setup made?
SPECIFICATION Spec
CONSTANTS
    a = a
    b = b
    Names = {a, b}
    BadName = badName
    Edits = FALSE
    Crashes = FALSE
    MaxRuns = 2
    MaxFaults = 1
CHECK_DEADLOCK FALSE
INVARIANTS
    UninstallDeletesMade
