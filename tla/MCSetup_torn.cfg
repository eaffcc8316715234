\* Can a crashed install be uninstalled?
SPECIFICATION Spec
CONSTANTS
    a = a
    b = b
    Names = {a, b}
    BadName = badName
    Edits = FALSE
    Crashes = TRUE
    MaxRuns = 2
    MaxFaults = 1
CHECK_DEADLOCK FALSE
INVARIANTS
    UninstallFailsOnlyByFault
