\* Can a half-finished uninstall be followed by an install?
SPECIFICATION Spec
CONSTANTS
    a = a
    b = b
    Names = {a, b}
    BadName = badName
    Edits = FALSE
    Crashes = FALSE
    MaxRuns = 3
    MaxFaults = 1
CHECK_DEADLOCK FALSE
PROPERTIES
    InstallMeansAccount
