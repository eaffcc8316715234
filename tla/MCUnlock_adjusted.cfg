\* One prompt at a time, a clock that is set to and fro, colliding codes.
SPECIFICATION Spec
CONSTANTS
    p1 = p1
    p2 = p2
    c0 = c0
    c1 = c1
    c2 = c2
    c3 = c3
    Prompts = {p1, p2}
    Malformed = malformed
    Codes = {c0, c1}
    Hotp <- CollidingHotp
    StepSeconds = 2
    SkewSteps = 1
    LockoutSeconds = 3
    MaxFailures = 2
    Overlap = FALSE
    Offsets <- Adjustments
    MaxUptime = 3
    MaxAttempts = 3
SYMMETRY PromptSymmetry
CHECK_DEADLOCK FALSE
INVARIANTS
    TypeOK
    ReleasesIncrease
    RecordedFirst
    OnlyValidCodesReleased
