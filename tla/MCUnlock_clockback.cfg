\* A clock that is corrected backwards: does a lockout end in time?
SPECIFICATION Spec
CONSTANTS
    p1 = p1
    p2 = p2
    c0 = c0
    c1 = c1
    c2 = c2
    c3 = c3
    Prompts = {p1, p2}
    Malformed = malformed
    Codes = {c0, c1}
    Hotp <- CollidingHotp
    StepSeconds = 2
    SkewSteps = 1
    LockoutSeconds = 2
    MaxFailures = 1
    Overlap = FALSE
    Offsets <- ClockAhead
    MaxUptime = 3
    MaxAttempts = 2
SYMMETRY PromptSymmetry
CHECK_DEADLOCK FALSE
INVARIANTS
    LockoutEnds
