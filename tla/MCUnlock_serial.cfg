\* One prompt at a time, a clock that is never adjusted, distinct codes.
SPECIFICATION Spec
CONSTANTS
    p1 = p1
    p2 = p2
    c0 = c0
    c1 = c1
    c2 = c2
    c3 = c3
    Prompts = {p1, p2}
    Malformed = malformed
    Codes = {c0, c1, c2, c3}
    Hotp <- DistinctHotp
    StepSeconds = 2
    SkewSteps = 1
    LockoutSeconds = 3
    MaxFailures = 2
    Overlap = FALSE
    Offsets <- NoAdjustment
    MaxUptime = 5
    MaxAttempts = 4
SYMMETRY PromptSymmetry
CHECK_DEADLOCK FALSE
INVARIANTS
    FailureBudget
    LockoutMatchesDenials
    TornOnlyByFault
    OnlyBadCodesDenied
PROPERTIES
    GateSpec
