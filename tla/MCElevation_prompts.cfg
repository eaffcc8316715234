\* Two prompts at once: liveness, and what the tile tells.
SPECIFICATION FairElevation
CONSTANTS
    p1 = p1
    p2 = p2
    c0 = c0
    Prompts = {p1, p2}
    Malformed = malformed
    Codes = {c0}
    Hotp <- SameHotp
    StepSeconds = 1
    SkewSteps = 0
    LockoutSeconds = 1
    MaxFailures = 1
    Overlap = TRUE
    Offsets <- NoAdjustment
    MaxUptime = 1
    MaxAttempts = 2
    Blank = blank
    Empty = empty
    MaxTypings = 2
CHECK_DEADLOCK FALSE
INVARIANTS
    ElevationTypeOK
    DeliveredOnce
    FailuresBounded
    AttemptsAreTyped
PROPERTIES
    UnlockSpec
    DenialToldWhenRecorded
    SubmissionEnds
    ReleasedIsAccountedFor
