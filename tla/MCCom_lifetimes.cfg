\* Two apartments side by side.
SPECIFICATION Spec
CONSTANTS
    a1 = a1
    a2 = a2
    o1 = o1
    o2 = o2
    o3 = o3
    o4 = o4
    Apartments = {a1, a2}
    Objects = {o1, o2, o3, o4}
    Null = null
    Flags = {0, 1}
    MaxHeld = 2
    MaxLocks = 1
SYMMETRY HostSymmetry
INVARIANTS
    TypeOK
    LoadedWhileInUse
    ReferencesCounted
    NothingLeaks
    FlagsReachCredential
PROPERTIES
    OneCredential
