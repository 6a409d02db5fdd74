CONSTANTS
    c1 = c1
    c2 = c2
    c3 = c3
    Clients = {c1, c2, c3}
    MaxPlayers = 2
    MaxSent = 6
    None = None
SYMMETRY ClientSymmetry
SPECIFICATION Spec
INVARIANTS
    TypeOK
    MembersDistinct
    NeverOverfull
    ReadyAreMembers
    EmptiedIsReplaced
PROPERTIES
    StartOnlyWhenAllReady
    ImplementsService
CHECK_DEADLOCK FALSE
