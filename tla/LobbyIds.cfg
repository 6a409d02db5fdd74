CONSTANTS
    c1 = c1
    c2 = c2
    c3 = c3
    Clients = {c1, c2}
    MaxPlayers = 2
    MaxSent = 7
    None = None
SYMMETRY ClientSymmetry
SPECIFICATION Spec
INVARIANT MemberIdsUnique
CHECK_DEADLOCK FALSE
