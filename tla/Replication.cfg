CONSTANTS
    c1 = c1
    c2 = c2
    c3 = c3
    Clients = {c1, c2}
    MaxPlayers = 2
    MaxLife = 2
    MaxInits = 2
    MaxDamage = 2
    None = None
SYMMETRY ClientSymmetry
CONSTRAINTS
    FewPackets
    LobbyIsThere
SPECIFICATION Spec
INVARIANTS
    TypeOK
    LastDeathEndsGame
    NoPlayerLost
    OwnStaysOwn
CHECK_DEADLOCK FALSE
