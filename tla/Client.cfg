CONSTANTS
    l1 = l1
    l2 = l2
    l3 = l3
    Lobbies = {l1, l2, l3}
    RowNb = 2
    Countdown = 2
    MaxClicks = 3
    None = None
SYMMETRY LobbySymmetry
SPECIFICATION Spec
INVARIANTS
    TypeOK
    OneLobbyAtATime
    RowsOfPage
PROPERTY CountdownIsFull
CHECK_DEADLOCK FALSE
