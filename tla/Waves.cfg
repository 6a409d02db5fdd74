CONSTANTS
    c1 = c1
    c2 = c2
    Clients = {c1}
    Server = Server
    Size <- MCSize
    MaxEarlier = 1
SPECIFICATION FairSpec
INVARIANTS
    TypeOK
    NoDoubleEnemy
    EnemyIdsAgree
PROPERTIES
    WaveStartsAfterLast
    GameEnds
CHECK_DEADLOCK FALSE
