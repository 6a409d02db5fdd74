CONSTANTS
    p1 = p1
    p2 = p2
    p3 = p3
    p4 = p4
    n1 = n1
    n2 = n2
    Procs = {p1, p2, p3}
    Names = {n1, n2}
    MaxCreates = 2
    Main = Main
    None = None
ACTION_CONSTRAINT InOrder
SPECIFICATION FairSpec
INVARIANTS
    TypeOK
    ReplacedIsDelisted
    OnlyReplacedNamesVanish
PROPERTY StopEndsLobbies
CHECK_DEADLOCK FALSE
