CONSTANTS
    a = a
    b = b
    p1 = p1
    p2 = p2
    p3 = p3
    p4 = p4
    q1 = q1
    q2 = q2
    None = None
    Nodes = {a, b}
    Payloads = {p1, p2, q1}
    Keyed = {p1, q1}
    From <- MCFrom
    To <- MCTo
    Window = 2
    IdMod = 6
    MaxRaces = 1
SPECIFICATION FairSpec
INVARIANTS
    TypeOK
    HandledOnceUnlessOverlooked
    ResentIsFirst
    NoFreshDrop
PROPERTY AcknowledgedIsHandled
CHECK_DEADLOCK FALSE
