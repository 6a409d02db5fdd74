CONSTANTS
    a = a
    b = b
    p1 = p1
    p2 = p2
    p3 = p3
    p4 = p4
    q1 = q1
    q2 = q2
    None = None
    Nodes = {a, b}
    Payloads = {p1, p2, p3, p4, q1}
    Keyed = {p1, q1}
    From <- MCFrom
    To <- MCTo
    Window = 3
    IdMod = 6
    MaxRaces = 0
SPECIFICATION Spec
INVARIANT AcknowledgedWasReceived
CHECK_DEADLOCK FALSE
