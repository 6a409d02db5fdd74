CONSTANTS
    p1 = p1
    p2 = p2
    p3 = p3
    p4 = p4
    n1 = n1
    n2 = n2
    Procs = {p1, p2, p3}
    Names = {n1}
    MaxCreates = 1
    Main = Main
    None = None
SYMMETRY ProcSymmetry
SPECIFICATION Spec
INVARIANT AnnouncedIsListed
CHECK_DEADLOCK FALSE
