CONSTANTS
    p1 = p1  p2 = p2  f1 = f1  f2 = f2  s1 = s1  s2 = s2
    Processes = {p1, p2}
    Paths = {f1, f2}
    Slots = {s1, s2}
    Nobody = Nobody
    MaxLeases = 3
    MaxSwitches = 2
    MaxFaults = 1
SPECIFICATION Spec
INVARIANT WritersAreProtected
SYMMETRY Symmetry
CHECK_DEADLOCK FALSE
