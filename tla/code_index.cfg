CONSTANTS
    a = a  b = b  a2 = a2  f = f  g = g  h = h  v1 = v1  v2 = v2  p1 = p1
    Files = {a, b}
    Spellings = {a, a2, b}
    FileOf <- MCFileOf
    Names = {f, g, h}
    Places = {1, 2}
    Versions = {v1, v2}
    Broken = Broken
    Gone = Gone
    Defs <- MCDefs
    Projects = {p1}
    Unknown = Unknown
    NoHash = NoHash
    MaxDepth = 1
    MaxNodes = 3
    MaxRoots = 1
    MaxIndexings = 2
SPECIFICATION Spec
INVARIANTS TypeOK HashMeansIndexed VectorsOfOneVersion ContextIsNeighbourhood
CHECK_DEADLOCK FALSE
