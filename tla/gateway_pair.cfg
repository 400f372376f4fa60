\* Two connections and two calls share two ports.
SPECIFICATION Spec
CONSTANTS
    k1 = k1
    k2 = k2
    c1 = c1
    c2 = c2
    c3 = c3
    None = None
    Conn <- Conns2
    Call <- Calls2
    PortCount = 2
    DBOutcome <- BestDB
    Seconds <- Long
SYMMETRY Symmetry2
INVARIANTS
    HearsOnlyItsOwnCall
    GoneLeavesNoCall
PROPERTIES
    NoCallIsOverwritten
    LineSpec
CHECK_DEADLOCK FALSE
