\* One connection, three calls and two ports: dialling again and re-INVITEs.
SPECIFICATION Spec
CONSTANTS
    k1 = k1
    k2 = k2
    c1 = c1
    c2 = c2
    c3 = c3
    None = None
    Conn <- Conns1
    Call <- Calls3
    PortCount = 2
    DBOutcome <- BestDB
    Seconds <- Long
SYMMETRY SymmetryC3
INVARIANTS
    IndInv
    OneCallPerConnection
    SocketsAccountedFor
    BusyLineIsLive
    ScanFindsAFreePort
CHECK_DEADLOCK FALSE
