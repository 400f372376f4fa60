\* A connection that is gone leaves an RTP socket open.
SPECIFICATION Spec
CONSTANTS
    k1 = k1
    k2 = k2
    c1 = c1
    c2 = c2
    c3 = c3
    None = None
    Conn <- Conns1
    Call <- Calls2
    PortCount = 2
    DBOutcome <- BestDB
    Seconds <- Long
INVARIANTS
    DisconnectedPeerIsClean
CHECK_DEADLOCK FALSE
