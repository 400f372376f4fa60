SPECIFICATION Spec
CONSTANTS
    s1 = s1
    s2 = s2
    None = None
    Stream <- Streams2
    Packets = 3
    Modulus = 8
    Base <- NearTheEnd
    InOrder = TRUE
INVARIANTS
    NumbersAreFresh
    FreshInv
    StampsKeepStep
    LossesStayVisible
CHECK_DEADLOCK FALSE
