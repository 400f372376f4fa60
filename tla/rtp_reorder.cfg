SPECIFICATION Spec
CONSTANTS
    s1 = s1
    s2 = s2
    None = None
    Stream <- Streams2
    Packets = 3
    Modulus = 8
    Base <- NearTheEnd
    InOrder = FALSE
INVARIANTS
    NumbersAreFresh

CHECK_DEADLOCK FALSE
