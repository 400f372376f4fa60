\* One connection and two calls, writes to the call log that fail, fairness.
SPECIFICATION FairSpec
CONSTANTS
    k1 = k1
    k2 = k2
    c1 = c1
    c2 = c2
    c3 = c3
    None = None
    Conn <- Conns1
    Call <- Calls2
    PortCount = 2
    DBOutcome <- AnyDB
    Seconds <- Long
INVARIANTS
    FinalRowMeansHungUp
PROPERTIES
    DurationIsKept
    HangupReturns
    DialReturns
    EndedCallsFallSilent
    RemovedPeersCallEnds
CHECK_DEADLOCK FALSE
