\* One connection, two dials, and one broadcast about a call of others.
SPECIFICATION FairSpec
CONSTANTS
    s1 = s1
    s2 = s2
    d1 = d1
    d2 = d2
    g1 = g1
    g2 = g2
    a1 = a1
    a2 = a2
    None = None
    Socket <- Sockets1
    Click <- Dials2
    Prompt <- Prompts2
    Agent <- Agents2
    Expired <- SecondAgent
    Offering <- NoOffers
    Trickling <- NoOffers
    Foreign = 1
INVARIANTS
    PhoneInv
    DialledOnce
    IdleMeansNoCall
    BusyMeansCall
    OnlineIsRight
PROPERTIES
    DialingEnds
CHECK_DEADLOCK FALSE
