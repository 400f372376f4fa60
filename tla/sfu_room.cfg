\* Two clients, one of which may hang, and two attempts before a sync is put off.
SPECIFICATION FairSpec
CONSTANTS
    p1 = p1
    p2 = p2
    Peer <- Peers2
    Attempts = 2
    Hanging <- Second
INVARIANTS
    SfuInv
    AnswersMatch
    RestMeansSynced
PROPERTIES
    EveryoneSeesAll
CHECK_DEADLOCK FALSE
