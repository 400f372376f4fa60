\* Two connections and an offer: reconnection, logout and the microphone.
SPECIFICATION Spec
CONSTANTS
    s1 = s1
    s2 = s2
    d1 = d1
    d2 = d2
    g1 = g1
    g2 = g2
    a1 = a1
    a2 = a2
    None = None
    Socket <- Sockets2
    Click <- NoDials
    Prompt <- Prompts2
    Agent <- Agents1
    Expired <- NoAgents
    Offering <- Sockets1
    Trickling <- Sockets1
    Foreign = 0
INVARIANTS
    SocketsAreOwned
    MicrophoneIsReleased
    CandidatesArrive
    PhoneInv
PROPERTIES
    AnswerCarriesMicrophone
CHECK_DEADLOCK FALSE
