\* A prompt that is open at a logout turns the microphone on afterwards.
SPECIFICATION Spec
CONSTANTS
    s1 = s1
    s2 = s2
    d1 = d1
    d2 = d2
    g1 = g1
    g2 = g2
    a1 = a1
    a2 = a2
    None = None
    Socket <- Sockets1
    Click <- Dials1
    Prompt <- Prompts1
    Agent <- Agents1
    Expired <- NoAgents
    Offering <- NoOffers
    Trickling <- NoOffers
    Foreign = 0
INVARIANTS
    MicrophoneStops
CHECK_DEADLOCK FALSE
