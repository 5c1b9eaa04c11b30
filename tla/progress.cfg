\* Two markets and one failure: everything is answered or its retries are used up.
CONSTANTS
    yes = yes
    no = no
    None = None
    Undet = Undet
    Garbage = Garbage
    Markets = {m1, m2}
    Answers = {yes}
    ZeroAnswer = yes
    Bonds = {}
    AnswerTimeout = 2
    MaxTime = 2
    MaxRetries = 2
    InitialBond = 1
    MaxBond = 2
    RetryCooldown = 0
    NoAnswerCooldown = 0
    ChallengeCooldown = 0
    UrgencyBuffer = 0
    Untitled = {}
    History <- NoHistory
    Balances = {2}
    MaxNonce = 8
    MaxFaults = 1
SPECIFICATION FairSpec
PROPERTIES EventuallyResolved
