\* A market without a title is chosen for ever; the other one waits.
CONSTANTS
    yes = yes
    no = no
    None = None
    Undet = Undet
    Garbage = Garbage
    Markets = {m1, m2}
    Answers = {yes, no}
    ZeroAnswer = yes
    Bonds = {}
    AnswerTimeout = 2
    MaxTime = 2
    MaxRetries = 2
    InitialBond = 1
    MaxBond = 2
    RetryCooldown = 0
    NoAnswerCooldown = 0
    ChallengeCooldown = 0
    UrgencyBuffer = 0
    Untitled = {m2}
    History <- NoHistory
    Balances = {2}
    MaxNonce = 8
    MaxFaults = 0
SPECIFICATION FairSpec
PROPERTIES EveryTitledMarketServed
