\* A torn preflight raises the bond on the agent's own answer.
CONSTANTS
    yes = yes
    no = no
    None = None
    Undet = Undet
    Garbage = Garbage
    Markets = {m1}
    Answers = {yes, no}
    ZeroAnswer = yes
    Bonds = {1, 2, 4}
    AnswerTimeout = 3
    MaxTime = 3
    MaxRetries = 1
    InitialBond = 1
    MaxBond = 4
    RetryCooldown = 1
    NoAnswerCooldown = 2
    ChallengeCooldown = 1
    UrgencyBuffer = 1
    Untitled = {}
    History <- NoHistory
    Balances = {4}
    MaxNonce = 3
    MaxFaults = 1
SPECIFICATION Spec
PROPERTIES NeverDefends
