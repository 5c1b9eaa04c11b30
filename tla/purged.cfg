\* A failed pending query empties the questions_db.
CONSTANTS
    yes = yes
    no = no

    None = None
    Undet = Undet
    Garbage = Garbage
    Markets = {m1}
    Answers = {yes, no}
    ZeroAnswer = yes
    Bonds = {1}
    AnswerTimeout = 3
    MaxTime = 4
    MaxRetries = 2
    InitialBond = 1
    MaxBond = 2
    RetryCooldown = 1
    NoAnswerCooldown = 2
    ChallengeCooldown = 1
    UrgencyBuffer = 1
    Untitled = {}
    History <- NoHistory
    Balances = {0, 2}
    MaxNonce = 6
    MaxFaults = 2
SPECIFICATION Spec
PROPERTIES PendingNeverPurged
