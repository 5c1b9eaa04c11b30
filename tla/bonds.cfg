\* One market, every bond: what the Safe stakes and what it displaces.
CONSTANTS
    yes = yes
    no = no
    None = None
    Undet = Undet
    Garbage = Garbage
    Markets = {m1}
    Answers = {yes, no}
    ZeroAnswer = yes
    Bonds = {1, 2, 4}
    AnswerTimeout = 3
    MaxTime = 3
    MaxRetries = 1
    InitialBond = 1
    MaxBond = 4
    RetryCooldown = 1
    NoAnswerCooldown = 2
    ChallengeCooldown = 2
    UrgencyBuffer = 1
    Untitled = {}
    History <- NoHistory
    Balances = {8}
    MaxNonce = 3
    MaxFaults = 1
SPECIFICATION Spec
INVARIANTS StakeBounded
PROPERTIES ChallengeDisplaces RevertsOnlyOvertaken DisputesRaised
