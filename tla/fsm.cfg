\* One agent or four; the times of service.yaml in ticks of 150 seconds, but
\* RoundTime one tick longer, for time to pass in a round before its timeout.
CONSTANTS
    a1 = a1
    a2 = a2
    a3 = a3
    a4 = a4
    None = None
    Committees <- Sizes
    MaxFaults = 3
    RoundTime = 2
    PauseTime = 2
    Margin = 1
    MechTime = 8
    SettleTime = 9
    StallTolerance = 1
    MaxElapsed = 9
SPECIFICATION ServiceSpec
INVARIANTS ServiceTypeOK PaidAnswerUsable StuckOnlyInLongRounds
PROPERTIES FollowsFsm ChainInOrder ResumesOwner PeriodsEnd FrozenNoticed HealthyCompletesPeriods
