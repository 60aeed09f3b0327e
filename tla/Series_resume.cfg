SPECIFICATION FairSpec
CONSTANTS
    alpha = alpha
    beta = beta
    Teams = {alpha, beta}
    FirstThief = alpha
    None = None
    NumGames = 2
    Signatures <- Both
    MaxFaults = 2
    MaxLaunches = 2
    MaxGames = 3
INVARIANTS FinalizationFindsAll ConfirmedIsShared
PROPERTIES SeriesIsSettled EvidenceIsKept
CHECK_DEADLOCK FALSE
