CONSTANTS
    NumGames = 2
    Plays <- TwoPlays
    TieScore = 2
    Real = TRUE
    None = None
    MaxFaults = 0
    MaxLaunches = 1
    MaxAttempts = 1
    Viewed = {1}
    MaxTicks = 1
SPECIFICATION ViewerSpec
INVARIANT SubmittedLogsReplay
CHECK_DEADLOCK FALSE
