\* Four sub-games, each played at most twice, with one crash or failure and
\* three launches; one log may be opened between two launches.
CONSTANTS
    NumGames = 4
    Plays <- FourPlays
    TieScore = 2
    Real = TRUE
    None = None
    MaxFaults = 1
    MaxLaunches = 3
    MaxAttempts = 2
    Viewed = {1}
    MaxTicks = 2
SPECIFICATION ViewerSpec
INVARIANTS MailTellsTheSeries RejectionIsExplained
PROPERTIES MailIsFinal ConfirmedIsSubmitted PlaybackEnds
CHECK_DEADLOCK FALSE
