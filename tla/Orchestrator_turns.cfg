CONSTANTS
    MaxRetries = 1
    Timeout = 1
    WatchdogTimeout = 3
    ThinkingTime = 1
    MaxTurns = 3
SPECIFICATION FairSpec
INVARIANT LogIsWhatPeerHolds
PROPERTIES WatchdogLeavesTurnsAlone SentTurnEnds
