\* An honest peer that pipelines up to MaxBuffered + 1 turns over a bad tunnel;
\* the delivery cache forgets all but the last commitment, and no deadline passes.
CONSTANTS
    N = 3
    NoCommit = NoCommit
    Commits <- AllCommits
    Seals <- HonestSeals
    PeerRole = "police"
    ExpectedRole = "police"
    Window = 2
    CacheSize = 1
    MaxBuffered = 1
    InboxBound = 3
    MaxRestarts = 0
    Deadlines = FALSE
SPECIFICATION FairSpec
INVARIANTS NoFalseAlarm AckedTurnIsHeld
PROPERTIES DeliversInOrder EveryTurnArrives
