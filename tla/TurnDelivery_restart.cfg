CONSTANTS
    N = 3
    NoCommit = NoCommit
    Commits <- AllCommits
    Seals <- ReusingSeals
    PeerRole = "police"
    ExpectedRole = "police"
    Window = 1
    CacheSize = 1
    MaxBuffered = 0
    InboxBound = 1
    MaxRestarts = 2
    Deadlines = TRUE
SPECIFICATION RunSpec
INVARIANT CommitPlayedOnce
PROPERTY NobodyHangs
