\* A police that leaves the scent this program leaves; it starts next to a
\* thief in its corner and has three walls.
CONSTANTS
    Size = 3
    None = None
    CopStart <- Middle
    ThiefStart <- Corner
    MaxMoves = 5
    MaxBarriers = 3
    TopPositions = 2
    Publishes = {TRUE, FALSE}
    EmitterCap = 9000000
    MaxAmbiguity = 8
SPECIFICATION Spec
INVARIANTS EvidenceHoldsCop GuardedIsNotCaught
PROPERTY SafestTierIsKept
CHECK_DEADLOCK FALSE
