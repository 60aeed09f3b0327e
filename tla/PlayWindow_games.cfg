\* Games of three actions on a 3 x 3 board: the thief is in a corner that the
\* cop, from the middle, can close.  Two windows are opened one after the other;
\* a simulated match has two turns.
CONSTANTS
    Size = 3
    None = None
    CopStart <- Center
    ThiefStart <- Corner
    MaxMoves = 3
    SurvivalThreshold = 2
    MaxBarriers = 2
    MaxGames = 2
    MaxLogs = 1
SPECIFICATION FairSpec
INVARIANTS OffersTheTurn PortIsReleased
PROPERTIES PlaysTheChase AgentsFinish EndIsShown
CHECK_DEADLOCK FALSE
