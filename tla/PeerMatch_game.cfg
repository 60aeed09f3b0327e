\* Every game of three turns on a 3 x 3 board: the police starts in the middle
\* and can wall the thief in its corner.
CONSTANTS
    Size = 3
    None = None
    CopStart <- Center
    ThiefStart <- Corner
    MaxMoves = 3
    MaxBarriers = 2
    Deadlines = FALSE
    Cancels = FALSE
SPECIFICATION Spec
INVARIANTS ResultIsTrue GameIsSigned TurnsAreAccepted BoardsAgree
PROPERTIES AuditConfirms PlaysTheGame
CHECK_DEADLOCK FALSE
