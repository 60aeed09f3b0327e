CONSTANTS
    Size = 2
    None = None
    CopStart <- Center
    ThiefStart <- Corner
    MaxMoves = 3
    MaxBarriers = 1
    Deadlines = TRUE
    Cancels = TRUE
SPECIFICATION RunSpec
INVARIANT ResultsAgree
PROPERTIES NobodyHangs CaptureIsRecorded

