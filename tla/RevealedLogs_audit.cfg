CONSTANTS
    Size = 2
    None = None
    CopStart <- West
    ThiefStart <- East
    ThiefPayloads <- ThiefTurns
    PolicePayloads <- PoliceTurns
    Budget = 1
    MaxRecords = 3
SPECIFICATION RevealSpec
INVARIANTS FaultsAreFound CaptureIsAdmitted
CHECK_DEADLOCK FALSE
