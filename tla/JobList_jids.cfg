SPECIFICATION ListSpec
CONSTANTS
    PIDs <- FourPids
    MAXJOBS = 4
    MaxJid = 6
INVARIANTS
    FoundByJid
CHECK_DEADLOCK FALSE
