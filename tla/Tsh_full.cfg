SPECIFICATION Spec
CONSTANTS
    PIDs <- TwoPids
    MAXJOBS = 1
    MaxJid = 2
    Keys <- CtrlZ
INVARIANTS
    HandlerReturns
