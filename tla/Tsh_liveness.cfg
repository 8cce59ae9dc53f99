SPECIFICATION Spec
CONSTANTS
    PIDs <- TwoPids
    MAXJOBS = 2
    MaxJid = 2
    Keys <- CtrlZ
PROPERTIES
    ZombiesReaped
    PromptReturns
