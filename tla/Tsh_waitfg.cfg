SPECIFICATION Spec
CONSTANTS
    PIDs <- OnePid
    MAXJOBS = 1
    MaxJid = 2
    Keys <- CtrlZ
PROPERTIES
    WaitfgEnds
